----------------------------- MODULE SharesProofs -----------------------------
(***************************************************************************)
(* What TLAPS proves of Shares, for any number of links, requests, users and *)
(* paths, and without the bounds and the state constraint of the run; and of *)
(* RateLimit, for any number of addresses, requests and limiters, any burst  *)
(* and any clock.                                                            *)
(***************************************************************************)
EXTENDS Links, FiniteSetTheorems, TLAPS

(* What is in memory: what anyone refers to, and nothing else.                  *)
InUse == Refs(cache, at, flush, mover)

Mem ==
  /\ heap \in [Objs -> Links \cup {Nil}]
  /\ \A o \in InUse : o = Nil \/ (o \in Objs /\ heap[o] \in Links)
  /\ \A o \in Objs : heap[o] # Nil => o \in InUse

Holders == {"fill", "got", "listfill", "count", "countview", "countuser", "save", "savepath", "recache", "repath"}
ReqRecs == [pc : Places, h : Hashes \cup {Nil}, obj : Objs \cup {Nil}, arg : Callers \cup Paths \cup {Nil}]
MoverRecs == [old : Paths \cup {Nil}, new : Paths \cup {Nil}, read : [Hashes -> Links \cup {Nil}] \cup {Nil},
              todo : SUBSET Hashes, h : Hashes \cup {Nil}, obj : Objs \cup {Nil}]
CountRecs == [n : Nat, by : [Users -> Nat]]

(* A request: where it is tells what it holds.                                 *)
ReqOK(q) ==
  /\ q.pc = "idle" => q.h = Nil
  /\ q.pc # "idle" => q.h \in born
  /\ q.obj # Nil <=> q.pc \in Holders
  /\ q.pc \in {"count", "countview", "countuser"} => q.arg \in Callers
  /\ q.pc = "countuser" => q.arg \in Users
  /\ q.pc \in {"savepath", "repath"} => q.arg \in Paths

MoverOK(m) ==
  /\ m.old = Nil => m = NoMove
  /\ m.old # Nil => <<m.old, m.new>> \in Moves
  /\ m.read = Nil <=> m.todo = {}
  /\ m.h # Nil => m.h \in m.todo
  /\ m.obj # Nil <=> m.h # Nil
  /\ \A h \in m.todo : m.read[h] \in Links /\ h \in born

Basic ==
  /\ bolt \in [Hashes -> Links \cup {Nil}]
  /\ cache \in [Hashes -> Objs \cup {Nil}]
  /\ now \in 1 .. MaxNow
  /\ born \subseteq Hashes /\ gone \subseteq born /\ files \subseteq Paths
  /\ served \in [Hashes -> CountRecs]
  /\ target \in [Hashes -> Paths \cup {Nil}]
  /\ excuse \in [Hashes -> SUBSET Excuses]
  /\ \A h \in Hashes : (bolt[h] # Nil \/ cache[h] # Nil) => h \in born
  /\ \A h \in Hashes : target[h] # Nil <=> h \in born

Requests == at \in [Reqs -> ReqRecs] /\ \A r \in Reqs : ReqOK(at[r])
Moving == mover \in MoverRecs /\ MoverOK(mover)
Saving ==
  flush # Nil => /\ flush \in SUBSET (Hashes \X Objs)
                 /\ \A d, e \in flush : d[1] = e[1] => d = e
                 /\ \A e \in flush : e[1] \in born

TInv == Basic /\ Requests /\ Moving /\ Saving /\ Mem

-------------------------------------------------------------------------------
(* Memory                                                                      *)

\* The values of a function are no more than its arguments.
LEMMA ImageBound ==
  ASSUME NEW S, IsFiniteSet(S), NEW f, f = [x \in S |-> f[x]]
  PROVE  IsFiniteSet({f[x] : x \in S}) /\ Cardinality({f[x] : x \in S}) <= Cardinality(S)
<1> DEFINE T == {f[x] : x \in S}
<1>1. f \in Surjection(S, T)
  BY DEF Surjection
<1> QED BY <1>1, FS_Surjection

LEMMA UnionBound ==
  ASSUME NEW S, IsFiniteSet(S), NEW T, IsFiniteSet(T)
  PROVE  IsFiniteSet(S \cup T) /\ Cardinality(S \cup T) <= Cardinality(S) + Cardinality(T)
<1>1. /\ IsFiniteSet(S \cup T)
      /\ Cardinality(S \cup T) = Cardinality(S) + Cardinality(T) - Cardinality(S \cap T)
  BY FS_Union
<1>2. IsFiniteSet(S \cap T)
  BY FS_Intersection
<1> QED BY <1>1, <1>2, FS_CardinalityType

\* There is room for another object.
LEMMA Room ==
  ASSUME SharesAssumption, TInv
  PROVE  NewObj \in Objs /\ heap[NewObj] = Nil
<1> DEFINE C == {cache[h] : h \in Hashes}
           A == {at[r].obj : r \in Reqs}
           F == IF flush = Nil THEN {} ELSE {e[2] : e \in flush}
           g == [h \in Hashes |-> IF flush # Nil /\ \E e \in flush : e[1] = h
                                  THEN (CHOOSE e \in flush : e[1] = h)[2] ELSE Nil]
           G == {g[h] : h \in Hashes}
           a == [r \in Reqs |-> at[r].obj]
<1>0. IsFiniteSet(Hashes) /\ IsFiniteSet(Reqs) /\ IsFiniteSet(Objs)
  BY DEF SharesAssumption
<1>1. SUFFICES ASSUME \A o \in Objs : heap[o] # Nil PROVE FALSE
  BY DEF NewObj
<1>2. Objs \subseteq InUse
  BY <1>1 DEF TInv, Mem
<1>3. IsFiniteSet(C) /\ Cardinality(C) <= Cardinality(Hashes)
  <2>1. cache = [h \in Hashes |-> cache[h]]
    BY DEF TInv, Basic
  <2> QED BY <1>0, <2>1, ImageBound
<1>4. IsFiniteSet(A) /\ Cardinality(A) <= Cardinality(Reqs)
  <2>1. {a[r] : r \in Reqs} = A
    OBVIOUS
  <2>2. a = [r \in Reqs |-> a[r]]
    OBVIOUS
  <2> HIDE DEF a
  <2> QED BY <1>0, <2>1, <2>2, ImageBound
<1>5. IsFiniteSet(G) /\ Cardinality(G) <= Cardinality(Hashes)
  <2>2. g = [h \in Hashes |-> g[h]]
    OBVIOUS
  <2> HIDE DEF g
  <2> QED BY <1>0, <2>2, ImageBound
<1>6. F \subseteq G
  <2> SUFFICES ASSUME flush # Nil, NEW e \in flush PROVE e[2] \in G
    OBVIOUS
  <2>1. e[1] \in Hashes /\ \A d \in flush : d[1] = e[1] => d = e
    BY DEF TInv, Saving
  <2>2. (CHOOSE d \in flush : d[1] = e[1]) = e
    BY <2>1
  <2>3. g[e[1]] = e[2]
    BY <2>1, <2>2
  <2> QED BY <2>1, <2>3
<1>7. IsFiniteSet(F) /\ Cardinality(F) <= Cardinality(Hashes)
  <2> HIDE DEF F, G
  <2>1. IsFiniteSet(F) /\ Cardinality(F) <= Cardinality(G)
    BY <1>5, <1>6, FS_Subset
  <2> QED BY <1>5, <2>1, FS_CardinalityType DEF SharesAssumption
<1>8. InUse = ((C \cup A) \cup {mover.obj}) \cup F
  BY DEF InUse, Refs
<1> HIDE DEF C, A, F, G, g, a
<1>9. IsFiniteSet(C \cup A) /\ Cardinality(C \cup A) <= Cardinality(C) + Cardinality(A)
  BY <1>3, <1>4, UnionBound
<1>10. IsFiniteSet({mover.obj}) /\ Cardinality({mover.obj}) = 1
  BY FS_Singleton
<1> DEFINE CA == C \cup A
           CAM == CA \cup {mover.obj}
<1>11. IsFiniteSet(CAM) /\ Cardinality(CAM) <= Cardinality(CA) + 1
  <2> HIDE DEF CA
  <2>1. IsFiniteSet(CA)
    BY <1>9 DEF CA
  <2> QED BY <2>1, <1>10, UnionBound
<1> HIDE DEF CAM
<1>12. IsFiniteSet(InUse) /\ Cardinality(InUse) <= Cardinality(CAM) + Cardinality(F)
  <2>1. InUse = CAM \cup F
    BY <1>8 DEF CAM
  <2> QED BY <2>1, <1>11, <1>7, UnionBound
<1>13. Cardinality(Objs) <= Cardinality(InUse)
  BY <1>2, <1>12, FS_Subset
<1>14. /\ Cardinality(C) \in Nat /\ Cardinality(A) \in Nat /\ Cardinality(F) \in Nat
       /\ Cardinality(CA) \in Nat /\ Cardinality(CAM) \in Nat /\ Cardinality(InUse) \in Nat
       /\ Cardinality(Hashes) \in Nat /\ Cardinality(Reqs) \in Nat /\ Cardinality(Objs) \in Nat
  BY <1>3, <1>4, <1>7, <1>9, <1>11, <1>12, FS_CardinalityType DEF SharesAssumption
<1> HIDE DEF CA
<1>15. Cardinality(CA) <= Cardinality(C) + Cardinality(A)
  BY <1>9 DEF CA
<1> QED BY <1>3, <1>4, <1>7, <1>15, <1>11, <1>12, <1>13, <1>14 DEF SharesAssumption

\* Who refers to something new.
Refers(x) ==
  /\ \A h \in Hashes : cache'[h] \in x
  /\ \A r \in Reqs : at'[r].obj \in x
  /\ mover'.obj \in x
  /\ flush' # Nil => \A e \in flush' : e[2] \in x

LEMMA InUseNext ==
  ASSUME NEW x, Refers(x)
  PROVE  InUse' \subseteq x
BY DEF InUse, Refs, Refers

LEMMA InUseNow ==
  /\ \A h \in Hashes : cache[h] \in InUse
  /\ \A r \in Reqs : at[r].obj \in InUse
  /\ mover.obj \in InUse
  /\ flush # Nil => \A e \in flush : e[2] \in InUse
BY DEF InUse, Refs

\* What is collected: only what nobody refers to.
LEMMA Collected ==
  ASSUME SharesAssumption, Mem, NEW hp \in [Objs -> Links \cup {Nil}], Memory(hp),
         \A o \in Objs : heap[o] \in Links => hp[o] \in Links,
         Refers(InUse \cup {Nil})
  PROVE  Mem'
<1>1. InUse' \subseteq InUse \cup {Nil}
  <2> HIDE DEF InUse
  <2> QED BY InUseNext
<1>2. heap' = [o \in Objs |-> IF o \in InUse' THEN hp[o] ELSE Nil]
  BY DEF Memory, InUse
<1>3. Nil \notin Links
  BY DEF SharesAssumption
<1> QED BY <1>1, <1>2, <1>3 DEF Mem

\* Without a change to memory, the same objects are referred to.
LEMMA Untouched ==
  ASSUME Mem, heap' = heap, InUse' \subseteq InUse \cup {Nil}, InUse \subseteq InUse' \cup {Nil}, Nil \notin Objs
  PROVE  Mem'
BY DEF Mem

\* An object of its own.
LEMMA Allocated ==
  ASSUME SharesAssumption, TInv, NEW l \in Links, heap' = [heap EXCEPT ![NewObj] = l],
         Refers(InUse \cup {Nil, NewObj}), InUse \subseteq InUse' \cup {Nil}, NewObj \in InUse'
  PROVE  Mem'
<1>1. NewObj \in Objs /\ heap[NewObj] = Nil
  BY Room
<1>2. InUse' \subseteq InUse \cup {Nil, NewObj}
  <2> HIDE DEF InUse
  <2> QED BY InUseNext
<1>3. Nil \notin Links /\ Nil \notin Objs
  BY DEF SharesAssumption
<1> HIDE DEF InUse
<1> QED BY <1>1, <1>2, <1>3 DEF TInv, Mem

\* Nobody refers to an object before it is made.
LEMMA Fresh ==
  ASSUME SharesAssumption, TInv
  PROVE  NewObj \notin InUse
<1>1. NewObj \in Objs /\ heap[NewObj] = Nil
  BY Room
<1>2. Nil \notin Links /\ Nil \notin Objs
  BY DEF SharesAssumption
<1> QED BY <1>1, <1>2 DEF TInv, Mem

\* The excuses add up.
LEMMA Noted ==
  ASSUME excuse \in [Hashes -> SUBSET Excuses], NEW add, \A h \in Hashes : add[h] \subseteq Excuses, Note(add)
  PROVE  /\ excuse' \in [Hashes -> SUBSET Excuses]
         /\ \A h \in Hashes : /\ excuse[h] \subseteq excuse'[h]
                              /\ add[h] \subseteq excuse'[h]
                              /\ Overlaps(h, at', flush', mover') \subseteq excuse'[h]
                              /\ excuse'[h] \subseteq excuse[h] \cup add[h] \cup Overlaps(h, at', flush', mover')
<1>1. \A h \in Hashes : Overlaps(h, at', flush', mover') \subseteq Excuses
  BY DEF Overlaps, Excuses
<1> QED BY <1>1 DEF Note

LEMMA Adds ==
  /\ \A h \in Hashes : Nothing[h] = {}
  /\ \A g \in Hashes : \A x : x \in Excuses => Only(g, x) \in [Hashes -> SUBSET Excuses] /\ x \in Only(g, x)[g]
BY DEF Nothing, Only
-------------------------------------------------------------------------------
(* Steps of a request                                                          *)

\* Request r becomes q.
Turns(r, q) == at' = [at EXCEPT ![r] = q]

LEMMA RequestsNext ==
  ASSUME Requests, NEW r \in Reqs, NEW q \in ReqRecs, Turns(r, q), born \subseteq born', ReqOK(q)'
  PROVE  Requests'
BY DEF Requests, ReqOK, Turns

LEMMA Changed ==
  ASSUME Requests, NEW r \in Reqs, NEW p, NEW o, NEW a
  PROVE  /\ at' = [at EXCEPT ![r].pc = p, ![r].obj = o] => Turns(r, [pc |-> p, h |-> Hash(r), obj |-> o, arg |-> at[r].arg])
         /\ at' = [at EXCEPT ![r].pc = p, ![r].arg = a] => Turns(r, [pc |-> p, h |-> Hash(r), obj |-> at[r].obj, arg |-> a])
<1>1. at \in [Reqs -> ReqRecs] /\ at[r] \in ReqRecs
  BY DEF Requests
<1>2. PICK q : q = [pc |-> p, h |-> Hash(r), obj |-> at[r].obj, arg |-> at[r].arg]
  OBVIOUS
<1>3. [at EXCEPT ![r].pc = p] = [at EXCEPT ![r] = q]
  <2>1. [at[r] EXCEPT !.pc = p] = q
    BY <1>1, <1>2 DEF ReqRecs, Hash
  <2>2. [at EXCEPT ![r].pc = p] = [at EXCEPT ![r] = [at[r] EXCEPT !.pc = p]]
    BY <1>1
  <2> QED BY <2>1, <2>2
<1>4. /\ [at EXCEPT ![r].pc = p, ![r].obj = o] = [[at EXCEPT ![r].pc = p] EXCEPT ![r].obj = o]
      /\ [at EXCEPT ![r].pc = p, ![r].arg = a] = [[at EXCEPT ![r].pc = p] EXCEPT ![r].arg = a]
  OBVIOUS
<1>5. /\ [[at EXCEPT ![r] = q] EXCEPT ![r].obj = o] = [at EXCEPT ![r] = [q EXCEPT !.obj = o]]
      /\ [[at EXCEPT ![r] = q] EXCEPT ![r].arg = a] = [at EXCEPT ![r] = [q EXCEPT !.arg = a]]
  BY <1>1
<1>6. /\ [q EXCEPT !.obj = o] = [pc |-> p, h |-> Hash(r), obj |-> o, arg |-> at[r].arg]
      /\ [q EXCEPT !.arg = a] = [pc |-> p, h |-> Hash(r), obj |-> at[r].obj, arg |-> a]
  BY <1>2
<1> QED BY <1>3, <1>4, <1>5, <1>6 DEF Turns

LEMMA TurnsTo ==
  ASSUME Requests, NEW r \in Reqs
  PROVE  /\ at[r] \in ReqRecs /\ ReqOK(at[r])
         /\ \A q : Turns(r, q) => at'[r] = q /\ \A s \in Reqs : s # r => at'[s] = at[s]
         /\ \A p : Goto(r, p) => Turns(r, [pc |-> p, h |-> Hash(r), obj |-> at[r].obj, arg |-> at[r].arg])
         /\ Reply(r) => Turns(r, IdleReq)
BY DEF Requests, ReqRecs, Goto, Reply, Turns, Hash

LEMMA TurnRefers ==
  ASSUME Requests, NEW r \in Reqs, NEW q, Turns(r, q), NEW x, InUse \subseteq x, q.obj \in x,
         \A h \in Hashes : cache'[h] \in x, UNCHANGED <<flush, mover>>
  PROVE  Refers(x)
<1>1. /\ \A s \in Reqs : at[s].obj \in x
      /\ mover.obj \in x
      /\ flush # Nil => \A e \in flush : e[2] \in x
  BY InUseNow
<1>2. \A s \in Reqs : at'[s].obj \in x
  BY <1>1, TurnsTo
<1> QED BY <1>1, <1>2 DEF Refers

LEMMA StillUsed ==
  ASSUME Requests, NEW r \in Reqs, NEW q, Turns(r, q), q.obj = at[r].obj \/ at[r].obj = Nil,
         UNCHANGED <<cache, flush, mover>>
  PROVE  InUse \subseteq InUse' \cup {Nil}
BY TurnsTo DEF InUse, Refs

LEMMA SameUse ==
  ASSUME Requests, NEW r \in Reqs, NEW q, Turns(r, q), q.obj \in {at[r].obj, Nil}, at[r].obj \in {q.obj, Nil},
         UNCHANGED <<cache, flush, mover>>
  PROVE  InUse' \subseteq InUse \cup {Nil} /\ InUse \subseteq InUse' \cup {Nil}
BY TurnsTo DEF InUse, Refs

\* A request that leaves everything else as it is, or collects.
LEMMA RestSame ==
  ASSUME TInv, UNCHANGED <<bolt, cache, now, born, files, served, gone, target>>,
         NEW add, \A h \in Hashes : add[h] \subseteq Excuses, Note(add)
  PROVE  Basic'
BY Noted DEF TInv, Basic

LEMMA OthersSame ==
  ASSUME TInv, UNCHANGED <<flush, mover>>, born \subseteq born'
  PROVE  Moving' /\ Saving'
BY DEF TInv, Moving, MoverOK, Saving

LEMMA Own == ASSUME SharesAssumption, TInv, NEW r \in Reqs, at[r].pc \in Holders
             PROVE  at[r].obj \in Objs /\ Obj(r) \in Links /\ at[r].obj \in InUse /\ Hash(r) \in born /\ Hash(r) \in Hashes
<1>1. at[r].obj # Nil /\ at[r].obj \in InUse /\ Hash(r) \in born
  BY DEF TInv, Requests, ReqOK, Holders, InUse, Refs, Hash
<1>2. born \subseteq Hashes
  BY DEF TInv, Basic
<1> QED BY <1>1, <1>2 DEF TInv, Mem, Obj

LEMMA Its == ASSUME SharesAssumption, TInv, NEW r \in Reqs, at[r].pc # "idle"
             PROVE  /\ Hash(r) \in born /\ Hash(r) \in Hashes /\ Hash(r) # Nil
                    /\ cache[Hash(r)] # Nil => cache[Hash(r)] \in Objs /\ heap[cache[Hash(r)]] \in Links
                    /\ cache[Hash(r)] \in InUse
<1>1. Hash(r) \in born /\ born \subseteq Hashes
  BY DEF TInv, Requests, ReqOK, Hash, Basic
<1>2. cache[Hash(r)] \in InUse
  BY <1>1 DEF InUse, Refs
<1> QED BY <1>1, <1>2 DEF TInv, Mem, SharesAssumption

LEMMA OpenT ==
  ASSUME SharesAssumption, TInv, NEW r \in Reqs, NEW h \in Hashes, Open(r, h)
  PROVE  TInv'
<1> PICK place \in {"get", "list"} : at' = [at EXCEPT ![r] = [IdleReq EXCEPT !.pc = place, !.h = h]]
  BY DEF Open
<1> PICK q : q = [pc |-> place, h |-> h, obj |-> Nil, arg |-> Nil]
  OBVIOUS
<1>1. Turns(r, q)
  <2>1. [IdleReq EXCEPT !.pc = place, !.h = h] = q
    <3>1. [IdleReq EXCEPT !.pc = place] = [pc |-> place, h |-> Nil, obj |-> Nil, arg |-> Nil]
      BY DEF IdleReq
    <3>2. [[pc |-> place, h |-> Nil, obj |-> Nil, arg |-> Nil] EXCEPT !.h = h] = q
      OBVIOUS
    <3> QED BY <3>1, <3>2
  <2> QED BY <2>1 DEF Turns
<1>2. q \in ReqRecs
  BY DEF ReqRecs, Places
<1>3. ReqOK(q)'
  BY DEF ReqOK, Holders, Open
<1>4. Requests'
  BY <1>1, <1>2, <1>3, RequestsNext DEF TInv, Open
<1>5. Basic'
  BY RestSame, Adds DEF Open
<1>6. Moving' /\ Saving'
  BY OthersSame DEF Open
<1>7. at[r].obj = Nil
  BY DEF Open, TInv, Requests, ReqOK, Holders
<1>8. Mem'
  <2>1. InUse' \subseteq InUse \cup {Nil} /\ InUse \subseteq InUse' \cup {Nil}
    BY <1>1, <1>7, SameUse DEF TInv, Open
  <2> QED BY <2>1, Untouched DEF TInv, Open, SharesAssumption
<1> QED BY <1>4, <1>5, <1>6, <1>8 DEF TInv

LEMMA GetCachedT ==
  ASSUME SharesAssumption, TInv, NEW r \in Reqs, GetCached(r)
  PROVE  TInv'
<1> PICK q : q = IF Expired(heap[cache[Hash(r)]]) THEN [pc |-> "purge", h |-> Hash(r), obj |-> Nil, arg |-> at[r].arg]
                 ELSE [pc |-> "got", h |-> Hash(r), obj |-> cache[Hash(r)], arg |-> at[r].arg]
  OBVIOUS
<1>a. at[r].pc = "get" /\ at[r].obj = Nil /\ at[r] \in ReqRecs
  BY DEF GetCached, TInv, Requests, ReqOK, Holders
<1>1. Turns(r, q)
  <2>1. Requests
    BY DEF TInv
  <2>2. CASE Expired(heap[cache[Hash(r)]])
    BY <1>a, <2>1, <2>2, TurnsTo DEF GetCached, Goto
  <2>3. CASE ~Expired(heap[cache[Hash(r)]])
    BY <2>1, <2>3, Changed DEF GetCached
  <2> QED BY <2>2, <2>3
<1>b. Hash(r) \in born /\ Hash(r) \in Hashes /\ cache[Hash(r)] \in Objs /\ cache[Hash(r)] \in InUse
  BY <1>a, Its DEF GetCached
<1>2. q \in ReqRecs
  BY <1>a, <1>b DEF ReqRecs, Places, Hash
<1>3. ReqOK(q)'
  BY <1>b DEF ReqOK, Holders, GetCached, SharesAssumption
<1>4. Requests'
  BY <1>1, <1>2, <1>3, RequestsNext DEF TInv, GetCached
<1>5. Basic'
  BY RestSame, Adds DEF GetCached
<1>6. Moving' /\ Saving'
  BY OthersSame DEF GetCached
<1>8. Mem'
  <2>1. InUse \subseteq InUse' \cup {Nil}
    BY <1>1, <1>a, StillUsed DEF TInv, GetCached
  <2>2. Refers(InUse \cup {Nil})
    <3> PICK x : x = InUse \cup {Nil}
      OBVIOUS
    <3>1. \A h \in Hashes : cache'[h] \in x
      BY InUseNow DEF GetCached
    <3>2. q.obj \in x
      BY <1>b
    <3>3. InUse \subseteq x /\ UNCHANGED <<flush, mover>> /\ Requests
      BY DEF GetCached, TInv
    <3>4. Refers(x)
      BY <1>1, <3>1, <3>2, <3>3, TurnRefers
    <3> QED BY <3>4
  <2>3. InUse' \subseteq InUse \cup {Nil}
    <3> HIDE DEF InUse
    <3> QED BY <2>2, InUseNext
  <2> QED BY <2>1, <2>3, Untouched DEF TInv, GetCached, SharesAssumption
<1> QED BY <1>4, <1>5, <1>6, <1>8 DEF TInv
-------------------------------------------------------------------------------
(* Memory, as a request takes a step                                           *)

\* Nothing in memory changes.
LEMMA TurnMem ==
  ASSUME SharesAssumption, TInv, NEW r \in Reqs, NEW q, Turns(r, q), at[r].obj \in {Nil, q.obj},
         q.obj \in InUse \cup {Nil}, UNCHANGED <<cache, flush, mover, heap>>
  PROVE  Mem'
<1>1. InUse \subseteq InUse' \cup {Nil}
  BY StillUsed DEF TInv
<1>2. Refers(InUse \cup {Nil})
  <2> PICK x : x = InUse \cup {Nil}
    OBVIOUS
  <2>1. \A h \in Hashes : cache'[h] \in x
    BY InUseNow
  <2>2. q.obj \in x /\ InUse \subseteq x /\ Requests
    BY DEF TInv
  <2>3. Refers(x)
    BY <2>1, <2>2, TurnRefers
  <2> QED BY <2>3
<1>3. InUse' \subseteq InUse \cup {Nil}
  <2> HIDE DEF InUse
  <2> QED BY <1>2, InUseNext
<1> QED BY <1>1, <1>3, Untouched DEF TInv, SharesAssumption

\* An object changes, or may be collected.
LEMMA TurnCollects ==
  ASSUME SharesAssumption, TInv, NEW r \in Reqs, NEW q, Turns(r, q), q.obj \in InUse \cup {Nil},
         \A h \in Hashes : cache'[h] \in InUse \cup {Nil}, UNCHANGED <<flush, mover>>,
         NEW hp \in [Objs -> Links \cup {Nil}], \A o \in Objs : heap[o] \in Links => hp[o] \in Links, Memory(hp)
  PROVE  Mem'
<1>2. Refers(InUse \cup {Nil})
  <2> PICK x : x = InUse \cup {Nil}
    OBVIOUS
  <2>2. q.obj \in x /\ InUse \subseteq x /\ Requests
    BY DEF TInv
  <2>3. Refers(x)
    BY <2>2, TurnRefers
  <2> QED BY <2>3
<1> QED BY <1>2, Collected DEF TInv

\* A request makes an object.
LEMMA TurnAllocates ==
  ASSUME SharesAssumption, TInv, NEW r \in Reqs, NEW q, Turns(r, q), q.obj = NewObj, at[r].obj = Nil,
         UNCHANGED <<cache, flush, mover>>, NEW l \in Links, heap' = [heap EXCEPT ![NewObj] = l]
  PROVE  Mem'
<1>1. InUse \subseteq InUse' \cup {Nil}
  BY StillUsed DEF TInv
<1>2. Refers(InUse \cup {Nil, NewObj})
  <2> PICK x : x = InUse \cup {Nil, NewObj}
    OBVIOUS
  <2>1. \A h \in Hashes : cache'[h] \in x
    BY InUseNow
  <2>2. q.obj \in x /\ InUse \subseteq x /\ Requests
    BY DEF TInv
  <2>3. Refers(x)
    BY <2>1, <2>2, TurnRefers
  <2> QED BY <2>3
<1>3. NewObj \in InUse'
  <2>1. at'[r].obj = NewObj
    BY TurnsTo DEF TInv
  <2> QED BY <2>1 DEF InUse, Refs
<1> QED BY <1>1, <1>2, <1>3, Allocated

\* Nothing but the request and memory.
LEMMA TurnT ==
  ASSUME SharesAssumption, TInv, NEW r \in Reqs, NEW q \in ReqRecs, Turns(r, q), ReqOK(q),
         UNCHANGED <<born, flush, mover>>, Basic', Mem'
  PROVE  TInv'
<1>1. ReqOK(q)'
  BY DEF ReqOK
<1>2. Requests'
  BY <1>1, RequestsNext DEF TInv
<1>3. Moving' /\ Saving'
  BY OthersSame
<1> QED BY <1>2, <1>3 DEF TInv

LEMMA IdleOK == IdleReq \in ReqRecs /\ ReqOK(IdleReq) /\ IdleReq.obj = Nil
BY DEF IdleReq, ReqRecs, ReqOK, Places, Holders

-------------------------------------------------------------------------------
(* The requests keep the types                                                 *)

LEMMA GetStoredT ==
  ASSUME SharesAssumption, TInv, NEW r \in Reqs, GetStored(r)
  PROVE  TInv'
<1>a. at[r].pc = "get" /\ at[r].obj = Nil /\ at[r] \in ReqRecs /\ Requests
  BY DEF GetStored, TInv, Requests, ReqOK, Holders
<1>b. Hash(r) \in born /\ Hash(r) \in Hashes
  BY <1>a, Its
<1>c. Basic' /\ UNCHANGED <<born, flush, mover, cache>>
  BY RestSame, Adds DEF GetStored
<1>d. Nil \in InUse \cup {Nil}
  OBVIOUS
<1>1. CASE Reply(r) /\ UNCHANGED heap
  <2>1. Turns(r, IdleReq)
    BY <1>a, <1>1, TurnsTo
  <2>2. Mem'
    BY <1>a, <1>1, <1>c, <2>1, IdleOK, TurnMem
  <2> QED BY <1>c, <2>1, <2>2, IdleOK, TurnT
<1>2. CASE Goto(r, "purgebolt") /\ UNCHANGED heap
  <2> PICK q : q = [pc |-> "purgebolt", h |-> Hash(r), obj |-> at[r].obj, arg |-> at[r].arg]
    OBVIOUS
  <2>1. Turns(r, q)
    BY <1>a, <1>2, TurnsTo
  <2>2. q \in ReqRecs /\ ReqOK(q)
    BY <1>a, <1>b DEF ReqRecs, Places, ReqOK, Holders
  <2>3. Mem'
    BY <1>a, <1>2, <1>c, <2>1, TurnMem
  <2> QED BY <1>c, <2>1, <2>2, <2>3, TurnT
<1>3. CASE /\ bolt[Hash(r)] # Nil
           /\ at' = [at EXCEPT ![r].pc = "fill", ![r].obj = NewObj]
           /\ heap' = [heap EXCEPT ![NewObj] = bolt[Hash(r)]]
  <2> PICK q : q = [pc |-> "fill", h |-> Hash(r), obj |-> NewObj, arg |-> at[r].arg]
    OBVIOUS
  <2>1. Turns(r, q)
    BY <1>a, <1>3, Changed
  <2>2. q \in ReqRecs /\ ReqOK(q)
    BY <1>a, <1>b, Room DEF ReqRecs, Places, ReqOK, Holders, SharesAssumption
  <2>3. bolt[Hash(r)] \in Links
    BY <1>3, <1>b DEF TInv, Basic
  <2>4. Mem'
    BY <1>a, <1>3, <1>c, <2>1, <2>3, TurnAllocates
  <2> QED BY <1>c, <2>1, <2>2, <2>4, TurnT
<1> QED BY <1>1, <1>2, <1>3 DEF GetStored

LEMMA FillT ==
  ASSUME SharesAssumption, TInv, NEW r \in Reqs, Fill(r)
  PROVE  TInv'
<1>a. at[r].pc = "fill" /\ at[r] \in ReqRecs /\ Requests
  BY DEF Fill, TInv, Requests
<1>b. Hash(r) \in born /\ Hash(r) \in Hashes /\ at[r].obj \in Objs /\ at[r].obj \in InUse
  BY <1>a, Own DEF Holders
<1> PICK q : q = [pc |-> "got", h |-> Hash(r), obj |-> at[r].obj, arg |-> at[r].arg]
  OBVIOUS
<1>1. Turns(r, q)
  BY <1>a, TurnsTo DEF Fill
<1>2. q \in ReqRecs /\ ReqOK(q)
  BY <1>a, <1>b DEF ReqRecs, Places, ReqOK, Holders, SharesAssumption
<1>3. \A h \in Hashes : Doubled(r)[h] \subseteq Excuses
  BY <1>b, Adds DEF Doubled, Excuses
<1>4. Basic'
  BY <1>b, <1>3, Noted DEF Fill, TInv, Basic
<1>5. Mem'
  <2>1. \A h \in Hashes : cache'[h] \in InUse \cup {Nil}
    BY <1>b, InUseNow DEF Fill, TInv, Basic
  <2> QED BY <1>1, <1>b, <2>1, TurnCollects DEF TInv, Mem, Fill
<1> QED BY <1>1, <1>2, <1>4, <1>5, TurnT DEF Fill

LEMMA PurgeT ==
  ASSUME SharesAssumption, TInv, NEW r \in Reqs, Purge(r)
  PROVE  TInv'
<1>a. at[r].pc \in {"purge", "purgebolt"} /\ at[r].obj = Nil /\ at[r] \in ReqRecs /\ Requests
  BY DEF Purge, TInv, Requests, ReqOK, Holders
<1>b. Hash(r) \in born /\ Hash(r) \in Hashes
  BY <1>a, Its
<1> PICK q : q = IF at[r].pc = "purge" THEN [pc |-> "drop", h |-> Hash(r), obj |-> at[r].obj, arg |-> at[r].arg]
                 ELSE IdleReq
  OBVIOUS
<1>1. Turns(r, q)
  BY <1>a, TurnsTo DEF Purge
<1>2. q \in ReqRecs /\ ReqOK(q) /\ q.obj = Nil
  BY <1>a, <1>b, IdleOK DEF ReqRecs, Places, ReqOK, Holders
<1>3. \A h \in Hashes : (IF at[r].pc = "purgebolt" /\ cache[Hash(r)] # Nil THEN Only(Hash(r), "left") ELSE Nothing)[h] \subseteq Excuses
  BY <1>b, Adds DEF Excuses
<1>4. Basic'
  BY <1>b, <1>3, Noted DEF Purge, TInv, Basic
<1>5. Mem'
  <2>1. \A h \in Hashes : cache'[h] \in InUse \cup {Nil}
    BY InUseNow DEF Purge
  <2> QED BY <1>1, <1>2, <2>1, TurnCollects DEF TInv, Mem, Purge
<1> QED BY <1>1, <1>2, <1>4, <1>5, TurnT DEF Purge

LEMMA LeaveT ==
  ASSUME SharesAssumption, TInv, NEW r \in Reqs, Leave(r)
  PROVE  TInv'
<1>1. Turns(r, IdleReq)
  BY TurnsTo DEF Leave, TInv
<1>4. Basic'
  BY RestSame, Adds DEF Leave
<1>5. Mem'
  <2>1. \A h \in Hashes : cache'[h] \in InUse \cup {Nil}
    BY InUseNow DEF Leave
  <2> QED BY <1>1, <2>1, IdleOK, TurnCollects DEF TInv, Mem, Leave
<1> QED BY <1>1, <1>4, <1>5, IdleOK, TurnT DEF Leave
LEMMA ListReadT ==
  ASSUME SharesAssumption, TInv, NEW r \in Reqs, NEW gets, ListRead(r, gets)
  PROVE  TInv'
<1>a. at[r].pc = "list" /\ at[r].obj = Nil /\ at[r] \in ReqRecs /\ Requests
  BY DEF ListRead, TInv, Requests, ReqOK, Holders
<1>b. Hash(r) \in born /\ Hash(r) \in Hashes
  BY <1>a, Its
<1>c. Basic' /\ UNCHANGED <<born, flush, mover, cache>>
  BY RestSame, Adds DEF ListRead
<1>1. CASE Reply(r) /\ UNCHANGED heap
  <2>1. Turns(r, IdleReq)
    BY <1>a, <1>1, TurnsTo
  <2>2. Mem'
    BY <1>a, <1>1, <1>c, <2>1, IdleOK, TurnMem
  <2> QED BY <1>c, <2>1, <2>2, IdleOK, TurnT
<1>2. ASSUME NEW p \in {"purgebolt", "purge"}, Goto(r, p), UNCHANGED heap
      PROVE  TInv'
  <2> PICK q : q = [pc |-> p, h |-> Hash(r), obj |-> at[r].obj, arg |-> at[r].arg]
    OBVIOUS
  <2>1. Turns(r, q)
    BY <1>a, <1>2, TurnsTo
  <2>2. q \in ReqRecs /\ ReqOK(q)
    BY <1>a, <1>b DEF ReqRecs, Places, ReqOK, Holders
  <2>3. Mem'
    BY <1>a, <1>2, <1>c, <2>1, TurnMem
  <2> QED BY <1>c, <2>1, <2>2, <2>3, TurnT
<1>3. CASE /\ bolt[Hash(r)] # Nil
           /\ at' = [at EXCEPT ![r].pc = "listfill", ![r].obj = NewObj]
           /\ heap' = [heap EXCEPT ![NewObj] = bolt[Hash(r)]]
  <2> PICK q : q = [pc |-> "listfill", h |-> Hash(r), obj |-> NewObj, arg |-> at[r].arg]
    OBVIOUS
  <2>1. Turns(r, q)
    BY <1>a, <1>3, Changed
  <2>2. q \in ReqRecs /\ ReqOK(q)
    BY <1>a, <1>b, Room DEF ReqRecs, Places, ReqOK, Holders, SharesAssumption
  <2>3. bolt[Hash(r)] \in Links
    BY <1>3, <1>b DEF TInv, Basic
  <2>4. Mem'
    BY <1>a, <1>3, <1>c, <2>1, <2>3, TurnAllocates
  <2> QED BY <1>c, <2>1, <2>2, <2>4, TurnT
<1> QED BY <1>1, <1>2, <1>3 DEF ListRead

LEMMA ListFillT ==
  ASSUME SharesAssumption, TInv, NEW r \in Reqs, ListFill(r)
  PROVE  TInv'
<1>a. at[r].pc = "listfill" /\ at[r] \in ReqRecs /\ Requests
  BY DEF ListFill, TInv, Requests
<1>b. Hash(r) \in born /\ Hash(r) \in Hashes /\ at[r].obj \in Objs /\ at[r].obj \in InUse
  BY <1>a, Own DEF Holders
<1>1. PICK q : q \in ReqRecs /\ ReqOK(q) /\ q.obj = Nil /\ Turns(r, q)
  <2>1. CASE Reply(r)
    BY <1>a, <2>1, TurnsTo, IdleOK
  <2>2. CASE at' = [at EXCEPT ![r].pc = "orphan", ![r].obj = Nil]
    <3> PICK q : q = [pc |-> "orphan", h |-> Hash(r), obj |-> Nil, arg |-> at[r].arg]
      OBVIOUS
    <3>1. Turns(r, q)
      BY <1>a, <2>2, Changed
    <3>2. q \in ReqRecs /\ ReqOK(q)
      BY <1>a, <1>b DEF ReqRecs, Places, ReqOK, Holders
    <3> QED BY <3>1, <3>2
  <2> QED BY <2>1, <2>2 DEF ListFill
<1>2. cache' \in [Hashes -> Objs \cup {Nil}] /\ \A h \in Hashes : cache'[h] # Nil => h \in born
  BY <1>b DEF ListFill, TInv, Basic
<1>4. Basic'
  BY <1>2, Adds, Noted DEF ListFill, TInv, Basic
<1>5. Mem'
  <2>1. \A h \in Hashes : cache'[h] \in InUse \cup {Nil}
    BY <1>b, InUseNow DEF ListFill, TInv, Basic
  <2> QED BY <1>1, <2>1, TurnCollects DEF TInv, Mem, ListFill
<1> QED BY <1>1, <1>4, <1>5, TurnT DEF ListFill

LEMMA CheckT ==
  ASSUME SharesAssumption, TInv, NEW r \in Reqs, NEW c \in Callers, Check(r, c)
  PROVE  TInv'
<1>a. at[r].pc = "got" /\ at[r] \in ReqRecs /\ Requests
  BY DEF Check, TInv, Requests
<1>b. Hash(r) \in born /\ Hash(r) \in Hashes /\ at[r].obj \in Objs /\ at[r].obj \in InUse
  BY <1>a, Own DEF Holders
<1> PICK p \in {"count", "countview"} : at' = [at EXCEPT ![r].pc = p, ![r].arg = c]
  BY DEF Check
<1> PICK q : q = [pc |-> p, h |-> Hash(r), obj |-> at[r].obj, arg |-> c]
  OBVIOUS
<1>1. Turns(r, q)
  BY <1>a, Changed
<1>2. q \in ReqRecs /\ ReqOK(q)
  BY <1>a, <1>b DEF ReqRecs, Places, ReqOK, Holders, SharesAssumption
<1>4. Basic'
  BY RestSame, Adds DEF Check
<1>5. Mem'
  BY <1>1, <1>b, TurnMem DEF Check
<1> QED BY <1>1, <1>2, <1>4, <1>5, TurnT DEF Check

\* One more download.
LEMMA Credits ==
  ASSUME NEW l \in Links, NEW c \in Users
  PROVE  Credit(l, c) \in Links /\ \A k \in CountRecs : Credit(k, c) \in CountRecs
BY DEF Credit, Links, CountRecs

LEMMA Ones ==
  /\ \A l \in Links : [l EXCEPT !.n = @ + 1] \in Links
  /\ \A k \in CountRecs : [k EXCEPT !.n = @ + 1] \in CountRecs
BY DEF Links, CountRecs

LEMMA Lates ==
  ASSUME NEW h \in Hashes
  PROVE  \A g \in Hashes : Late(h)[g] \subseteq Excuses
BY Adds DEF Late, Excuses

LEMMA CountT ==
  ASSUME SharesAssumption, TInv, NEW r \in Reqs, Count(r)
  PROVE  TInv'
<1> DEFINE c == at[r].arg
           per == PerUser(Obj(r), c)
           one(k) == [k EXCEPT !.n = @ + 1]
           both(k) == IF per THEN Credit(one(k), c) ELSE one(k)
           view == at[r].pc = "countview"
<1>a. at[r].pc \in {"count", "countview"} /\ at[r] \in ReqRecs /\ Requests /\ c \in Callers
  BY DEF Count, TInv, Requests, ReqOK
<1>b. Hash(r) \in born /\ Hash(r) \in Hashes /\ at[r].obj \in Objs /\ at[r].obj \in InUse /\ Obj(r) \in Links
  BY <1>a, Own DEF Holders
<1>c. per => c \in Users
  BY <1>a DEF PerUser, Callers
<1>d. /\ \A k \in Links : one(k) \in Links /\ both(k) \in Links
      /\ \A k \in CountRecs : both(k) \in CountRecs
  <2> HIDE DEF per, c
  <2>1. \A k \in Links : one(k) \in Links
    BY Ones
  <2>2. \A k \in CountRecs : one(k) \in CountRecs
    BY Ones
  <2> HIDE DEF one
  <2>3. \A k \in Links : both(k) \in Links
    BY <2>1, <1>c, Credits
  <2>4. \A k \in CountRecs : both(k) \in CountRecs
    BY <2>2, <1>b, <1>c, Credits
  <2> QED BY <2>1, <2>3, <2>4
<1>e. /\ IF view \/ ~per THEN Reply(r) ELSE Goto(r, "countuser")
      /\ served' = [served EXCEPT ![Hash(r)] = both(@)]
      /\ UNCHANGED <<bolt, cache, now, flush, mover, born, files, gone, target>>
      /\ Memory([heap EXCEPT ![at[r].obj] = IF view THEN both(@) ELSE one(@)])
      /\ Note(Late(Hash(r)))
  BY DEF Count
<1> HIDE DEF one, both, per
<1>1. PICK q : q \in ReqRecs /\ ReqOK(q) /\ q.obj \in {Nil, at[r].obj} /\ Turns(r, q)
  <2>1. CASE view \/ ~per
    BY <1>a, <1>e, <2>1, TurnsTo, IdleOK
  <2>2. CASE ~(view \/ ~per)
    <3> PICK q : q = [pc |-> "countuser", h |-> Hash(r), obj |-> at[r].obj, arg |-> at[r].arg]
      OBVIOUS
    <3>1. Turns(r, q)
      BY <1>a, <1>e, <2>2, TurnsTo
    <3>2. q \in ReqRecs /\ ReqOK(q)
      BY <1>a, <1>b, <1>c, <2>2 DEF ReqRecs, Places, ReqOK, Holders, SharesAssumption
    <3> QED BY <3>1, <3>2
  <2> QED BY <2>1, <2>2
<1>4. Basic'
  <2>1. served' \in [Hashes -> CountRecs]
    BY <1>b, <1>d, <1>e DEF TInv, Basic
  <2>2. excuse' \in [Hashes -> SUBSET Excuses]
    BY <1>b, <1>e, Lates, Noted DEF TInv, Basic
  <2> QED BY <1>e, <2>1, <2>2 DEF TInv, Basic
<1>5. Mem'
  <2> PICK hp : hp = [heap EXCEPT ![at[r].obj] = IF view THEN both(@) ELSE one(@)]
    OBVIOUS
  <2>1. hp \in [Objs -> Links \cup {Nil}] /\ \A o \in Objs : heap[o] \in Links => hp[o] \in Links
    BY <1>b, <1>d DEF TInv, Mem, Obj
  <2>2. \A h \in Hashes : cache'[h] \in InUse \cup {Nil}
    BY <1>e, InUseNow
  <2> QED BY <1>1, <1>b, <1>e, <2>1, <2>2, TurnCollects
<1> QED BY <1>1, <1>4, <1>5, <1>e, TurnT

LEMMA CountUserT ==
  ASSUME SharesAssumption, TInv, NEW r \in Reqs, CountUser(r)
  PROVE  TInv'
<1>a. at[r].pc = "countuser" /\ at[r] \in ReqRecs /\ Requests /\ at[r].arg \in Users
  BY DEF CountUser, TInv, Requests, ReqOK
<1>b. Hash(r) \in born /\ Hash(r) \in Hashes /\ at[r].obj \in Objs /\ Obj(r) \in Links
  BY <1>a, Own DEF Holders
<1>1. Turns(r, IdleReq)
  BY <1>a, TurnsTo DEF CountUser
<1>4. Basic'
  BY RestSame, <1>b, Lates DEF CountUser
<1>5. Mem'
  <2> PICK hp : hp = [heap EXCEPT ![at[r].obj] = Credit(@, at[r].arg)]
    OBVIOUS
  <2>1. hp \in [Objs -> Links \cup {Nil}] /\ \A o \in Objs : heap[o] \in Links => hp[o] \in Links
    BY <1>a, <1>b, Credits DEF TInv, Mem, Obj
  <2>2. \A h \in Hashes : cache'[h] \in InUse \cup {Nil}
    BY InUseNow DEF CountUser
  <2> QED BY <1>1, <2>1, <2>2, TurnCollects, IdleOK DEF CountUser
<1> QED BY <1>1, <1>4, <1>5, IdleOK, TurnT DEF CountUser
LEMMA UnboltT ==
  ASSUME SharesAssumption, TInv, NEW r \in Reqs, Unbolt(r)
  PROVE  TInv'
<1>a. at[r].pc \in {"got", "orphan"} /\ at[r] \in ReqRecs /\ Requests
  BY DEF Unbolt, TInv, Requests
<1>b. Hash(r) \in born /\ Hash(r) \in Hashes
  BY <1>a, Its
<1> PICK q : q = [pc |-> IF at[r].pc = "got" THEN "uncache" ELSE "drop", h |-> Hash(r), obj |-> Nil, arg |-> at[r].arg]
  OBVIOUS
<1>1. Turns(r, q)
  <2> PICK p : p = IF at[r].pc = "got" THEN "uncache" ELSE "drop"
    OBVIOUS
  <2>1. at' = [at EXCEPT ![r].pc = p, ![r].obj = Nil]
    BY DEF Unbolt
  <2> QED BY <1>a, <2>1, Changed
<1>2. q \in ReqRecs /\ ReqOK(q)
  BY <1>a, <1>b DEF ReqRecs, Places, ReqOK, Holders
<1>4. Basic'
  BY <1>b, Noted, Adds DEF Unbolt, TInv, Basic
<1>5. Mem'
  <2>1. \A h \in Hashes : cache'[h] \in InUse \cup {Nil}
    BY InUseNow DEF Unbolt
  <2> QED BY <1>1, <2>1, TurnCollects DEF TInv, Mem, Unbolt
<1> QED BY <1>1, <1>2, <1>4, <1>5, TurnT DEF Unbolt

LEMMA UncacheT ==
  ASSUME SharesAssumption, TInv, NEW r \in Reqs, Uncache(r)
  PROVE  TInv'
<1>a. at[r].pc \in {"uncache", "drop"} /\ at[r] \in ReqRecs /\ Requests
  BY DEF Uncache, TInv, Requests
<1>b. Hash(r) \in born /\ Hash(r) \in Hashes
  BY <1>a, Its
<1>1. Turns(r, IdleReq)
  BY <1>a, TurnsTo DEF Uncache
<1>4. Basic'
  BY <1>b, Noted, Adds DEF Uncache, TInv, Basic
<1>5. Mem'
  <2>1. \A h \in Hashes : cache'[h] \in InUse \cup {Nil}
    BY <1>b, InUseNow DEF Uncache, TInv, Basic
  <2> QED BY <1>1, <2>1, IdleOK, TurnCollects DEF TInv, Mem, Uncache
<1> QED BY <1>1, <1>4, <1>5, IdleOK, TurnT DEF Uncache

\* When a link expires.
LEMMA Expiries == ASSUME SharesAssumption, TInv, NEW t PROVE Expiry(t) \in 0 .. MaxNow
BY DEF Expiry, SharesAssumption, TInv, Basic

LEMMA CreateT ==
  ASSUME SharesAssumption, TInv, NEW r \in Reqs, NEW h \in Hashes, NEW p \in Paths, Create(r, h, p)
  PROVE  TInv'
<1> PICK q : q = [pc |-> "save", h |-> h, obj |-> NewObj, arg |-> Nil]
  OBVIOUS
<1>a. at[r].pc = "idle" /\ at[r].obj = Nil /\ Requests
  BY DEF Create, TInv, Requests, ReqOK, Holders
<1>1. Turns(r, q)
  <2>1. [IdleReq EXCEPT !.pc = "save", !.h = h, !.obj = NewObj] = q
    <3>1. [IdleReq EXCEPT !.pc = "save"] = [pc |-> "save", h |-> Nil, obj |-> Nil, arg |-> Nil]
      BY DEF IdleReq
    <3>2. [[pc |-> "save", h |-> Nil, obj |-> Nil, arg |-> Nil] EXCEPT !.h = h] = [pc |-> "save", h |-> h, obj |-> Nil, arg |-> Nil]
      OBVIOUS
    <3>3. [[pc |-> "save", h |-> h, obj |-> Nil, arg |-> Nil] EXCEPT !.obj = NewObj] = q
      OBVIOUS
    <3> QED BY <3>1, <3>2, <3>3
  <2> QED BY <2>1 DEF Turns, Create
<1>2. q \in ReqRecs /\ ReqOK(q)'
  BY Room DEF ReqRecs, Places, ReqOK, Holders, SharesAssumption, Create
<1>3. Requests'
  BY <1>a, <1>1, <1>2, RequestsNext DEF Create
<1>4. Basic'
  <2>1. p # Nil /\ Nil \notin Paths
    BY DEF SharesAssumption
  <2> QED BY <2>1, Noted, Adds DEF Create, TInv, Basic
<1>5. Moving' /\ Saving'
  BY OthersSame DEF Create
<1>6. Mem'
  <2> PICK t \in Terms :
       heap' = [heap EXCEPT ![NewObj] =
                  [path |-> p, limit |-> t.limit, perUser |-> t.perUser, keep |-> t.keep,
                   expire |-> Expiry(t), n |-> 0, by |-> Zero.by]]
    BY DEF Create
  <2> PICK l : l = [path |-> p, limit |-> t.limit, perUser |-> t.perUser, keep |-> t.keep,
                   expire |-> Expiry(t), n |-> 0, by |-> Zero.by]
    OBVIOUS
  <2>1. l \in Links
    BY Expiries DEF Links, Zero, SharesAssumption
  <2>2. heap' = [heap EXCEPT ![NewObj] = l]
    OBVIOUS
  <2> QED BY <1>a, <1>1, <2>1, <2>2, TurnAllocates DEF Create
<1> QED BY <1>3, <1>4, <1>5, <1>6 DEF TInv

LEMMA Detachments ==
  ASSUME SharesAssumption, TInv, NEW r \in Reqs, Hash(r) \in Hashes
  PROVE  \A h \in Hashes : Detached(r)[h] \subseteq Excuses /\ Doubled(r)[h] \subseteq Excuses
BY Adds DEF Detached, Doubled, Excuses

LEMMA EditT ==
  ASSUME SharesAssumption, TInv, NEW r \in Reqs, Edit(r)
  PROVE  TInv'
<1>a. at[r].pc = "got" /\ at[r] \in ReqRecs /\ Requests
  BY DEF Edit, TInv, Requests
<1>b. Hash(r) \in born /\ Hash(r) \in Hashes /\ at[r].obj \in Objs /\ at[r].obj \in InUse /\ Obj(r) \in Links
  BY <1>a, Own DEF Holders
<1> PICK q : q = [pc |-> "save", h |-> Hash(r), obj |-> at[r].obj, arg |-> at[r].arg]
  OBVIOUS
<1>1. Turns(r, q)
  BY <1>a, TurnsTo DEF Edit
<1>2. q \in ReqRecs /\ ReqOK(q)
  BY <1>a, <1>b DEF ReqRecs, Places, ReqOK, Holders, SharesAssumption
<1>c. PICK t \in Terms :
       LET l == Obj(r)
           reset == l.limit # t.limit \/ l.perUser # t.perUser
           new == [l EXCEPT !.limit = t.limit, !.perUser = t.perUser, !.keep = t.keep, !.expire = Expiry(t)]
       IN /\ heap' = [heap EXCEPT ![at[r].obj] = IF reset THEN Counted(new, Zero) ELSE new]
          /\ served' = IF reset THEN [served EXCEPT ![Hash(r)] = Zero] ELSE served
  BY DEF Edit
<1>3. Zero \in CountRecs
  BY DEF Zero, CountRecs
<1>4. Basic'
  <2>1. served' \in [Hashes -> CountRecs]
    BY <1>b, <1>c, <1>3 DEF TInv, Basic
  <2> QED BY <1>b, <2>1, Noted, Detachments DEF Edit, TInv, Basic
<1>5. heap' \in [Objs -> Links \cup {Nil}] /\ \A o \in Objs : heap[o] \in Links => heap'[o] \in Links
  <2> PICK new : new = [Obj(r) EXCEPT !.limit = t.limit, !.perUser = t.perUser, !.keep = t.keep, !.expire = Expiry(t)]
    OBVIOUS
  <2>1. new \in Links
    BY <1>b, Expiries DEF Links, SharesAssumption
  <2>2. Counted(new, Zero) \in Links
    BY <2>1, <1>3 DEF Counted, Links, CountRecs
  <2> QED BY <1>b, <1>c, <2>1, <2>2 DEF TInv, Mem, Obj
<1>6. Mem'
  <2>1. at[r].obj \in {q.obj, Nil} /\ q.obj \in {at[r].obj, Nil} /\ UNCHANGED <<cache, flush, mover>>
    BY DEF Edit
  <2>2. InUse' \subseteq InUse \cup {Nil} /\ InUse \subseteq InUse' \cup {Nil}
    BY <1>a, <1>1, <2>1, SameUse
  <2>3. \A o \in Objs : heap'[o] # Nil => heap[o] # Nil
    BY <1>b, <1>c DEF TInv, Mem, Obj, SharesAssumption
  <2>4. Nil \notin Objs
    BY DEF SharesAssumption
  <2> HIDE DEF InUse
  <2> QED BY <1>5, <2>2, <2>3, <2>4 DEF TInv, Mem
<1> QED BY <1>1, <1>2, <1>4, <1>6, TurnT DEF Edit

LEMMA PatchT ==
  ASSUME SharesAssumption, TInv, NEW r \in Reqs, NEW p \in Paths, Patch(r, p)
  PROVE  TInv'
<1>a. at[r].pc = "got" /\ at[r] \in ReqRecs /\ Requests
  BY DEF Patch, TInv, Requests
<1>b. Hash(r) \in born /\ Hash(r) \in Hashes /\ at[r].obj \in Objs /\ at[r].obj \in InUse /\ Obj(r) \in Links
  BY <1>a, Own DEF Holders
<1> PICK q : q = [pc |-> "savepath", h |-> Hash(r), obj |-> at[r].obj, arg |-> p]
  OBVIOUS
<1>1. Turns(r, q)
  BY <1>a, Changed DEF Patch
<1>2. q \in ReqRecs /\ ReqOK(q)
  BY <1>a, <1>b DEF ReqRecs, Places, ReqOK, Holders, SharesAssumption
<1>4. Basic'
  <2>1. p # Nil
    BY DEF SharesAssumption
  <2> QED BY <1>b, <2>1, Noted, Detachments DEF Patch, TInv, Basic
<1>5. heap' \in [Objs -> Links \cup {Nil}] /\ \A o \in Objs : heap[o] \in Links => heap'[o] \in Links
  <2>1. [Obj(r) EXCEPT !.path = p] \in Links
    BY <1>b DEF Links
  <2> QED BY <1>b, <2>1 DEF TInv, Mem, Obj, Patch
<1>6. Mem'
  <2>1. at[r].obj \in {q.obj, Nil} /\ q.obj \in {at[r].obj, Nil} /\ UNCHANGED <<cache, flush, mover>>
    BY DEF Patch
  <2>2. InUse' \subseteq InUse \cup {Nil} /\ InUse \subseteq InUse' \cup {Nil}
    BY <1>a, <1>1, <2>1, SameUse
  <2>3. \A o \in Objs : heap'[o] # Nil => heap[o] # Nil
    BY <1>b DEF TInv, Mem, Obj, SharesAssumption, Patch
  <2>4. Nil \notin Objs
    BY DEF SharesAssumption
  <2> HIDE DEF InUse
  <2> QED BY <1>5, <2>2, <2>3, <2>4 DEF TInv, Mem
<1> QED BY <1>1, <1>2, <1>4, <1>6, TurnT DEF Patch

LEMMA SaveT ==
  ASSUME SharesAssumption, TInv, NEW r \in Reqs, Save(r)
  PROVE  TInv'
<1>a. at[r].pc \in {"save", "savepath"} /\ at[r] \in ReqRecs /\ Requests /\ ReqOK(at[r])
  BY DEF Save, TInv, Requests
<1>b. Hash(r) \in born /\ Hash(r) \in Hashes /\ at[r].obj \in Objs /\ at[r].obj \in InUse /\ Obj(r) \in Links
  BY <1>a, Own DEF Holders
<1> PICK p : p = IF at[r].pc = "save" THEN "recache" ELSE "repath"
  OBVIOUS
<1> PICK q : q = [pc |-> p, h |-> Hash(r), obj |-> at[r].obj, arg |-> at[r].arg]
  OBVIOUS
<1>1. Turns(r, q)
  BY <1>a, TurnsTo DEF Save
<1>2. q \in ReqRecs /\ ReqOK(q)
  BY <1>a, <1>b DEF ReqRecs, Places, ReqOK, Holders, SharesAssumption
<1>4. Basic'
  BY <1>b, Noted, Adds DEF Save, TInv, Basic
<1>5. Mem'
  BY <1>1, <1>b, TurnMem DEF Save
<1> QED BY <1>1, <1>2, <1>4, <1>5, TurnT DEF Save

LEMMA SaveFailsT ==
  ASSUME SharesAssumption, TInv, NEW r \in Reqs, SaveFails(r)
  PROVE  TInv'
<1>a. at[r].pc \in {"save", "savepath"}
  BY DEF SaveFails
<1>b. Hash(r) \in born /\ Hash(r) \in Hashes
  BY <1>a, Its
<1>1. Turns(r, IdleReq)
  BY TurnsTo DEF SaveFails, TInv
<1>3. \A h \in Hashes : Only(Hash(r), "unsaved")[h] \subseteq Excuses
  BY <1>b, Adds DEF Excuses
<1>4. Basic'
  BY <1>3, RestSame DEF SaveFails
<1>5. Mem'
  <2>1. \A h \in Hashes : cache'[h] \in InUse \cup {Nil}
    BY InUseNow DEF SaveFails
  <2> QED BY <1>1, <2>1, IdleOK, TurnCollects DEF TInv, Mem, SaveFails
<1> QED BY <1>1, <1>4, <1>5, IdleOK, TurnT DEF SaveFails

LEMMA RecacheT ==
  ASSUME SharesAssumption, TInv, NEW r \in Reqs, Recache(r)
  PROVE  TInv'
<1>a. at[r].pc = "recache"
  BY DEF Recache
<1>b. Hash(r) \in born /\ Hash(r) \in Hashes /\ at[r].obj \in Objs /\ at[r].obj \in InUse /\ Obj(r) \in Links
  BY <1>a, Own DEF Holders
<1>1. Turns(r, IdleReq)
  BY TurnsTo DEF Recache, TInv
<1>4. Basic'
  BY <1>b, Noted, Detachments DEF Recache, TInv, Basic
<1>5. Mem'
  <2>1. \A h \in Hashes : cache'[h] \in InUse \cup {Nil}
    BY <1>b, InUseNow DEF Recache, TInv, Basic
  <2> QED BY <1>1, <2>1, IdleOK, TurnCollects DEF TInv, Mem, Recache
<1> QED BY <1>1, <1>4, <1>5, IdleOK, TurnT DEF Recache

LEMMA RepathT ==
  ASSUME SharesAssumption, TInv, NEW r \in Reqs, Repath(r)
  PROVE  TInv'
<1>a. at[r].pc = "repath" /\ at[r].arg \in Paths
  BY DEF Repath, TInv, Requests, ReqOK
<1>b. Hash(r) \in born /\ Hash(r) \in Hashes
  BY <1>a, Its
<1>1. Turns(r, IdleReq)
  BY TurnsTo DEF Repath, TInv
<1>4. Basic'
  BY RestSame, Adds DEF Repath
<1>5. Mem'
  <2> PICK hp : hp = IF cache[Hash(r)] = Nil THEN heap ELSE [heap EXCEPT ![cache[Hash(r)]].path = at[r].arg]
    OBVIOUS
  <2>1. hp \in [Objs -> Links \cup {Nil}] /\ \A o \in Objs : heap[o] \in Links => hp[o] \in Links
    <3>1. \A l \in Links : [l EXCEPT !.path = at[r].arg] \in Links
      BY <1>a DEF Links
    <3>2. cache[Hash(r)] # Nil => cache[Hash(r)] \in Objs /\ heap[cache[Hash(r)]] \in Links
      BY <1>a, Its
    <3>3. heap \in [Objs -> Links \cup {Nil}]
      BY DEF TInv, Mem
    <3>4. cache[Hash(r)] # Nil => hp = [heap EXCEPT ![cache[Hash(r)]] = [heap[cache[Hash(r)]] EXCEPT !.path = at[r].arg]]
      BY <3>2, <3>3
    <3> QED BY <3>1, <3>2, <3>3, <3>4
  <2>2. \A h \in Hashes : cache'[h] \in InUse \cup {Nil}
    BY InUseNow DEF Repath
  <2> QED BY <1>1, <2>1, <2>2, IdleOK, TurnCollects DEF Repath
<1> QED BY <1>1, <1>4, <1>5, IdleOK, TurnT DEF Repath
-------------------------------------------------------------------------------
(* The others keep the types                                                   *)

LEMMA RequestsSame == ASSUME Requests, UNCHANGED at, born \subseteq born' PROVE Requests'
BY DEF Requests, ReqOK

LEMMA RenameT ==
  ASSUME SharesAssumption, TInv, NEW m \in Moves, Rename(m[1], m[2])
  PROVE  TInv'
<1>a. m[1] \in Paths /\ m[2] \in Paths /\ m = <<m[1], m[2]>>
  BY DEF SharesAssumption
<1>b. \A p \in Paths : Moved(p, m[1], m[2]) \in Paths
  BY DEF SharesAssumption
<1>c. Nil \notin Paths
  BY DEF SharesAssumption
<1>1. Basic'
  <2> PICK add : add = [h \in Hashes |-> {x \in {"inside"} : target[h] # Nil /\ target[h] # m[1] /\ Within(target[h], m[1])}]
    OBVIOUS
  <2>1. \A h \in Hashes : add[h] \subseteq Excuses
    BY DEF Excuses
  <2>2. excuse' \in [Hashes -> SUBSET Excuses]
    BY <2>1, Noted DEF Rename, TInv, Basic
  <2>3. target' \in [Hashes -> Paths \cup {Nil}] /\ \A h \in Hashes : target'[h] # Nil <=> target[h] # Nil
    BY <1>b, <1>c DEF Rename, TInv, Basic
  <2>4. files' \subseteq Paths
    BY <1>b DEF Rename, TInv, Basic
  <2> QED BY <2>2, <2>3, <2>4 DEF Rename, TInv, Basic
<1>2. Requests'
  BY RequestsSame DEF Rename, TInv
<1>3. Moving'
  <2>1. mover' = [old |-> m[1], new |-> m[2], read |-> Nil, todo |-> {}, h |-> Nil, obj |-> Nil]
    <3>1. [NoMove EXCEPT !.old = m[1]] = [old |-> m[1], new |-> Nil, read |-> Nil, todo |-> {}, h |-> Nil, obj |-> Nil]
      BY DEF NoMove
    <3>2. [[old |-> m[1], new |-> Nil, read |-> Nil, todo |-> {}, h |-> Nil, obj |-> Nil] EXCEPT !.new = m[2]]
            = [old |-> m[1], new |-> m[2], read |-> Nil, todo |-> {}, h |-> Nil, obj |-> Nil]
      OBVIOUS
    <3> QED BY <3>1, <3>2 DEF Rename
  <2> QED BY <1>a, <1>c, <2>1 DEF Moving, MoverRecs, MoverOK
<1>4. Saving'
  BY DEF Rename, TInv, Saving
<1>5. Mem'
  <2>1. mover.obj = Nil /\ mover'.obj = Nil
    BY DEF Rename, NoMove
  <2>2. InUse' = InUse
    BY <2>1 DEF InUse, Refs, Rename
  <2> QED BY <2>2 DEF Rename, TInv, Mem
<1> QED BY <1>1, <1>2, <1>3, <1>4, <1>5 DEF TInv

\* Of the mover, what the memory needs.
LEMMA MoverRefers ==
  ASSUME TInv, UNCHANGED <<at, flush>>, NEW x, InUse \subseteq x, mover'.obj \in x,
         \A h \in Hashes : cache'[h] \in x
  PROVE  Refers(x)
BY InUseNow DEF Refers

LEMMA NoMoveOK == NoMove \in MoverRecs /\ MoverOK(NoMove) /\ NoMove.obj = Nil
BY DEF NoMove, MoverRecs, MoverOK

LEMMA MoveReadT ==
  ASSUME SharesAssumption, TInv, MoveRead
  PROVE  TInv'
<1>a. mover \in MoverRecs /\ MoverOK(mover) /\ mover.obj = Nil /\ mover.h = Nil
  BY DEF TInv, Moving, MoverOK, MoveRead
<1> PICK todo \in SUBSET Hashes :
      /\ todo = {h \in Hashes : bolt[h] # Nil /\ FollowsMove(bolt[h].path, mover.old)}
      /\ mover' = IF todo = {} THEN NoMove ELSE [mover EXCEPT !.read = bolt, !.todo = todo]
  BY DEF MoveRead
<1>1. Basic'
  BY RestSame, Adds DEF MoveRead
<1>2. Requests'
  BY RequestsSame DEF MoveRead, TInv
<1>3. Moving' /\ mover'.obj = Nil
  <2>1. CASE todo = {}
    BY <2>1, NoMoveOK DEF Moving, MoveRead, MoverOK
  <2>2. CASE todo # {}
    <3>1. bolt \in [Hashes -> Links \cup {Nil}] /\ bolt # Nil
      BY DEF TInv, Basic, SharesAssumption
    <3>2. mover' \in MoverRecs /\ mover'.old = mover.old /\ mover'.new = mover.new /\ mover'.read = bolt
          /\ mover'.todo = todo /\ mover'.h = Nil /\ mover'.obj = Nil
      BY <1>a, <2>2, <3>1 DEF MoverRecs
    <3>3. \A h \in todo : bolt[h] \in Links /\ h \in born
      BY <3>1 DEF TInv, Basic
    <3>4. mover.old # Nil /\ born' = born
      BY DEF MoveRead
    <3> QED BY <1>a, <2>2, <3>1, <3>2, <3>3, <3>4 DEF Moving, MoverOK
  <2> QED BY <2>1, <2>2
<1>4. Saving'
  BY DEF MoveRead, TInv, Saving
<1>5. Mem'
  <2>1. InUse' = InUse
    BY <1>a, <1>3 DEF InUse, Refs, MoveRead
  <2> QED BY <2>1 DEF MoveRead, TInv, Mem
<1> QED BY <1>1, <1>2, <1>3, <1>4, <1>5 DEF TInv

LEMMA MoveSaveFailsT ==
  ASSUME SharesAssumption, TInv, MoveSaveFails
  PROVE  TInv'
<1>a. mover.obj = Nil
  BY DEF TInv, Moving, MoverOK, MoveSaveFails
<1>1. Basic'
  <2> PICK add : add = [h \in Hashes |-> {x \in {"unsaved"} : h \in mover.todo}]
    OBVIOUS
  <2>1. \A h \in Hashes : add[h] \subseteq Excuses
    BY DEF Excuses
  <2> QED BY <2>1, RestSame DEF MoveSaveFails
<1>2. Requests'
  BY RequestsSame DEF MoveSaveFails, TInv
<1>3. Moving' /\ mover'.obj = Nil
  BY NoMoveOK DEF Moving, MoveSaveFails, MoverOK
<1>4. Saving'
  BY DEF MoveSaveFails, TInv, Saving
<1>5. Mem'
  <2>1. InUse' = InUse
    BY <1>a, <1>3 DEF InUse, Refs, MoveSaveFails
  <2> QED BY <2>1 DEF MoveSaveFails, TInv, Mem
<1> QED BY <1>1, <1>2, <1>3, <1>4, <1>5 DEF TInv

LEMMA MoveSaveT ==
  ASSUME SharesAssumption, TInv, NEW h \in Hashes, MoveSave(h)
  PROVE  TInv'
<1>a. mover \in MoverRecs /\ MoverOK(mover) /\ mover.obj = Nil /\ mover.h = Nil /\ h \in mover.todo
  BY DEF TInv, Moving, MoverOK, MoveSave
<1>b. mover.new \in Paths /\ mover.read[h] \in Links /\ h \in born
  <2>1. mover.old # Nil
    BY <1>a DEF MoverOK, NoMove
  <2> QED BY <1>a, <2>1 DEF MoverOK, SharesAssumption
<1> PICK l : l = [mover.read[h] EXCEPT !.path = mover.new]
  OBVIOUS
<1>c. l \in Links
  BY <1>b DEF Links
<1>d. NewObj \in Objs /\ heap[NewObj] = Nil
  BY Room
<1>1. Basic'
  <2>1. \A g \in Hashes : (IF flush # Nil THEN Only(h, "late") ELSE Nothing)[g] \subseteq Excuses
    BY Adds DEF Excuses
  <2>2. bolt' = [bolt EXCEPT ![h] = l]
    BY DEF MoveSave
  <2>3. excuse' \in [Hashes -> SUBSET Excuses]
    BY <2>1, Noted DEF MoveSave, TInv, Basic
  <2> QED BY <1>b, <1>c, <2>2, <2>3 DEF MoveSave, TInv, Basic
<1>2. Requests'
  BY RequestsSame DEF MoveSave, TInv
<1>e. mover' \in MoverRecs /\ mover'.old = mover.old /\ mover'.new = mover.new /\ mover'.read = mover.read
          /\ mover'.todo = mover.todo /\ mover'.h = h /\ mover'.obj = NewObj
  BY <1>a, <1>d DEF MoveSave, MoverRecs
<1>3. Moving'
  <2>1. mover'.old # Nil /\ h # Nil /\ NewObj # Nil /\ born' = born
    BY <1>a, <1>d, <1>e DEF MoverOK, NoMove, SharesAssumption, MoveSave
  <2> QED BY <1>a, <1>e, <2>1 DEF Moving, MoverOK
<1>4. Saving'
  BY DEF MoveSave, TInv, Saving
<1>5. Mem'
  <2>1. InUse \subseteq InUse' \cup {Nil} /\ NewObj \in InUse'
    BY <1>a, <1>e DEF InUse, Refs, MoveSave
  <2>2. Refers(InUse \cup {Nil, NewObj})
    <3> PICK x : x = InUse \cup {Nil, NewObj}
      OBVIOUS
    <3>1. InUse \subseteq x /\ mover'.obj \in x /\ \A g \in Hashes : cache'[g] \in x
      BY <1>e, InUseNow DEF MoveSave
    <3>2. Refers(x)
      BY <3>1, MoverRefers DEF MoveSave
    <3> QED BY <3>2
  <2>3. heap' = [heap EXCEPT ![NewObj] = l]
    BY DEF MoveSave
  <2> QED BY <1>c, <2>1, <2>2, <2>3, Allocated
<1> QED BY <1>1, <1>2, <1>3, <1>4, <1>5 DEF TInv

LEMMA MoveCacheT ==
  ASSUME SharesAssumption, TInv, NEW h \in Hashes, MoveCache(h)
  PROVE  TInv'
<1>a. mover \in MoverRecs /\ MoverOK(mover) /\ mover.h = h /\ h # Nil /\ h \in mover.todo /\ mover.obj \in Objs
      /\ mover.obj \in InUse
  <2>1. mover \in MoverRecs /\ MoverOK(mover) /\ mover.h = h /\ h # Nil
    BY DEF TInv, Moving, MoveCache, SharesAssumption
  <2> QED BY <2>1, InUseNow DEF MoverOK, MoverRecs
<1>b. mover.new \in Paths /\ h \in born
  <2>1. mover.old # Nil
    BY <1>a DEF MoverOK, NoMove
  <2> QED BY <1>a, <2>1 DEF MoverOK, SharesAssumption
<1>c. cache' \in [Hashes -> Objs \cup {Nil}] /\ \A g \in Hashes : cache'[g] # Nil => g \in born
  BY <1>a, <1>b DEF MoveCache, TInv, Basic
<1>1. Basic'
  BY <1>c, Noted, Adds DEF MoveCache, TInv, Basic
<1>2. Requests'
  BY RequestsSame DEF MoveCache, TInv
<1>3. Moving' /\ mover'.obj = Nil
  <2>1. CASE mover.todo = {h}
    <3>1. mover' = NoMove
      BY <2>1 DEF MoveCache
    <3> QED BY <3>1, NoMoveOK DEF Moving, MoveCache, MoverOK
  <2>2. CASE mover.todo # {h}
    <3>0. mover' = [mover EXCEPT !.todo = @ \ {h}, !.h = Nil, !.obj = Nil]
      BY <2>2 DEF MoveCache
    <3>1. mover' \in MoverRecs /\ mover'.old = mover.old /\ mover'.new = mover.new /\ mover'.read = mover.read
          /\ mover'.todo = mover.todo \ {h} /\ mover'.h = Nil /\ mover'.obj = Nil
      BY <1>a, <3>0 DEF MoverRecs
    <3>2. mover.old # Nil /\ mover.todo \ {h} # {} /\ mover.read # Nil /\ born' = born
      BY <1>a, <2>2 DEF MoverOK, NoMove, MoveCache
    <3> QED BY <1>a, <3>1, <3>2 DEF Moving, MoverOK
  <2> QED BY <2>1, <2>2
<1>4. Saving'
  BY DEF MoveCache, TInv, Saving
<1>5. Mem'
  <2> PICK hp : hp = IF cache[h] = Nil THEN heap ELSE [heap EXCEPT ![cache[h]].path = mover.new]
    OBVIOUS
  <2>1. hp \in [Objs -> Links \cup {Nil}] /\ \A o \in Objs : heap[o] \in Links => hp[o] \in Links
    <3>1. \A l \in Links : [l EXCEPT !.path = mover.new] \in Links
      BY <1>b DEF Links
    <3>2. cache[h] # Nil => cache[h] \in Objs /\ heap[cache[h]] \in Links
      BY InUseNow DEF TInv, Mem
    <3>3. heap \in [Objs -> Links \cup {Nil}]
      BY DEF TInv, Mem
    <3>4. cache[h] # Nil => hp = [heap EXCEPT ![cache[h]] = [heap[cache[h]] EXCEPT !.path = mover.new]]
      BY <3>2, <3>3
    <3> QED BY <3>1, <3>2, <3>3, <3>4
  <2>2. Refers(InUse \cup {Nil})
    <3> PICK x : x = InUse \cup {Nil}
      OBVIOUS
    <3>1. \A g \in Hashes : cache'[g] \in x
      BY <1>a, InUseNow DEF MoveCache, TInv, Basic
    <3>2. InUse \subseteq x /\ mover'.obj \in x
      BY <1>3
    <3>3. Refers(x)
      BY <3>1, <3>2, MoverRefers DEF MoveCache
    <3> QED BY <3>3
  <2> QED BY <2>1, <2>2, Collected DEF MoveCache, TInv
<1> QED BY <1>1, <1>2, <1>3, <1>4, <1>5 DEF TInv

LEMMA FlushT ==
  ASSUME SharesAssumption, TInv, Flush
  PROVE  TInv'
<1>1. Basic'
  BY RestSame, Adds DEF Flush
<1>2. Requests' /\ Moving'
  BY RequestsSame DEF Flush, TInv, Moving, MoverOK
<1>4. Saving'
  BY DEF Flush, TInv, Saving, Basic
<1>5. Mem'
  <2>1. InUse' = InUse
    BY DEF InUse, Refs, Flush, SharesAssumption
  <2> QED BY <2>1 DEF Flush, TInv, Mem
<1> QED BY <1>1, <1>2, <1>4, <1>5 DEF TInv

LEMMA FlushRefers ==
  ASSUME TInv, UNCHANGED <<cache, at, mover>>, flush # Nil, flush' \subseteq flush
  PROVE  Refers(InUse \cup {Nil})
BY InUseNow DEF Refers

LEMMA FlushSaveT ==
  ASSUME SharesAssumption, TInv, flush # Nil, NEW e \in flush, FlushSave(e)
  PROVE  TInv'
<1>a. e[1] \in born /\ e[1] \in Hashes /\ heap[e[2]] \in Links /\ flush \in SUBSET (Hashes \X Objs)
  <2>1. e[2] \in Objs /\ e[1] \in born /\ flush \in SUBSET (Hashes \X Objs)
    BY DEF TInv, Saving
  <2> QED BY <2>1, InUseNow DEF TInv, Mem, Basic, SharesAssumption
<1>1. Basic'
  BY <1>a, Noted, Adds DEF FlushSave, TInv, Basic
<1>2. Requests' /\ Moving'
  BY RequestsSame DEF FlushSave, TInv, Moving, MoverOK
<1>4. Saving'
  BY DEF FlushSave, TInv, Saving
<1>5. Mem'
  <2>1. Refers(InUse \cup {Nil})
    BY FlushRefers DEF FlushSave
  <2> QED BY <2>1, Collected DEF FlushSave, TInv, Mem
<1> QED BY <1>1, <1>2, <1>4, <1>5 DEF TInv

LEMMA FlushFailsT ==
  ASSUME SharesAssumption, TInv, flush # Nil, FlushFails
  PROVE  TInv'
<1>1. Basic'
  <2> PICK add : add = [h \in Hashes |-> {x \in {"unsaved"} : Flushing(h, flush)}]
    OBVIOUS
  <2>1. \A h \in Hashes : add[h] \subseteq Excuses
    BY DEF Excuses
  <2> QED BY <2>1, RestSame DEF FlushFails
<1>2. Requests' /\ Moving'
  BY RequestsSame DEF FlushFails, TInv, Moving, MoverOK
<1>4. Saving'
  BY DEF FlushFails, TInv, Saving
<1>5. Mem'
  <2>1. Refers(InUse \cup {Nil})
    BY FlushRefers DEF FlushFails
  <2> QED BY <2>1, Collected DEF FlushFails, TInv, Mem
<1> QED BY <1>1, <1>2, <1>4, <1>5 DEF TInv

LEMMA Remembers ==
  ASSUME TInv, NEW h \in Hashes
  PROVE  Saved(h) \in CountRecs
BY DEF Saved, TInv, Basic, Links, Zero, CountRecs

LEMMA EndsT ==
  ASSUME SharesAssumption, TInv, Ends, served' \in [Hashes -> CountRecs]
  PROVE  TInv'
<1>1. Basic'
  <2> PICK add : add = [h \in Hashes |-> {x \in {"cut"} : mover # NoMove}
                             \cup {x \in {"late"} : \E r \in Reqs : Hash(r) = h /\ at[r].pc = "countuser"}]
    OBVIOUS
  <2>1. \A h \in Hashes : add[h] \subseteq Excuses
    BY DEF Excuses
  <2>2. excuse' \in [Hashes -> SUBSET Excuses]
    BY <2>1, Noted DEF Ends, TInv, Basic
  <2>3. \A h \in Hashes : bolt[h] # Nil => bolt[h].path \in Paths /\ target[h] # Nil
    BY DEF TInv, Basic, Links
  <2>4. target' \in [Hashes -> Paths \cup {Nil}] /\ \A h \in Hashes : target'[h] # Nil <=> target[h] # Nil
    BY <2>3 DEF Ends, TInv, Basic, SharesAssumption
  <2> QED BY <2>2, <2>4 DEF Ends, TInv, Basic
<1>2. Requests'
  BY IdleOK DEF Ends, Requests, ReqOK
<1>3. Moving'
  BY NoMoveOK DEF Ends, Moving, MoverOK
<1>4. Saving'
  BY DEF Ends, Saving
<1>5. Mem'
  BY NoMoveOK, IdleOK DEF Ends, Mem, InUse, Refs
<1> QED BY <1>1, <1>2, <1>3, <1>4, <1>5 DEF TInv

LEMMA TickT ==
  ASSUME SharesAssumption, TInv, Tick
  PROVE  TInv'
<1>1. Basic'
  BY Noted, Adds DEF Tick, TInv, Basic, SharesAssumption
<1>2. Requests' /\ Moving' /\ Saving'
  BY RequestsSame DEF Tick, TInv, Moving, MoverOK, Saving
<1>5. Mem'
  BY DEF Tick, TInv, Mem, InUse
<1> QED BY <1>1, <1>2, <1>5 DEF TInv

LEMMA TInit ==
  ASSUME SharesAssumption, Init
  PROVE  TInv
<1>1. Basic
  BY DEF Init, Basic, Zero, CountRecs, Nothing, SharesAssumption
<1>2. Requests
  BY IdleOK DEF Init, Requests, ReqOK
<1>3. Moving /\ Saving
  BY NoMoveOK DEF Init, Moving, MoverOK, Saving
<1>5. Mem
  BY NoMoveOK, IdleOK DEF Init, Mem, InUse, Refs
<1> QED BY <1>1, <1>2, <1>3, <1>5 DEF TInv

LEMMA TNext ==
  ASSUME SharesAssumption, TInv, [Next]_vars
  PROVE  TInv'
<1>1. ASSUME NEW r \in Reqs, Request(r) PROVE TInv'
  BY <1>1, GetCachedT, GetStoredT, FillT, PurgeT, LeaveT, ListReadT, ListFillT, CheckT, CountT, CountUserT, UnboltT,
     UncacheT, EditT, PatchT, SaveT, SaveFailsT, RecacheT, RepathT DEF Request
<1>2. CASE UpdateShares
  BY <1>2, MoveReadT, MoveSaveFailsT, MoveSaveT, MoveCacheT DEF UpdateShares
<1>3. CASE Exit \/ Crash
  <2>1. served' \in [Hashes -> CountRecs]
    BY <1>3, Remembers DEF Exit, Crash, TInv, Basic
  <2> QED BY <1>3, <2>1, EndsT DEF Exit, Crash
<1>4. CASE UNCHANGED vars
  <2>1. UNCHANGED vars
    BY <1>4
  <2> QED BY <2>1, RequestsSame DEF vars, TInv, Basic, Moving, MoverOK, Saving, Mem, InUse
<1> QED BY <1>1, <1>2, <1>3, <1>4, OpenT, CreateT, RenameT, FlushT, FlushSaveT, FlushFailsT, TickT DEF Next
-------------------------------------------------------------------------------
(* What the excuses cover                                                      *)

(* Request r works on link h, in one of these places.                           *)
Is(r, h, places) == at[r].h = h /\ at[r].pc \in places

\* Someone has read the link and may yet write it back.
Writes(h) ==
  \/ \E r \in Reqs : Is(r, h, {"save", "savepath", "recache", "repath", "fill", "listfill"})
  \/ flush # Nil /\ \E e \in flush : e[1] = h
  \/ h \in mover.todo
Unsaved(h) == \E r \in Reqs : Is(r, h, {"save", "savepath"})
Deletes(h) == \E r \in Reqs : Is(r, h, {"uncache", "orphan", "purge", "purgebolt", "drop"})
Edits(h) == \E r \in Reqs : Is(r, h, {"save", "recache", "savepath", "repath"})
Saves(h) == flush # Nil /\ \E e \in flush : e[1] = h

(* What the excuses cover.                                                     *)
Known(h) ==
  /\ "delete" \notin excuse[h] => ~Deletes(h) \/ ~Writes(h)
  /\ "move" \notin excuse[h] => mover = NoMove \/ (~Edits(h) /\ ~Saves(h))
  /\ "patch" \notin excuse[h] =>
       \A r, s \in Reqs : Is(r, h, {"savepath", "repath"}) /\ Is(s, h, {"savepath", "repath"}) => r = s

(* Nothing is left of the link, and nobody will write it back.                 *)
Dead(h) == h \in born /\ bolt[h] = Nil /\ cache[h] = Nil /\ ~Writes(h)

LEMMA Overlapping ==
  ASSUME NEW h
  PROVE  /\ Writes(h) <=> Holding(h, at, flush, mover)
         /\ Deletes(h) <=> Deleting(h, at)
         /\ Edits(h) <=> Editing(h, at)
         /\ Saves(h) <=> Flushing(h, flush)
BY DEF Writes, Holding, Deletes, Deleting, Edits, Editing, Saves, Flushing, At, Is

LEMMA Pairs ==
  ASSUME SharesAssumption, NEW h, NEW a, NEW r \in At(h, a, {"savepath", "repath"}),
         NEW s \in At(h, a, {"savepath", "repath"}), r # s
  PROVE  Cardinality(At(h, a, {"savepath", "repath"})) > 1
<1> PICK S : S = At(h, a, {"savepath", "repath"})
  OBVIOUS
<1>1. S \subseteq Reqs /\ IsFiniteSet(S) /\ Cardinality(S) \in Nat
  BY FS_Subset, FS_CardinalityType DEF At, SharesAssumption
<1>2. IsFiniteSet({r}) /\ Cardinality({r}) = 1
  BY FS_Singleton
<1>3. IsFiniteSet({r} \cup {s}) /\ Cardinality({r} \cup {s}) = 2
  BY <1>2, FS_AddElement
<1>4. {r} \cup {s} \subseteq S
  OBVIOUS
<1> QED BY <1>1, <1>3, <1>4, FS_Subset

LEMMA Knows ==
  ASSUME SharesAssumption, TInv, NEW add, \A h \in Hashes : add[h] \subseteq Excuses, Note(add), NEW h \in Hashes
  PROVE  Known(h)'
<1>1. Overlaps(h, at', flush', mover') \subseteq excuse'[h]
  BY Noted DEF TInv, Basic
<1>2. /\ "delete" \notin excuse'[h] => ~(Deleting(h, at') /\ Holding(h, at', flush', mover'))
      /\ "move" \notin excuse'[h] => ~(mover' # NoMove /\ (Editing(h, at') \/ Flushing(h, flush')))
      /\ "patch" \notin excuse'[h] => ~(Cardinality(At(h, at', {"savepath", "repath"})) > 1)
  BY <1>1 DEF Overlaps
<1>3. /\ Writes(h)' <=> Holding(h, at', flush', mover')
      /\ Deletes(h)' <=> Deleting(h, at')
      /\ Edits(h)' <=> Editing(h, at')
      /\ Saves(h)' <=> Flushing(h, flush')
  BY DEF Writes, Holding, Deletes, Deleting, Edits, Editing, Saves, Flushing, At, Is
<1>4. ASSUME "patch" \notin excuse'[h], NEW r \in Reqs, NEW s \in Reqs,
             Is(r, h, {"savepath", "repath"})', Is(s, h, {"savepath", "repath"})'
      PROVE  r = s
  <2>1. r \in At(h, at', {"savepath", "repath"}) /\ s \in At(h, at', {"savepath", "repath"})
    BY <1>4 DEF At, Is
  <2> QED BY <1>2, <1>4, <2>1, Pairs
<1>5. /\ "delete" \notin excuse'[h] => ~Deletes(h)' \/ ~Writes(h)'
      /\ "move" \notin excuse'[h] => mover' = NoMove \/ (~Edits(h)' /\ ~Saves(h)')
  BY <1>2, <1>3
<1> QED BY <1>4, <1>5 DEF Known

(* Objects belong to one link each.                                            *)
Belongs(o, h) ==
  \/ cache[h] = o
  \/ \E r \in Reqs : at[r].h = h /\ at[r].obj = o
  \/ flush # Nil /\ <<h, o>> \in flush
  \/ mover.h = h /\ mover.obj = o
Owned == \A h, g \in Hashes, o \in Objs : Belongs(o, h) /\ Belongs(o, g) => h = g


\* A new object is nobody else's.
LEMMA OwnedNext ==
  ASSUME Owned, NEW g,
         \A h \in Hashes, o \in Objs : Belongs(o, h)' => Belongs(o, h) \/ (h = g /\ o \notin InUse)
  PROVE  Owned'
<1>1. \A h \in Hashes, o \in Objs : Belongs(o, h) => o \in InUse
  BY DEF Belongs, InUse, Refs
<1> QED BY <1>1 DEF Owned

LEMMA Used ==
  ASSUME NEW h \in Hashes, NEW o \in Objs
  PROVE  Belongs(o, h) => o \in InUse
BY DEF Belongs, InUse, Refs

Gone(h) ==
  "delete" \notin excuse[h] =>
    /\ \A r \in Reqs : Is(r, h, {"uncache", "drop"}) => bolt[h] = Nil
    /\ h \in gone => Dead(h)
-------------------------------------------------------------------------------
(* Where the requests go                                                       *)

\* Request r goes to one of the places, and works on link h then.
Goes(r, h, places) ==
  /\ \A s \in Reqs : s # r => at'[s] = at[s]
  /\ at'[r].h = h /\ at'[r].pc \in places

\* Its place and its object, or its place and its argument.
Puts(r, p, o) == at' = [at EXCEPT ![r].pc = p, ![r].obj = o]
Asks(r, p, a) == at' = [at EXCEPT ![r].pc = p, ![r].arg = a]

LEMMA GoesBy ==
  ASSUME TInv, NEW r \in Reqs
  PROVE  /\ \A p : Goto(r, p) => Goes(r, Hash(r), {p}) /\ at'[r] = [at[r] EXCEPT !.pc = p]
         /\ Reply(r) => Goes(r, Nil, {"idle"}) /\ at'[r] = IdleReq
         /\ \A p, o : Puts(r, p, o) => Goes(r, Hash(r), {p}) /\ at'[r].obj = o /\ at'[r].arg = at[r].arg
         /\ \A p, a : Asks(r, p, a) => Goes(r, Hash(r), {p}) /\ at'[r].obj = at[r].obj /\ at'[r].arg = a
<1>1. Requests
  BY DEF TInv
<1>2. /\ \A p : Goto(r, p) => Goes(r, Hash(r), {p}) /\ at'[r] = [at[r] EXCEPT !.pc = p]
      /\ Reply(r) => Goes(r, Nil, {"idle"}) /\ at'[r] = IdleReq
  BY <1>1 DEF Requests, ReqRecs, Goto, Reply, Goes, Hash, IdleReq
<1>3. ASSUME NEW p, NEW o, Puts(r, p, o)
      PROVE  Goes(r, Hash(r), {p}) /\ at'[r].obj = o /\ at'[r].arg = at[r].arg
  <2>1. Turns(r, [pc |-> p, h |-> Hash(r), obj |-> o, arg |-> at[r].arg])
    BY <1>1, <1>3, Changed DEF Puts
  <2> QED BY <1>1, <2>1, TurnsTo DEF Goes
<1>4. ASSUME NEW p, NEW a, Asks(r, p, a)
      PROVE  Goes(r, Hash(r), {p}) /\ at'[r].obj = at[r].obj /\ at'[r].arg = a
  <2>1. Turns(r, [pc |-> p, h |-> Hash(r), obj |-> at[r].obj, arg |-> a])
    BY <1>1, <1>4, Changed DEF Asks
  <2> QED BY <1>1, <2>1, TurnsTo DEF Goes
<1> QED BY <1>2, <1>3, <1>4

SameTerms(l, k) == l.limit = k.limit /\ l.perUser = k.perUser /\ l.keep = k.keep /\ l.expire = k.expire
SameCounts(l, k) == l.n = k.n /\ l.by = k.by

LEMMA OpenE ==
  ASSUME TInv, NEW r \in Reqs, NEW h \in Hashes, Open(r, h)
  PROVE  Goes(r, h, {"get", "list"}) /\ at'[r].obj = Nil /\ at[r].pc = "idle" /\ at[r].h = Nil
BY DEF Open, Goes, IdleReq, TInv, Requests, ReqOK

LEMMA GetCachedE ==
  ASSUME TInv, NEW r \in Reqs, GetCached(r)
  PROVE  /\ Goes(r, Hash(r), {"purge", "got"}) /\ at[r].pc = "get" /\ cache[Hash(r)] # Nil
         /\ at'[r].pc = "got" => at'[r].obj = cache[Hash(r)]
         /\ at'[r].pc = "purge" => at'[r].obj = Nil /\ Expired(heap[cache[Hash(r)]])
<1>1. at[r].obj = Nil /\ at[r].pc = "get" /\ cache[Hash(r)] # Nil
  BY DEF GetCached, TInv, Requests, ReqOK, Holders
<1>2. CASE Expired(heap[cache[Hash(r)]])
  <2>1. at' = [at EXCEPT ![r].pc = "purge"]
    BY <1>2 DEF GetCached
  <2> QED BY <1>1, <1>2, <2>1 DEF Goes, TInv, Requests, ReqRecs, Hash
<1>3. CASE ~Expired(heap[cache[Hash(r)]])
  <2>1. Puts(r, "got", cache[Hash(r)])
    BY <1>3 DEF GetCached, Puts
  <2>2. Goes(r, Hash(r), {"got"}) /\ at'[r].obj = cache[Hash(r)]
    BY <2>1, GoesBy
  <2> QED BY <1>1, <2>2 DEF Goes
<1> QED BY <1>2, <1>3

LEMMA GetStoredE ==
  ASSUME TInv, NEW r \in Reqs, GetStored(r)
  PROVE  /\ at[r].pc = "get" /\ cache[Hash(r)] = Nil
         /\ \/ Goes(r, Nil, {"idle"}) /\ at'[r].obj = Nil /\ heap' = heap
            \/ Goes(r, Hash(r), {"purgebolt"}) /\ at'[r].obj = Nil /\ heap' = heap
            \/ /\ Goes(r, Hash(r), {"fill"}) /\ at'[r].obj = NewObj
               /\ bolt[Hash(r)] # Nil /\ heap' = [heap EXCEPT ![NewObj] = bolt[Hash(r)]]
<1>1. at[r].obj = Nil /\ at[r].pc = "get" /\ cache[Hash(r)] = Nil /\ at[r] \in ReqRecs
  BY DEF GetStored, TInv, Requests, ReqOK, Holders
<1>2. CASE Reply(r) /\ UNCHANGED heap
  BY <1>1, <1>2, GoesBy DEF IdleReq
<1>3. CASE Goto(r, "purgebolt") /\ UNCHANGED heap
  BY <1>1, <1>3, GoesBy DEF ReqRecs
<1>4. CASE /\ bolt[Hash(r)] # Nil
           /\ at' = [at EXCEPT ![r].pc = "fill", ![r].obj = NewObj]
           /\ heap' = [heap EXCEPT ![NewObj] = bolt[Hash(r)]]
  <2> PICK o : o = NewObj
    OBVIOUS
  <2>1. Puts(r, "fill", o)
    BY <1>4 DEF Puts
  <2>2. Goes(r, Hash(r), {"fill"}) /\ at'[r].obj = o
    BY <2>1, GoesBy
  <2> QED BY <1>1, <1>4, <2>2
<1> QED BY <1>1, <1>2, <1>3, <1>4 DEF GetStored

LEMMA ListReadE ==
  ASSUME TInv, NEW r \in Reqs, NEW gets, ListRead(r, gets)
  PROVE  /\ at[r].pc = "list"
         /\ \/ Goes(r, Nil, {"idle"}) /\ at'[r].obj = Nil /\ heap' = heap
            \/ /\ Goes(r, Hash(r), {"purge", "purgebolt"}) /\ at'[r].obj = Nil /\ heap' = heap
               /\ bolt[Hash(r)] # Nil /\ Expired(bolt[Hash(r)])
            \/ /\ Goes(r, Hash(r), {"listfill"}) /\ at'[r].obj = NewObj
               /\ bolt[Hash(r)] # Nil /\ heap' = [heap EXCEPT ![NewObj] = bolt[Hash(r)]]
<1>1. at[r].obj = Nil /\ at[r].pc = "list" /\ at[r] \in ReqRecs
  BY DEF ListRead, TInv, Requests, ReqOK, Holders
<1>2. CASE Reply(r) /\ UNCHANGED heap
  BY <1>1, <1>2, GoesBy DEF IdleReq
<1>3. ASSUME NEW p \in {"purge", "purgebolt"}, Goto(r, p), UNCHANGED heap, bolt[Hash(r)] # Nil, Expired(bolt[Hash(r)])
      PROVE  /\ Goes(r, Hash(r), {"purge", "purgebolt"}) /\ at'[r].obj = Nil
  <2>1. Goes(r, Hash(r), {p}) /\ at'[r] = [at[r] EXCEPT !.pc = p]
    BY <1>3, GoesBy
  <2> QED BY <1>1, <2>1 DEF ReqRecs, Goes
<1>4. CASE /\ bolt[Hash(r)] # Nil
           /\ at' = [at EXCEPT ![r].pc = "listfill", ![r].obj = NewObj]
           /\ heap' = [heap EXCEPT ![NewObj] = bolt[Hash(r)]]
  <2> PICK o : o = NewObj
    OBVIOUS
  <2>1. Puts(r, "listfill", o)
    BY <1>4 DEF Puts
  <2>2. Goes(r, Hash(r), {"listfill"}) /\ at'[r].obj = o
    BY <2>1, GoesBy
  <2> QED BY <1>1, <1>4, <2>2
<1>5. ASSUME bolt[Hash(r)] # Nil, bolt[Hash(r)].expire # 0, bolt[Hash(r)].expire < now, Hash(r) \in Hashes
      PROVE  Expired(bolt[Hash(r)])
  BY <1>5 DEF Expired, TInv, Basic, Links, SharesAssumption
<1>6. Hash(r) \in Hashes
  BY <1>1 DEF TInv, Requests, ReqOK, Basic, Hash
<1> QED BY <1>1, <1>2, <1>3, <1>4, <1>5, <1>6 DEF ListRead
LEMMA FillE ==
  ASSUME TInv, NEW r \in Reqs, Fill(r)
  PROVE  Goes(r, Hash(r), {"got"}) /\ at[r].pc = "fill" /\ at'[r].obj = at[r].obj
<1>1. Goes(r, Hash(r), {"got"}) /\ at'[r] = [at[r] EXCEPT !.pc = "got"] /\ at[r] \in ReqRecs
  BY GoesBy DEF Fill, TInv, Requests
<1> QED BY <1>1 DEF ReqRecs, Fill

LEMMA PurgeE ==
  ASSUME TInv, NEW r \in Reqs, Purge(r)
  PROVE  /\ at'[r].obj = Nil
         /\ \/ at[r].pc = "purge" /\ Goes(r, Hash(r), {"drop"})
            \/ at[r].pc = "purgebolt" /\ Goes(r, Nil, {"idle"})
<1>1. at[r].obj = Nil /\ at[r] \in ReqRecs
  BY DEF Purge, TInv, Requests, ReqOK, Holders
<1>2. CASE at[r].pc = "purge"
  <2>1. Goes(r, Hash(r), {"drop"}) /\ at'[r] = [at[r] EXCEPT !.pc = "drop"]
    BY <1>2, GoesBy DEF Purge
  <2> QED BY <1>1, <1>2, <2>1 DEF ReqRecs
<1>3. CASE at[r].pc = "purgebolt"
  BY <1>3, GoesBy DEF Purge, IdleReq
<1> QED BY <1>2, <1>3 DEF Purge

LEMMA RepliesE ==
  ASSUME TInv, NEW r \in Reqs,
         Leave(r) \/ CountUser(r) \/ Uncache(r) \/ SaveFails(r) \/ Recache(r) \/ Repath(r)
  PROVE  Goes(r, Nil, {"idle"}) /\ at'[r].obj = Nil
BY GoesBy DEF Leave, CountUser, Uncache, SaveFails, Recache, Repath, IdleReq

LEMMA ListFillE ==
  ASSUME TInv, NEW r \in Reqs, ListFill(r)
  PROVE  /\ at[r].pc = "listfill" /\ at'[r].obj = Nil
         /\ Goes(r, Nil, {"idle"}) \/ Goes(r, Hash(r), {"orphan"})
<1>1. at[r].pc = "listfill" /\ (Reply(r) \/ Puts(r, "orphan", Nil))
  BY DEF ListFill, Puts
<1>2. CASE Reply(r)
  <2>1. Goes(r, Nil, {"idle"}) /\ at'[r] = IdleReq
    BY <1>2, GoesBy
  <2> QED BY <1>1, <2>1 DEF IdleReq
<1>3. CASE Puts(r, "orphan", Nil)
  <2>1. Goes(r, Hash(r), {"orphan"}) /\ at'[r].obj = Nil
    BY <1>3, GoesBy
  <2> QED BY <1>1, <2>1
<1> QED BY <1>1, <1>2, <1>3

LEMMA CheckE ==
  ASSUME TInv, NEW r \in Reqs, NEW c \in Callers, Check(r, c)
  PROVE  /\ Goes(r, Hash(r), {"count", "countview"}) /\ at[r].pc = "got"
         /\ at'[r].obj = at[r].obj /\ at'[r].arg = c /\ ~Refused(Obj(r), c)
<1>1. PICK p \in {"count", "countview"} : at' = [at EXCEPT ![r].pc = p, ![r].arg = c] /\ ~Refused(Obj(r), c)
  BY DEF Check, Withheld
<1>2. Asks(r, p, c)
  BY <1>1 DEF Asks
<1>3. Goes(r, Hash(r), {p}) /\ at'[r].obj = at[r].obj /\ at'[r].arg = c
  BY <1>2, GoesBy
<1> QED BY <1>1, <1>3 DEF Goes, Check

\* One more download of l, in all or also by c.
One(l) == [l EXCEPT !.n = @ + 1]
Both(l, c) == IF PerUser(l, c) THEN Credit(One(l), c) ELSE One(l)

LEMMA CountE ==
  ASSUME SharesAssumption, TInv, NEW r \in Reqs, Count(r)
  PROVE  /\ at[r].pc \in {"count", "countview"} /\ Obj(r) \in Links /\ at[r].arg \in Callers
         /\ IF at[r].pc = "count" /\ PerUser(Obj(r), at[r].arg)
            THEN /\ Goes(r, Hash(r), {"countuser"}) /\ at'[r].obj = at[r].obj /\ at'[r].arg = at[r].arg
                 /\ Memory([heap EXCEPT ![at[r].obj] = One(Obj(r))])
            ELSE /\ Goes(r, Nil, {"idle"}) /\ at'[r].obj = Nil
                 /\ Memory([heap EXCEPT ![at[r].obj] = Both(Obj(r), at[r].arg)])
         /\ served' = [served EXCEPT ![Hash(r)] =
                         IF PerUser(Obj(r), at[r].arg) THEN Credit(One(served[Hash(r)]), at[r].arg)
                         ELSE One(served[Hash(r)])]
<1>a. at[r].pc \in {"count", "countview"} /\ at[r] \in ReqRecs /\ Requests /\ at[r].arg \in Callers
  BY DEF Count, TInv, Requests, ReqOK
<1>b. Hash(r) \in Hashes /\ at[r].obj \in Objs /\ Obj(r) \in Links
  BY <1>a, Own DEF Holders
<1>c. heap \in [Objs -> Links \cup {Nil}] /\ served \in [Hashes -> CountRecs]
  BY DEF TInv, Mem, Basic
<1>1. CASE at[r].pc = "count" /\ PerUser(Obj(r), at[r].arg)
  <2>1. Goto(r, "countuser")
    BY <1>1 DEF Count
  <2>2. Goes(r, Hash(r), {"countuser"}) /\ at'[r] = [at[r] EXCEPT !.pc = "countuser"]
    BY <2>1, GoesBy
  <2>3. Memory([heap EXCEPT ![at[r].obj] = One(Obj(r))])
    BY <1>1, <1>b, <1>c DEF Count, One, Obj
  <2>4. served' = [served EXCEPT ![Hash(r)] = Credit(One(served[Hash(r)]), at[r].arg)]
    BY <1>1, <1>b, <1>c DEF Count, One
  <2> QED BY <1>a, <1>b, <1>1, <2>2, <2>3, <2>4 DEF ReqRecs
<1>2. CASE ~(at[r].pc = "count" /\ PerUser(Obj(r), at[r].arg))
  <2>1. Goes(r, Nil, {"idle"}) /\ at'[r].obj = Nil
    BY <1>a, <1>2, GoesBy DEF Count, IdleReq
  <2>2. CASE PerUser(Obj(r), at[r].arg)
    <3>1. at[r].pc = "countview"
      BY <1>a, <1>2, <2>2
    <3>2. Memory([heap EXCEPT ![at[r].obj] = Credit(One(Obj(r)), at[r].arg)])
      BY <3>1, <2>2, <1>b, <1>c DEF Count, One, Obj
    <3>3. served' = [served EXCEPT ![Hash(r)] = Credit(One(served[Hash(r)]), at[r].arg)]
      BY <2>2, <1>b, <1>c DEF Count, One
    <3> QED BY <1>a, <1>b, <1>2, <2>1, <2>2, <3>2, <3>3 DEF Both
  <2>3. CASE ~PerUser(Obj(r), at[r].arg)
    <3>2. Memory([heap EXCEPT ![at[r].obj] = One(Obj(r))])
      BY <2>3, <1>b, <1>c DEF Count, One, Obj
    <3>3. served' = [served EXCEPT ![Hash(r)] = One(served[Hash(r)])]
      BY <2>3, <1>b, <1>c DEF Count, One
    <3> QED BY <1>a, <1>b, <1>2, <2>1, <2>3, <3>2, <3>3 DEF Both
  <2> QED BY <2>2, <2>3
<1> QED BY <1>1, <1>2

LEMMA UnboltE ==
  ASSUME TInv, NEW r \in Reqs, Unbolt(r)
  PROVE  /\ at'[r].obj = Nil
         /\ \/ at[r].pc = "got" /\ Goes(r, Hash(r), {"uncache"})
            \/ at[r].pc = "orphan" /\ Goes(r, Hash(r), {"drop"})
<1> PICK p : p = IF at[r].pc = "got" THEN "uncache" ELSE "drop"
  OBVIOUS
<1>1. at' = [at EXCEPT ![r].pc = p, ![r].obj = Nil]
  BY DEF Unbolt
<1>2. Puts(r, p, Nil)
  BY <1>1 DEF Puts
<1>3. Goes(r, Hash(r), {p}) /\ at'[r].obj = Nil
  BY <1>2, GoesBy
<1> QED BY <1>3 DEF Unbolt

LEMMA CreateE ==
  ASSUME SharesAssumption, TInv, NEW r \in Reqs, NEW h \in Hashes, NEW p \in Paths, Create(r, h, p)
  PROVE  /\ Goes(r, h, {"save"}) /\ at'[r].obj = NewObj /\ at[r].pc = "idle" /\ at[r].h = Nil
         /\ heap' = [heap EXCEPT ![NewObj] = heap'[NewObj]]
         /\ heap'[NewObj] \in Links /\ heap'[NewObj].path = p /\ heap'[NewObj].n = 0
         /\ heap'[NewObj].by = [u \in Users |-> 0]
<1>1. Goes(r, h, {"save"}) /\ at'[r].obj = NewObj /\ at[r].pc = "idle" /\ at[r].h = Nil
  <2> PICK o : o = NewObj
    OBVIOUS
  <2>1. at' = [at EXCEPT ![r] = [IdleReq EXCEPT !.pc = "save", !.h = h, !.obj = o]]
    BY DEF Create
  <2> QED BY <2>1 DEF Create, Goes, IdleReq, TInv, Requests, ReqOK
<1> PICK t \in Terms :
     heap' = [heap EXCEPT ![NewObj] =
                [path |-> p, limit |-> t.limit, perUser |-> t.perUser, keep |-> t.keep,
                 expire |-> Expiry(t), n |-> 0, by |-> Zero.by]]
  BY DEF Create
<1> PICK l : l = [path |-> p, limit |-> t.limit, perUser |-> t.perUser, keep |-> t.keep,
                 expire |-> Expiry(t), n |-> 0, by |-> Zero.by]
  OBVIOUS
<1>2. l \in Links /\ l.path = p /\ l.n = 0 /\ l.by = [u \in Users |-> 0]
  BY Expiries DEF Links, Zero, SharesAssumption
<1>3. heap' = [heap EXCEPT ![NewObj] = l] /\ NewObj \in Objs /\ heap \in [Objs -> Links \cup {Nil}]
  BY Room DEF TInv, Mem
<1> HIDE DEF NewObj
<1>4. heap'[NewObj] = l
  BY <1>3
<1> QED BY <1>1, <1>2, <1>3, <1>4

LEMMA EditE ==
  ASSUME SharesAssumption, TInv, NEW r \in Reqs, Edit(r)
  PROVE  /\ Goes(r, Hash(r), {"save"}) /\ at'[r].obj = at[r].obj /\ at[r].pc = "got"
         /\ heap' = [heap EXCEPT ![at[r].obj] = heap'[at[r].obj]]
         /\ heap'[at[r].obj] \in Links /\ heap'[at[r].obj].path = Obj(r).path
         /\ \/ /\ served' = [served EXCEPT ![Hash(r)] = Zero]
               /\ heap'[at[r].obj].n = 0 /\ heap'[at[r].obj].by = [u \in Users |-> 0]
            \/ /\ served' = served /\ SameCounts(heap'[at[r].obj], Obj(r))
               /\ heap'[at[r].obj].limit = Obj(r).limit /\ heap'[at[r].obj].perUser = Obj(r).perUser
<1>a. at[r].pc = "got" /\ at[r] \in ReqRecs /\ Requests
  BY DEF Edit, TInv, Requests
<1>b. Hash(r) \in Hashes /\ at[r].obj \in Objs /\ Obj(r) \in Links /\ heap \in [Objs -> Links \cup {Nil}]
  BY <1>a, Own DEF Holders, TInv, Mem
<1>1. Goes(r, Hash(r), {"save"}) /\ at'[r].obj = at[r].obj
  <2>1. Goes(r, Hash(r), {"save"}) /\ at'[r] = [at[r] EXCEPT !.pc = "save"]
    BY GoesBy DEF Edit
  <2> QED BY <1>a, <2>1 DEF ReqRecs
<1> PICK t \in Terms :
       LET l == Obj(r)
           reset == l.limit # t.limit \/ l.perUser # t.perUser
           new == [l EXCEPT !.limit = t.limit, !.perUser = t.perUser, !.keep = t.keep, !.expire = Expiry(t)]
       IN /\ heap' = [heap EXCEPT ![at[r].obj] = IF reset THEN Counted(new, Zero) ELSE new]
          /\ served' = IF reset THEN [served EXCEPT ![Hash(r)] = Zero] ELSE served
  BY DEF Edit
<1> PICK new : new = [Obj(r) EXCEPT !.limit = t.limit, !.perUser = t.perUser, !.keep = t.keep, !.expire = Expiry(t)]
  OBVIOUS
<1>2. new \in Links /\ new.path = Obj(r).path /\ SameCounts(new, Obj(r)) /\ new.limit = t.limit /\ new.perUser = t.perUser
  BY <1>b, Expiries DEF Links, SharesAssumption, SameCounts
<1> PICK zero : zero = Counted(new, Zero)
  OBVIOUS
<1>3. zero \in Links /\ zero.path = Obj(r).path /\ zero.n = 0 /\ zero.by = [u \in Users |-> 0]
  BY <1>2 DEF Counted, Zero, Links
<1>4. CASE Obj(r).limit # t.limit \/ Obj(r).perUser # t.perUser
  <2>1. heap' = [heap EXCEPT ![at[r].obj] = zero] /\ served' = [served EXCEPT ![Hash(r)] = Zero]
    BY <1>4
  <2>2. heap'[at[r].obj] = zero
    BY <1>b, <2>1
  <2> QED BY <1>a, <1>1, <1>3, <2>1, <2>2
<1>5. CASE ~(Obj(r).limit # t.limit \/ Obj(r).perUser # t.perUser)
  <2>1. heap' = [heap EXCEPT ![at[r].obj] = new] /\ served' = served
    BY <1>5
  <2>2. heap'[at[r].obj] = new
    BY <1>b, <2>1
  <2> QED BY <1>a, <1>1, <1>2, <1>5, <2>1, <2>2
<1> QED BY <1>4, <1>5

LEMMA PatchE ==
  ASSUME SharesAssumption, TInv, NEW r \in Reqs, NEW p \in Paths, Patch(r, p)
  PROVE  /\ Goes(r, Hash(r), {"savepath"}) /\ at'[r].obj = at[r].obj /\ at'[r].arg = p /\ at[r].pc = "got"
         /\ heap' = [heap EXCEPT ![at[r].obj] = heap'[at[r].obj]]
         /\ heap'[at[r].obj] \in Links /\ heap'[at[r].obj].path = p
         /\ SameTerms(heap'[at[r].obj], Obj(r)) /\ SameCounts(heap'[at[r].obj], Obj(r))
<1>a. at[r].pc = "got"
  BY DEF Patch
<1>b. Hash(r) \in Hashes /\ at[r].obj \in Objs /\ Obj(r) \in Links /\ heap \in [Objs -> Links \cup {Nil}]
  BY <1>a, Own DEF Holders, TInv, Mem
<1>1. Goes(r, Hash(r), {"savepath"}) /\ at'[r].obj = at[r].obj /\ at'[r].arg = p
  <2>1. Asks(r, "savepath", p)
    BY DEF Asks, Patch
  <2> QED BY <2>1, GoesBy
<1> PICK new : new = [Obj(r) EXCEPT !.path = p]
  OBVIOUS
<1>2. new \in Links /\ new.path = p /\ SameCounts(new, Obj(r)) /\ SameTerms(new, Obj(r))
  BY <1>b DEF Links, SameTerms, SameCounts
<1>3. heap' = [heap EXCEPT ![at[r].obj] = new]
  BY <1>b DEF Patch, Obj
<1>4. heap'[at[r].obj] = new
  BY <1>b, <1>3
<1> QED BY <1>a, <1>1, <1>2, <1>3, <1>4

LEMMA SaveE ==
  ASSUME TInv, NEW r \in Reqs, Save(r)
  PROVE  /\ at'[r].obj = at[r].obj /\ at'[r].arg = at[r].arg
         /\ \/ at[r].pc = "save" /\ Goes(r, Hash(r), {"recache"})
            \/ at[r].pc = "savepath" /\ Goes(r, Hash(r), {"repath"})
<1> PICK p : p = IF at[r].pc = "save" THEN "recache" ELSE "repath"
  OBVIOUS
<1>1. Goes(r, Hash(r), {p}) /\ at'[r] = [at[r] EXCEPT !.pc = p]
  BY GoesBy DEF Save
<1>2. at[r] \in ReqRecs
  BY DEF TInv, Requests
<1> QED BY <1>1, <1>2 DEF Save, ReqRecs
LEMMA MoveSaveE ==
  ASSUME SharesAssumption, TInv, NEW h \in Hashes, MoveSave(h)
  PROVE  /\ h \in mover.todo /\ mover.h = Nil /\ mover.obj = Nil /\ mover.read[h] \in Links /\ mover.new \in Paths
         /\ mover'.old = mover.old /\ mover'.new = mover.new /\ mover'.read = mover.read /\ mover'.todo = mover.todo
         /\ mover'.h = h /\ mover'.obj = NewObj
         /\ bolt' = [bolt EXCEPT ![h] = [mover.read[h] EXCEPT !.path = mover.new]]
         /\ heap' = [heap EXCEPT ![NewObj] = bolt'[h]]
<1>1. mover \in MoverRecs /\ MoverOK(mover) /\ mover.h = Nil /\ h \in mover.todo
  BY DEF MoveSave, TInv, Moving
<1>2. mover.old # Nil
  BY <1>1 DEF MoverOK, NoMove
<1>3. mover.new \in Paths
  BY <1>1, <1>2 DEF MoverOK, SharesAssumption
<1> PICK o : o = NewObj
  OBVIOUS
<1>4. mover' = [mover EXCEPT !.h = h, !.obj = o]
  BY DEF MoveSave
<1>5. bolt' = [bolt EXCEPT ![h] = [mover.read[h] EXCEPT !.path = mover.new]] /\ bolt \in [Hashes -> Links \cup {Nil}]
  BY DEF MoveSave, TInv, Basic
<1>6. heap' = [heap EXCEPT ![NewObj] = bolt'[h]]
  BY <1>5 DEF MoveSave
<1> QED BY <1>1, <1>3, <1>4, <1>5, <1>6 DEF MoverRecs, MoverOK

LEMMA MoveCacheE ==
  ASSUME SharesAssumption, TInv, NEW h \in Hashes, MoveCache(h)
  PROVE  /\ mover.h = h /\ h \in mover.todo /\ mover.obj \in Objs /\ mover.new \in Paths
         /\ \/ mover.todo = {h} /\ mover' = NoMove
            \/ /\ mover.todo # {h} /\ mover'.todo = mover.todo \ {h} /\ mover'.h = Nil /\ mover'.obj = Nil
               /\ mover'.old = mover.old /\ mover'.new = mover.new /\ mover'.read = mover.read
<1>1. mover \in MoverRecs /\ MoverOK(mover) /\ mover.h = h /\ h # Nil
  BY DEF MoveCache, TInv, Moving, SharesAssumption
<1>2. mover.old # Nil
  BY <1>1 DEF MoverOK, NoMove
<1>3. mover.new \in Paths /\ h \in mover.todo /\ mover.obj \in Objs
  BY <1>1, <1>2 DEF MoverOK, MoverRecs, SharesAssumption
<1>4. CASE mover.todo = {h}
  BY <1>1, <1>3, <1>4 DEF MoveCache
<1>5. CASE mover.todo # {h}
  <2>1. mover' = [mover EXCEPT !.todo = @ \ {h}, !.h = Nil, !.obj = Nil]
    BY <1>5 DEF MoveCache
  <2> QED BY <1>1, <1>3, <1>5, <2>1 DEF MoverRecs
<1> QED BY <1>4, <1>5

-------------------------------------------------------------------------------
(* Objects belong to one link each                                             *)

LEMMA TurnOwned ==
  ASSUME SharesAssumption, TInv, Owned, NEW r \in Reqs, \A s \in Reqs : s # r => at'[s] = at[s], NEW g \in Hashes,
         at'[r].obj = Nil \/ (at'[r].h = g /\ (Belongs(at'[r].obj, g) \/ at'[r].obj \notin InUse)),
         \A h \in Hashes : cache'[h] = cache[h] \/ cache'[h] = Nil \/ (h = g /\ Belongs(cache'[h], g)),
         UNCHANGED <<flush, mover>>
  PROVE  Owned'
<1>1. ASSUME NEW h \in Hashes, NEW o \in Objs, Belongs(o, h)'
      PROVE  Belongs(o, h) \/ (h = g /\ o \notin InUse)
  <2>1. o # Nil
    BY DEF SharesAssumption
  <2>2. CASE cache'[h] = o
    BY <2>1, <2>2 DEF Belongs
  <2>3. ASSUME NEW s \in Reqs, at'[s].h = h, at'[s].obj = o
        PROVE  Belongs(o, h) \/ (h = g /\ o \notin InUse)
    <3>1. CASE s = r
      BY <2>1, <2>3, <3>1
    <3>2. CASE s # r
      BY <2>3, <3>2 DEF Belongs
    <3> QED BY <3>1, <3>2
  <2>4. CASE flush' # Nil /\ <<h, o>> \in flush'
    BY <2>4 DEF Belongs
  <2>5. CASE mover'.h = h /\ mover'.obj = o
    BY <2>5 DEF Belongs
  <2> QED BY <1>1, <2>2, <2>3, <2>4, <2>5 DEF Belongs
<1> QED BY <1>1, OwnedNext

\* Requests that keep the objects they have, or let go of them.
LEMMA KeepOwned ==
  ASSUME SharesAssumption, TInv, Owned, NEW r \in Reqs, NEW g \in Hashes, NEW places,
         Goes(r, g, places) \/ Goes(r, Nil, places), at'[r].obj = Nil \/ (at'[r].obj = at[r].obj /\ at[r].h = g /\ at'[r].h = g),
         UNCHANGED <<cache, flush, mover>>
  PROVE  Owned'
<1>1. \A s \in Reqs : s # r => at'[s] = at[s]
  BY DEF Goes
<1>2. at'[r].obj = Nil \/ (at'[r].h = g /\ (Belongs(at'[r].obj, g) \/ at'[r].obj \notin InUse))
  BY DEF Belongs
<1> QED BY <1>1, <1>2, TurnOwned

LEMMA GetStoredOwned ==
  ASSUME SharesAssumption, TInv, Owned, NEW r \in Reqs, GetStored(r) \/ \E gets \in BOOLEAN : ListRead(r, gets)
  PROVE  Owned'
<1>1. at[r].pc # "idle" /\ UNCHANGED <<cache, flush, mover>>
  BY DEF GetStored, ListRead
<1>2. Hash(r) \in Hashes
  BY <1>1, Its
<1>3. NewObj \notin InUse
  BY Fresh
<1>4. (\A s \in Reqs : s # r => at'[s] = at[s]) /\ (at'[r].obj = Nil \/ (at'[r].h = Hash(r) /\ at'[r].obj \notin InUse))
  BY <1>3, GetStoredE, ListReadE DEF Goes
<1> QED BY <1>1, <1>2, <1>4, TurnOwned

LEMMA RequestOwned ==
  ASSUME SharesAssumption, TInv, Owned, NEW r \in Reqs, Request(r)
  PROVE  Owned'
<1>1. at[r].pc # "idle"
  BY DEF Request, GetCached, GetStored, Fill, Purge, Leave, ListFill, ListRead, Count, CountUser, Check, Unbolt, Uncache, Edit,
         Save, SaveFails, Recache, Repath, Patch
<1>2. Hash(r) \in Hashes /\ Hash(r) = at[r].h
  BY <1>1, Its DEF Hash
<1>3. CASE GetCached(r)
  <2>1. (\A s \in Reqs : s # r => at'[s] = at[s]) /\ (at'[r].obj = Nil \/ (at'[r].h = Hash(r) /\ at'[r].obj = cache[Hash(r)]))
    BY <1>3, GetCachedE DEF Goes
  <2>2. Belongs(cache[Hash(r)], Hash(r)) /\ UNCHANGED <<cache, flush, mover>>
    BY <1>3 DEF Belongs, GetCached
  <2> QED BY <1>2, <2>1, <2>2, TurnOwned
<1>4. CASE GetStored(r) \/ \E gets \in BOOLEAN : ListRead(r, gets)
  BY <1>4, GetStoredOwned
<1>5. ASSUME Fill(r) \/ ListFill(r) \/ Recache(r) \/ Uncache(r)
      PROVE  Owned'
  <2>1. /\ \A s \in Reqs : s # r => at'[s] = at[s]
        /\ at'[r].obj = Nil \/ (at'[r].h = Hash(r) /\ at'[r].obj = at[r].obj)
    BY <1>5, FillE, ListFillE, RepliesE DEF Goes
  <2>2. Belongs(at[r].obj, Hash(r))
    BY <1>2 DEF Belongs
  <2>3. \A h \in Hashes : cache'[h] = cache[h] \/ cache'[h] = Nil \/ (h = Hash(r) /\ cache'[h] = at[r].obj)
    BY <1>2, <1>5 DEF Fill, ListFill, Recache, Uncache, TInv, Basic
  <2>4. UNCHANGED <<flush, mover>>
    BY <1>5 DEF Fill, ListFill, Recache, Uncache
  <2> QED BY <1>2, <2>1, <2>2, <2>3, <2>4, TurnOwned
<1>6. ASSUME \/ Purge(r) \/ Leave(r) \/ CountUser(r) \/ Unbolt(r) \/ SaveFails(r) \/ Repath(r) \/ Count(r) \/ Edit(r) \/ Save(r)
             \/ (\E c \in Callers : Check(r, c)) \/ (\E p \in Paths : Patch(r, p))
      PROVE  Owned'
  <2>1. UNCHANGED <<cache, flush, mover>>
    BY <1>6 DEF Purge, Leave, CountUser, Unbolt, SaveFails, Repath, Count, Edit, Save, Check, Patch
  <2>2. /\ \A s \in Reqs : s # r => at'[s] = at[s]
        /\ at'[r].obj = Nil \/ (at'[r].obj = at[r].obj /\ at'[r].h = Hash(r))
    BY <1>6, PurgeE, RepliesE, UnboltE, CountE, EditE, SaveE, CheckE, PatchE DEF Goes
  <2>3. Belongs(at[r].obj, Hash(r))
    BY <1>2 DEF Belongs
  <2> QED BY <1>2, <2>1, <2>2, <2>3, TurnOwned
<1> QED BY <1>3, <1>4, <1>5, <1>6 DEF Request

LEMMA OwnedStep ==
  ASSUME SharesAssumption, TInv, Owned, [Next]_vars
  PROVE  Owned'
<1>0. Nil \notin Objs /\ Nil \notin Hashes
  BY DEF SharesAssumption
<1>1. ASSUME NEW r \in Reqs, NEW h \in Hashes, Open(r, h) PROVE Owned'
  <2>1. Goes(r, h, {"get", "list"}) /\ at'[r].obj = Nil
    BY <1>1, OpenE
  <2> QED BY <1>1, <2>1, KeepOwned DEF Open
<1>2. ASSUME NEW r \in Reqs, NEW h \in Hashes, NEW p \in Paths, Create(r, h, p) PROVE Owned'
  <2>1. Goes(r, h, {"save"}) /\ at'[r].obj = NewObj
    BY <1>2, CreateE
  <2>2. (\A s \in Reqs : s # r => at'[s] = at[s]) /\ at'[r].h = h /\ at'[r].obj \notin InUse
    BY <2>1, Fresh DEF Goes
  <2> QED BY <1>2, <2>2, TurnOwned DEF Create
<1>3. ASSUME NEW m \in Moves, Rename(m[1], m[2]) PROVE Owned'
  <2>1. mover.h = Nil /\ mover'.h = Nil /\ UNCHANGED <<cache, at, flush>>
    BY <1>3 DEF Rename, NoMove
  <2> QED BY <1>0, <2>1 DEF Owned, Belongs
<1>4. CASE UpdateShares
  <2>1. ASSUME MoveRead \/ MoveSaveFails PROVE Owned'
    <3>1. mover.h = Nil /\ mover'.h = Nil /\ UNCHANGED <<cache, at, flush>>
      <4>1. mover.h = Nil /\ mover \in MoverRecs /\ UNCHANGED <<cache, at, flush>>
        BY <2>1 DEF MoveRead, MoveSaveFails, TInv, Moving, MoverOK
      <4>2. mover'.h = mover.h \/ mover'.h = NoMove.h
        BY <2>1, <4>1 DEF MoveRead, MoveSaveFails, MoverRecs
      <4> QED BY <4>1, <4>2 DEF NoMove
    <3> QED BY <1>0, <3>1 DEF Owned, Belongs
  <2>2. ASSUME NEW h \in Hashes, MoveSave(h) PROVE Owned'
    <3>1. mover.h = Nil /\ mover'.h = h /\ mover'.obj = NewObj /\ UNCHANGED <<cache, at, flush>>
      BY <2>2 DEF MoveSave, TInv, Moving, MoverRecs
    <3>2. NewObj \notin InUse
      BY Fresh
    <3>3. \A g \in Hashes, o \in Objs : Belongs(o, g)' => Belongs(o, g) \/ (g = h /\ o \notin InUse)
      BY <3>1, <3>2 DEF Belongs
    <3> QED BY <3>3, OwnedNext
  <2>3. ASSUME NEW h \in Hashes, MoveCache(h) PROVE Owned'
    <3>1. mover.h = h /\ mover'.h = Nil /\ UNCHANGED <<at, flush>>
      BY <2>3 DEF MoveCache, NoMove, TInv, Moving, MoverRecs
    <3>2. \A g \in Hashes : cache'[g] = cache[g] \/ (g = h /\ cache'[g] = mover.obj)
      BY <2>3 DEF MoveCache, TInv, Basic
    <3>3. \A g \in Hashes, o \in Objs : Belongs(o, g)' => Belongs(o, g) \/ (g = h /\ o \notin InUse)
      BY <1>0, <3>1, <3>2 DEF Belongs
    <3> QED BY <3>3, OwnedNext
  <2> QED BY <1>4, <2>1, <2>2, <2>3 DEF UpdateShares
<1>5. CASE Flush
  BY <1>5 DEF Flush, Owned, Belongs
<1>6. CASE flush # Nil /\ (FlushFails \/ \E e \in flush : FlushSave(e))
  <2>1. flush' \subseteq flush /\ UNCHANGED <<cache, at, mover>> /\ flush # Nil
    BY <1>6 DEF FlushFails, FlushSave
  <2> QED BY <2>1 DEF Owned, Belongs
<1>7. CASE Exit \/ Crash
  <2>1. Ends
    BY <1>7 DEF Exit, Crash
  <2>2. (\A h \in Hashes : cache'[h] = Nil) /\ (\A r \in Reqs : at'[r].h = Nil) /\ flush' = Nil /\ mover'.h = Nil
    BY <2>1 DEF Ends, IdleReq, NoMove
  <2> QED BY <1>0, <2>2 DEF Owned, Belongs
<1>8. CASE Tick \/ UNCHANGED vars
  BY <1>8 DEF Tick, vars, Owned, Belongs
<1> QED BY <1>1, <1>2, <1>3, <1>4, <1>5, <1>6, <1>7, <1>8, RequestOwned DEF Next
-------------------------------------------------------------------------------
(* A deleted link stays deleted                                                *)

\* The excuses stay.
LEMMA Mono ==
  ASSUME TInv, NEW add, \A h \in Hashes : add[h] \subseteq Excuses, Note(add), NEW h \in Hashes
  PROVE  excuse[h] \subseteq excuse'[h] /\ add[h] \subseteq excuse'[h]
BY Noted DEF TInv, Basic

Dying(h) == \E r \in Reqs : Is(r, h, {"uncache", "drop"})

\* A step that brings nothing back.
LEMMA QuietGone ==
  ASSUME NEW h, Gone(h), excuse[h] \subseteq excuse'[h], Writes(h)' => Writes(h), bolt'[h] \in {bolt[h], Nil},
         cache'[h] \in {cache[h], Nil}, Dying(h)' => Dying(h) \/ bolt'[h] = Nil, h \in gone' => h \in gone, born \subseteq born'
  PROVE  Gone(h)'
BY DEF Gone, Dead, Dying

\* A step on a link that is not deleted.
LEMMA LiveGone ==
  ASSUME NEW h, Gone(h), excuse[h] \subseteq excuse'[h], "delete" \notin excuse'[h] => ~Dead(h),
         Dying(h)' => Dying(h) /\ bolt'[h] = bolt[h], h \in gone' => h \in gone
  PROVE  Gone(h)'
BY DEF Gone, Dying

\* Someone who may write the link back.
LEMMA WritingGone ==
  ASSUME NEW h, Gone(h), Known(h), excuse[h] \subseteq excuse'[h], Writes(h), Dying(h)' => Dying(h), h \in gone' => h \in gone
  PROVE  Gone(h)'
<1>1. "delete" \notin excuse'[h] => ~Dead(h) /\ ~Dying(h)
  BY DEF Known, Dying, Deletes, Dead, Is
<1> QED BY <1>1 DEF Gone, Dying

\* A request that leaves the link alone, or only looks at it.
LEMMA LookGone ==
  ASSUME NEW h \in Hashes, NEW r \in Reqs, Gone(h), excuse[h] \subseteq excuse'[h], \A s \in Reqs : s # r => at'[s] = at[s],
         at'[r].h = h => at'[r].pc \notin {"save", "savepath", "recache", "repath", "fill", "listfill", "uncache", "drop"},
         bolt'[h] \in {bolt[h], Nil}, cache'[h] \in {cache[h], Nil}, UNCHANGED <<flush, mover>>,
         h \in gone' => h \in gone, born \subseteq born'
  PROVE  Gone(h)'
<1>1. Writes(h)' => Writes(h)
  BY DEF Writes, Is
<1>2. Dying(h)' => Dying(h)
  BY DEF Dying, Is
<1> QED BY <1>1, <1>2, QuietGone

\* A request that writes the link, or deletes it.
LEMMA RequestDying ==
  ASSUME NEW h \in Hashes, NEW r \in Reqs, \A s \in Reqs : s # r => at'[s] = at[s],
         at'[r].h = h => at'[r].pc \notin {"uncache", "drop"}
  PROVE  Dying(h)' => Dying(h)
BY DEF Dying, Is

LEMMA NewsGone ==
  ASSUME SharesAssumption, TInv, NEW h \in Hashes, Gone(h), NEW r \in Reqs,
         GetStored(r) \/ (\E gets \in BOOLEAN : ListRead(r, gets))
  PROVE  Gone(h)'
<1>1. excuse[h] \subseteq excuse'[h] /\ UNCHANGED <<bolt, cache, flush, mover, gone, born>>
  BY Mono, Adds DEF GetStored, ListRead
<1>2. CASE at'[r].h # h \/ at'[r].pc \notin {"fill", "listfill"}
  <2>1. (\A s \in Reqs : s # r => at'[s] = at[s]) /\ at'[r].pc \in {"idle", "purge", "purgebolt", "fill", "listfill"}
    BY GetStoredE, ListReadE DEF Goes
  <2> QED BY <1>1, <1>2, <2>1, LookGone
<1>3. CASE at'[r].h = h /\ at'[r].pc \in {"fill", "listfill"}
  <2>1. (\A s \in Reqs : s # r => at'[s] = at[s]) /\ bolt[h] # Nil
    BY <1>3, GetStoredE, ListReadE DEF Goes
  <2>2. ~Dead(h)
    BY <2>1 DEF Dead
  <2>3. Dying(h)' => Dying(h)
    BY <1>3, <2>1, RequestDying
  <2> QED BY <1>1, <2>2, <2>3, LiveGone
<1> QED BY <1>2, <1>3

LEMMA RequestGone ==
  ASSUME SharesAssumption, TInv, NEW h \in Hashes, Gone(h), Known(h), NEW r \in Reqs, Request(r)
  PROVE  Gone(h)'
<1>1. at[r].pc # "idle"
  BY DEF Request, GetCached, GetStored, Fill, Purge, Leave, ListFill, ListRead, Count, CountUser, Check, Unbolt, Uncache, Edit,
         Save, SaveFails, Recache, Repath, Patch
<1>2. Hash(r) \in Hashes /\ Hash(r) = at[r].h
  BY <1>1, Its DEF Hash
<1>m. excuse[h] \subseteq excuse'[h]
  <2>1. \A g \in Hashes : /\ Nothing[g] \subseteq Excuses /\ Late(Hash(r))[g] \subseteq Excuses
                          /\ Only(Hash(r), "left")[g] \subseteq Excuses /\ Only(Hash(r), "unsaved")[g] \subseteq Excuses
                          /\ Detached(r)[g] \subseteq Excuses /\ Doubled(r)[g] \subseteq Excuses
    BY <1>2, Adds, Lates, Detachments DEF Excuses
  <2>2. PICK add : Note(add) /\ \A g \in Hashes : add[g] \subseteq Excuses
    BY <2>1 DEF Request, GetCached, GetStored, Fill, Purge, Leave, ListFill, ListRead, Count, CountUser, Check, Unbolt, Uncache,
         Edit, Save, SaveFails, Recache, Repath, Patch
  <2> QED BY <2>2, Mono
<1>3. ASSUME \/ GetCached(r) \/ Leave(r) \/ CountUser(r) \/ Count(r) \/ SaveFails(r) \/ Repath(r) \/ (\E c \in Callers : Check(r, c))
      PROVE  Gone(h)'
  <2>1. UNCHANGED <<bolt, cache, flush, mover, gone, born>>
    BY <1>3 DEF GetCached, Leave, CountUser, Count, SaveFails, Repath, Check
  <2>2. /\ \A s \in Reqs : s # r => at'[s] = at[s]
        /\ at'[r].pc \in {"idle", "purge", "got", "count", "countview", "countuser"}
    BY <1>3, GetCachedE, RepliesE, CountE, CheckE DEF Goes
  <2> QED BY <1>m, <2>1, <2>2, LookGone
<1>4. CASE GetStored(r) \/ \E gets \in BOOLEAN : ListRead(r, gets)
  BY <1>4, NewsGone
<1>5. ASSUME Fill(r) \/ ListFill(r) \/ Recache(r) \/ Save(r), at[r].h = h
      PROVE  Gone(h)'
  <2>1. Writes(h)
    BY <1>5 DEF Writes, Is, Fill, ListFill, Recache, Save
  <2>2. /\ \A s \in Reqs : s # r => at'[s] = at[s]
        /\ at'[r].pc \in {"idle", "got", "orphan", "recache", "repath"}
    BY <1>5, FillE, ListFillE, RepliesE, SaveE DEF Goes
  <2>3. Dying(h)' => Dying(h)
    BY <2>2, RequestDying
  <2>4. gone' = gone
    BY <1>5 DEF Fill, ListFill, Recache, Save
  <2> QED BY <1>m, <2>1, <2>3, <2>4, WritingGone
<1>6. ASSUME Fill(r) \/ ListFill(r) \/ Recache(r) \/ Save(r) \/ Purge(r) \/ Unbolt(r) \/ Edit(r) \/ (\E p \in Paths : Patch(r, p)), at[r].h # h
      PROVE  Gone(h)'
  <2>1. bolt'[h] = bolt[h] /\ cache'[h] = cache[h] /\ UNCHANGED <<flush, mover, gone, born>>
    BY <1>2, <1>6 DEF Fill, ListFill, Recache, Save, Purge, Unbolt, Edit, Patch, TInv, Basic
  <2>2. /\ \A s \in Reqs : s # r => at'[s] = at[s]
        /\ at'[r].h # h
    BY <1>2, <1>6, FillE, ListFillE, RepliesE, SaveE, PurgeE, UnboltE, EditE, PatchE DEF Goes, SharesAssumption
  <2> QED BY <1>m, <2>1, <2>2, LookGone
<1>7. ASSUME Purge(r) \/ Unbolt(r), at[r].h = h
      PROVE  Gone(h)'
  <2>1. bolt'[h] = Nil /\ UNCHANGED <<cache, flush, mover, gone, born>>
    BY <1>2, <1>7 DEF Purge, Unbolt, TInv, Basic
  <2>2. /\ \A s \in Reqs : s # r => at'[s] = at[s]
        /\ at'[r].pc \in {"idle", "drop", "uncache"}
    BY <1>7, PurgeE, UnboltE DEF Goes
  <2>3. Writes(h)' => Writes(h)
    BY <2>1, <2>2 DEF Writes, Is
  <2> QED BY <1>m, <2>1, <2>3, QuietGone
<1>8. ASSUME Edit(r) \/ (\E p \in Paths : Patch(r, p)), at[r].h = h
      PROVE  Gone(h)'
  <2>1. UNCHANGED <<bolt, cache, flush, mover, gone, born>> /\ at[r].pc = "got" /\ Note(Detached(r))
    BY <1>8 DEF Edit, Patch
  <2>2. /\ \A s \in Reqs : s # r => at'[s] = at[s]
        /\ at'[r].pc \in {"save", "savepath"}
    BY <1>8, EditE, PatchE DEF Goes
  <2>3. "delete" \notin excuse'[h] => cache[h] # Nil
    <3>1. at[r].obj # Nil
      BY <2>1 DEF TInv, Requests, ReqOK, Holders
    <3>2. Detached(r)[h] \subseteq excuse'[h]
      BY <1>2, <2>1, Detachments, Mono
    <3>3. cache[h] # at[r].obj => "delete" \in Detached(r)[h]
      BY <1>2, <1>8, Adds DEF Detached, Excuses
    <3> QED BY <3>1, <3>2, <3>3
  <2>4. "delete" \notin excuse'[h] => ~Dead(h)
    BY <2>3 DEF Dead
  <2>5. Dying(h)' => Dying(h)
    BY <2>2, RequestDying
  <2> QED BY <1>m, <2>1, <2>4, <2>5, LiveGone
<1>9. CASE Uncache(r)
  <2>1. /\ Goes(r, Nil, {"idle"}) /\ UNCHANGED <<bolt, flush, mover, born>> /\ at[r].pc \in {"uncache", "drop"}
        /\ cache' = [cache EXCEPT ![Hash(r)] = Nil] /\ gone' \subseteq gone \cup {Hash(r)}
    BY <1>9, RepliesE DEF Uncache
  <2>2. CASE at[r].h = h
    <3>1. cache'[h] = Nil /\ Dying(h) /\ Deletes(h) /\ h \in born
      BY <1>1, <1>2, <2>1, <2>2, Its DEF TInv, Basic, Dying, Deletes, Is
    <3>2. Writes(h)' => Writes(h)
      BY <2>1 DEF Writes, Is, Goes
    <3>3. "delete" \notin excuse'[h] => Dead(h)'
      <4> SUFFICES ASSUME "delete" \notin excuse'[h] PROVE Dead(h)'
        OBVIOUS
      <4>1. bolt[h] = Nil /\ ~Writes(h)
        BY <1>m, <3>1 DEF Gone, Known, Dying
      <4> QED BY <2>1, <3>1, <3>2, <4>1 DEF Dead
    <3>4. "delete" \notin excuse'[h] => bolt'[h] = Nil
      BY <3>3 DEF Dead
    <3> QED BY <3>3, <3>4 DEF Gone
  <2>3. CASE at[r].h # h
    <3>1. bolt'[h] = bolt[h] /\ cache'[h] = cache[h] /\ (h \in gone' => h \in gone)
      BY <1>2, <2>1, <2>3 DEF TInv, Basic
    <3> QED BY <1>m, <2>1, <3>1, LookGone DEF Goes
  <2> QED BY <2>2, <2>3
<1> QED BY <1>3, <1>4, <1>5, <1>6, <1>7, <1>8, <1>9 DEF Request
(* Every step notes what it excuses.                                           *)
LEMMA Noting ==
  ASSUME SharesAssumption, TInv, Next
  PROVE  \E add : Note(add) /\ \A g \in Hashes : add[g] \subseteq Excuses
<1>0. \A g \in Hashes : Nothing[g] \subseteq Excuses
  BY DEF Nothing
<1>1. ASSUME NEW r \in Reqs, Request(r)
      PROVE  \E add : Note(add) /\ \A g \in Hashes : add[g] \subseteq Excuses
  <2>1. at[r].pc # "idle"
    BY <1>1 DEF Request, GetCached, GetStored, Fill, Purge, Leave, ListFill, ListRead, Count, CountUser, Check, Unbolt,
         Uncache, Edit, Save, SaveFails, Recache, Repath, Patch
  <2>2. Hash(r) \in Hashes
    BY <2>1, Its DEF Hash
  <2>3. \A g \in Hashes : /\ Late(Hash(r))[g] \subseteq Excuses
                          /\ Only(Hash(r), "left")[g] \subseteq Excuses /\ Only(Hash(r), "unsaved")[g] \subseteq Excuses
                          /\ Detached(r)[g] \subseteq Excuses /\ Doubled(r)[g] \subseteq Excuses
    BY <2>2, Adds, Lates, Detachments DEF Excuses
  <2> QED BY <1>0, <1>1, <2>3 DEF Request, GetCached, GetStored, Fill, Purge, Leave, ListFill, ListRead, Count, CountUser,
         Check, Unbolt, Uncache, Edit, Save, SaveFails, Recache, Repath, Patch
<1>2. ASSUME NEW m \in Moves, Rename(m[1], m[2])
      PROVE  \E add : Note(add) /\ \A g \in Hashes : add[g] \subseteq Excuses
  <2> PICK add : add = [h \in Hashes |-> {x \in {"inside"} : target[h] # Nil /\ target[h] # m[1]
                                                /\ Within(target[h], m[1])}]
    OBVIOUS
  <2>1. Note(add)
    BY <1>2 DEF Rename
  <2>2. \A g \in Hashes : add[g] \subseteq Excuses
    BY DEF Excuses
  <2> QED BY <2>1, <2>2
<1>3. CASE UpdateShares
  <2>1. ASSUME NEW h \in Hashes, MoveSave(h)
        PROVE  \E add : Note(add) /\ \A g \in Hashes : add[g] \subseteq Excuses
    <3>1. \A g \in Hashes : Only(h, "late")[g] \subseteq Excuses
      BY Adds DEF Excuses
    <3> QED BY <1>0, <2>1, <3>1 DEF MoveSave
  <2>2. ASSUME MoveSaveFails
        PROVE  \E add : Note(add) /\ \A g \in Hashes : add[g] \subseteq Excuses
    <3> PICK add : add = [h \in Hashes |-> {x \in {"unsaved"} : h \in mover.todo}]
      OBVIOUS
    <3>1. Note(add)
      BY <2>2 DEF MoveSaveFails
    <3>2. \A g \in Hashes : add[g] \subseteq Excuses
      BY DEF Excuses
    <3> QED BY <3>1, <3>2
  <2> QED BY <1>0, <1>3, <2>1, <2>2 DEF UpdateShares, MoveRead, MoveCache
<1>4. CASE flush # Nil /\ FlushFails
  <2> PICK add : add = [h \in Hashes |-> {x \in {"unsaved"} : Flushing(h, flush)}]
    OBVIOUS
  <2>1. Note(add)
    BY <1>4 DEF FlushFails
  <2>2. \A g \in Hashes : add[g] \subseteq Excuses
    BY DEF Excuses
  <2> QED BY <2>1, <2>2
<1>5. CASE Exit \/ Crash
  <2> PICK add : add = [h \in Hashes |-> {x \in {"cut"} : mover # NoMove}
                             \cup {x \in {"late"} : \E r \in Reqs : Hash(r) = h /\ at[r].pc = "countuser"}]
    OBVIOUS
  <2>1. Note(add)
    BY <1>5 DEF Exit, Crash, Ends
  <2>2. \A g \in Hashes : add[g] \subseteq Excuses
    BY DEF Excuses
  <2> QED BY <2>1, <2>2
<1> QED BY <1>0, <1>1, <1>2, <1>3, <1>4, <1>5 DEF Next, Open, Create, Flush, FlushSave, Tick

LEMMA Grows ==
  ASSUME SharesAssumption, TInv, [Next]_vars, NEW h \in Hashes
  PROVE  excuse[h] \subseteq excuse'[h]
<1>1. CASE Next
  <2>1. PICK add : Note(add) /\ \A g \in Hashes : add[g] \subseteq Excuses
    BY <1>1, Noting
  <2> QED BY <2>1, Mono
<1>2. CASE UNCHANGED vars
  BY <1>2 DEF vars
<1> QED BY <1>1, <1>2

LEMMA KnownStep ==
  ASSUME SharesAssumption, TInv, [Next]_vars, NEW h \in Hashes, Known(h)
  PROVE  Known(h)'
<1>1. CASE Next
  <2>1. PICK add : Note(add) /\ \A g \in Hashes : add[g] \subseteq Excuses
    BY <1>1, Noting
  <2> QED BY <2>1, Knows
<1>2. CASE UNCHANGED vars
  BY <1>2 DEF vars, Known, Deletes, Writes, Edits, Saves, Is
<1> QED BY <1>1, <1>2

LEMMA GoneStep ==
  ASSUME SharesAssumption, TInv, [Next]_vars, NEW h \in Hashes, Known(h), Gone(h)
  PROVE  Gone(h)'
<1>m. excuse[h] \subseteq excuse'[h]
  BY Grows
<1>0. Nil \notin Hashes
  BY DEF SharesAssumption
<1>1. ASSUME NEW r \in Reqs, NEW g \in Hashes, Open(r, g) PROVE Gone(h)'
  <2>1. Goes(r, g, {"get", "list"}) /\ UNCHANGED <<bolt, cache, flush, mover, gone, born>>
    BY <1>1, OpenE DEF Open
  <2> QED BY <1>m, <2>1, LookGone DEF Goes
<1>2. ASSUME NEW r \in Reqs, NEW g \in Hashes, NEW p \in Paths, Create(r, g, p) PROVE Gone(h)'
  <2>1. /\ Goes(r, g, {"save"}) /\ UNCHANGED <<bolt, cache, flush, mover, gone>>
        /\ g \notin born /\ born' = born \cup {g}
    BY <1>2, CreateE DEF Create
  <2>2. CASE g = h
    <3>1. ~Dead(h)
      BY <2>1, <2>2 DEF Dead
    <3>2. Dying(h)' => Dying(h)
      BY <2>1, RequestDying DEF Goes
    <3> QED BY <1>m, <2>1, <3>1, <3>2, LiveGone
  <2>3. CASE g # h
    BY <1>m, <2>1, <2>3, LookGone DEF Goes
  <2> QED BY <2>2, <2>3
<1>3. ASSUME NEW m \in Moves, Rename(m[1], m[2]) PROVE Gone(h)'
  <2>1. mover'.todo = {} /\ UNCHANGED <<bolt, cache, flush, at, gone, born>>
    BY <1>3 DEF Rename, NoMove
  <2>2. Writes(h)' => Writes(h)
    BY <2>1 DEF Writes, Is
  <2>3. Dying(h)' => Dying(h)
    BY <2>1 DEF Dying, Is
  <2> QED BY <1>m, <2>1, <2>2, <2>3, QuietGone
<1>4. CASE UpdateShares
  <2>1. UNCHANGED <<flush, at, gone, born>>
    BY <1>4 DEF UpdateShares, MoveRead, MoveSaveFails, MoveSave, MoveCache
  <2>2. Dying(h)' => Dying(h)
    BY <2>1 DEF Dying, Is
  <2>a. mover \in MoverRecs /\ MoverOK(mover)
    BY DEF TInv, Moving
  <2>3. CASE MoveRead
    <3>1. UNCHANGED <<bolt, cache>> /\ (h \in mover'.todo => bolt[h] # Nil)
      BY <2>3, <2>a DEF MoveRead, MoverRecs, NoMove
    <3>2. CASE bolt[h] # Nil
      <4>1. ~Dead(h)
        BY <3>2 DEF Dead
      <4> QED BY <1>m, <2>1, <2>2, <3>1, <4>1, LiveGone
    <3>3. CASE bolt[h] = Nil
      <4>1. Writes(h)' => Writes(h)
        BY <2>1, <3>1, <3>3 DEF Writes, Is
      <4> QED BY <1>m, <2>1, <2>2, <3>1, <4>1, QuietGone
    <3> QED BY <3>2, <3>3
  <2>4. CASE MoveSaveFails
    <3>1. UNCHANGED <<bolt, cache>> /\ h \notin mover'.todo
      BY <2>4 DEF MoveSaveFails, NoMove
    <3>2. Writes(h)' => Writes(h)
      BY <2>1, <3>1 DEF Writes, Is
    <3> QED BY <1>m, <2>1, <2>2, <3>1, <3>2, QuietGone
  <2>5. ASSUME NEW g \in Hashes, MoveSave(g) \/ MoveCache(g) PROVE Gone(h)'
    <3>1. g \in mover.todo
      BY <1>0, <2>5, <2>a DEF MoveSave, MoveCache, MoverOK
    <3>2. CASE g = h
      <4>1. Writes(h)
        BY <3>1, <3>2 DEF Writes
      <4> QED BY <1>m, <2>1, <2>2, <4>1, WritingGone
    <3>3. CASE g # h
      <4>a. bolt'[h] = bolt[h] /\ cache'[h] = cache[h]
        BY <2>5, <3>3 DEF MoveSave, MoveCache, TInv, Basic
      <4>b. ASSUME MoveSave(g) PROVE mover'.todo = mover.todo
        BY <4>b, <2>a DEF MoveSave, MoverRecs
      <4>c. ASSUME MoveCache(g) PROVE mover'.todo = {} \/ mover'.todo = mover.todo \ {g}
        BY <4>c, MoveCacheE DEF NoMove
      <4>1. bolt'[h] = bolt[h] /\ cache'[h] = cache[h] /\ (h \in mover'.todo => h \in mover.todo)
        BY <2>5, <4>a, <4>b, <4>c DEF MoveSave
      <4>2. Writes(h)' => Writes(h)
        BY <2>1, <4>1 DEF Writes, Is
      <4> QED BY <1>m, <2>1, <2>2, <4>1, <4>2, QuietGone
    <3> QED BY <3>2, <3>3
  <2> QED BY <1>4, <2>3, <2>4, <2>5 DEF UpdateShares
<1>5. CASE Flush
  <2>1. UNCHANGED <<bolt, cache, at, mover, gone, born>>
    BY <1>5 DEF Flush
  <2>2. Dying(h)' => Dying(h)
    BY <2>1 DEF Dying, Is
  <2>3. CASE cache[h] # Nil
    <3>1. ~Dead(h)
      BY <2>3 DEF Dead
    <3> QED BY <1>m, <2>1, <2>2, <3>1, LiveGone
  <2>4. CASE cache[h] = Nil
    <3>1. \A e \in flush' : e[1] # h
      BY <1>5, <2>4 DEF Flush
    <3>2. Writes(h)' => Writes(h)
      BY <2>1, <3>1 DEF Writes, Is
    <3> QED BY <1>m, <2>1, <2>2, <3>2, QuietGone
  <2> QED BY <2>3, <2>4
<1>6. ASSUME flush # Nil, FlushFails \/ \E e \in flush : FlushSave(e) PROVE Gone(h)'
  <2>1. UNCHANGED <<cache, at, mover, gone, born>> /\ flush' \subseteq flush
    BY <1>6 DEF FlushFails, FlushSave
  <2>2. Dying(h)' => Dying(h)
    BY <2>1 DEF Dying, Is
  <2>3. Writes(h)' => Writes(h)
    BY <1>6, <2>1 DEF Writes, Is
  <2>4. CASE bolt'[h] = bolt[h]
    BY <1>m, <2>1, <2>2, <2>3, <2>4, QuietGone
  <2>5. CASE bolt'[h] # bolt[h]
    <3>1. Writes(h)
      BY <1>6, <2>5 DEF FlushFails, FlushSave, Writes, TInv, Basic
    <3> QED BY <1>m, <2>1, <2>2, <3>1, WritingGone
  <2> QED BY <2>4, <2>5
<1>7. CASE Exit \/ Crash
  <2>1. Ends
    BY <1>7 DEF Exit, Crash
  <2>2. /\ bolt' = bolt /\ cache'[h] = Nil /\ (\A r \in Reqs : at'[r].h = Nil) /\ flush' = Nil /\ mover'.todo = {}
        /\ gone' = gone /\ born' = born
    BY <2>1 DEF Ends, IdleReq, NoMove
  <2>3. ~Writes(h)' /\ ~Dying(h)'
    BY <1>0, <2>2 DEF Writes, Dying, Is
  <2> QED BY <1>m, <2>2, <2>3, QuietGone
<1>8. CASE Tick \/ UNCHANGED vars
  BY <1>m, <1>8 DEF Tick, vars, Gone, Dead, Writes, Is
<1> QED BY <1>1, <1>2, <1>3, <1>4, <1>5, <1>6, <1>7, <1>8, RequestGone DEF Next
-------------------------------------------------------------------------------
(* What a step leaves as it is                                                 *)

\* The objects of link h keep their values.
Keeps(h) == \A o : o # Nil /\ Belongs(o, h)' => heap'[o] = heap[o]

\* A step that does not touch link h.
Far(h) ==
  /\ bolt'[h] = bolt[h] /\ cache'[h] = cache[h] /\ target'[h] = target[h] /\ served'[h] = served[h]
  /\ \A s \in Reqs : at[s].h = h \/ at'[s].h = h => at'[s] = at[s]
  /\ Keeps(h)

LEMMA Typed ==
  ASSUME SharesAssumption, TInv, NEW h \in Hashes
  PROVE  /\ \A o : o # Nil /\ Belongs(o, h) => o \in Objs /\ o \in InUse /\ heap[o] \in Links
         /\ cache[h] # Nil => Belongs(cache[h], h)
         /\ \A s \in Reqs : at[s].h = h /\ at[s].pc \in Holders => at[s].obj # Nil /\ Belongs(at[s].obj, h)
         /\ mover.h = h => mover.obj # Nil /\ Belongs(mover.obj, h)
<1>1. /\ \A o \in Objs : Belongs(o, h) => o \in InUse
      /\ \A o : o # Nil /\ Belongs(o, h) => o \in Objs
  BY Used DEF Belongs, TInv, Basic, Requests, ReqRecs, Moving, MoverRecs, Saving
<1>2. \A s \in Reqs : at[s].h = h /\ at[s].pc \in Holders => at[s].obj # Nil
  BY DEF TInv, Requests, ReqOK
<1>3. mover.h = h => mover.obj # Nil
  BY DEF TInv, Moving, MoverOK, SharesAssumption
<1> QED BY <1>1, <1>2, <1>3 DEF TInv, Mem, Belongs

LEMMA TypedNext ==
  ASSUME SharesAssumption, TInv', NEW h \in Hashes
  PROVE  /\ \A o : o # Nil /\ Belongs(o, h)' => o \in Objs /\ o \in InUse' /\ heap'[o] \in Links
         /\ \A o : cache'[h] = o => Belongs(o, h)'
         /\ \A s \in Reqs : at'[s].h = h /\ at'[s].pc \in Holders => at'[s].obj # Nil
         /\ \A s \in Reqs : \A o : at'[s].h = h /\ at'[s].obj = o => Belongs(o, h)'
         /\ mover'.h = h => mover'.obj # Nil
         /\ \A o : mover'.h = h /\ mover'.obj = o => Belongs(o, h)'
<1>1. /\ \A o \in Objs : Belongs(o, h)' => o \in InUse'
      /\ \A o : o # Nil /\ Belongs(o, h)' => o \in Objs
  BY DEF Belongs, TInv, Basic, Requests, ReqRecs, Moving, MoverRecs, Saving, InUse, Refs
<1>2. \A s \in Reqs : at'[s].h = h /\ at'[s].pc \in Holders => at'[s].obj # Nil
  BY DEF TInv, Requests, ReqOK
<1>3. mover'.h = h => mover'.obj # Nil
  BY DEF TInv, Moving, MoverOK, SharesAssumption
<1>4. \A o : o # Nil /\ Belongs(o, h)' => heap'[o] \in Links
  BY <1>1 DEF TInv, Mem
<1>5. /\ \A o : cache'[h] = o => Belongs(o, h)'
      /\ \A s \in Reqs : \A o : at'[s].h = h /\ at'[s].obj = o => Belongs(o, h)'
      /\ \A o : mover'.h = h /\ mover'.obj = o => Belongs(o, h)'
  BY DEF Belongs
<1> QED BY <1>1, <1>2, <1>3, <1>4, <1>5

\* What is referred to stays in memory.
LEMMA Kept ==
  ASSUME SharesAssumption, TInv', NEW h \in Hashes, NEW hp, Memory(hp), NEW o, o # Nil, Belongs(o, h)'
  PROVE  heap'[o] = hp[o]
<1>1. o \in Objs /\ o \in InUse'
  BY TypedNext
<1> QED BY <1>1 DEF Memory, InUse

LEMMA Keeping ==
  ASSUME SharesAssumption, TInv', NEW h \in Hashes, Memory(heap) \/ UNCHANGED heap
  PROVE  Keeps(h)
BY Kept DEF Keeps

(* A request leaves the other links alone.                                     *)
LEMMA RequestFrame ==
  ASSUME SharesAssumption, TInv, NEW r \in Reqs, Request(r)
  PROVE  /\ Hash(r) \in Hashes /\ Hash(r) \in born /\ Hash(r) = at[r].h /\ Hash(r) # Nil /\ at[r].pc # "idle"
         /\ \A s \in Reqs : s # r => at'[s] = at[s]
         /\ at'[r].h \in {Hash(r), Nil}
         /\ UNCHANGED <<flush, mover, now, born, files>>
         /\ \A h \in Hashes : h # Hash(r) => /\ bolt'[h] = bolt[h] /\ cache'[h] = cache[h]
                                             /\ target'[h] = target[h] /\ served'[h] = served[h]
<1>1. at[r].pc # "idle"
  BY DEF Request, GetCached, GetStored, Fill, Purge, Leave, ListFill, ListRead, Count, CountUser, Check, Unbolt, Uncache, Edit,
         Save, SaveFails, Recache, Repath, Patch
<1>2. Hash(r) \in Hashes /\ Hash(r) = at[r].h /\ Hash(r) # Nil /\ Hash(r) \in born
  BY <1>1, Its DEF Hash
<1>3. /\ \A s \in Reqs : s # r => at'[s] = at[s]
      /\ at'[r].h \in {Hash(r), Nil}
  <2>1. \E g \in {Hash(r), Nil} : \E places : Goes(r, g, places)
    BY GetCachedE, GetStoredE, ListReadE, FillE, PurgeE, RepliesE, ListFillE, CheckE, CountE, UnboltE, EditE, PatchE, SaveE
       DEF Request
  <2> QED BY <2>1 DEF Goes
<1>4. UNCHANGED <<flush, mover, now, born, files>>
  BY DEF Request, GetCached, GetStored, Fill, Purge, Leave, ListFill, ListRead, Count, CountUser, Check, Unbolt, Uncache, Edit,
         Save, SaveFails, Recache, Repath, Patch
<1>5. ASSUME NEW h \in Hashes, h # Hash(r)
      PROVE  bolt'[h] = bolt[h] /\ cache'[h] = cache[h]
  BY <1>2, <1>5 DEF Request, GetCached, GetStored, Fill, Purge, Leave, ListFill, ListRead, Count, CountUser, Check, Unbolt, Uncache,
         Edit, Save, SaveFails, Recache, Repath, Patch, TInv, Basic
<1>6. ASSUME NEW h \in Hashes, h # Hash(r)
      PROVE  target'[h] = target[h] /\ served'[h] = served[h]
  <2>1. served \in [Hashes -> CountRecs] /\ target \in [Hashes -> Paths \cup {Nil}]
    BY DEF TInv, Basic
  <2>2. CASE Count(r)
    BY <1>2, <1>6, <2>1, <2>2, CountE DEF Count
  <2>3. CASE Edit(r)
    BY <1>2, <1>6, <2>1, <2>3, EditE DEF Edit
  <2>4. CASE \E p \in Paths : Patch(r, p)
    BY <1>2, <1>6, <2>1, <2>4 DEF Patch
  <2> QED BY <2>2, <2>3, <2>4 DEF Request, GetCached, GetStored, Fill, Purge, Leave, ListFill, ListRead, CountUser, Check,
         Unbolt, Uncache, Save, SaveFails, Recache, Repath
<1> QED BY <1>1, <1>2, <1>3, <1>4, <1>5, <1>6

LEMMA RequestFar ==
  ASSUME SharesAssumption, TInv, TInv', Owned, NEW r \in Reqs, Request(r), NEW h \in Hashes, h # Hash(r)
  PROVE  Far(h)
<1>f. /\ Hash(r) \in Hashes /\ Hash(r) = at[r].h /\ Hash(r) # Nil /\ at[r].pc # "idle"
      /\ \A s \in Reqs : s # r => at'[s] = at[s]
      /\ at'[r].h \in {Hash(r), Nil}
      /\ UNCHANGED <<flush, mover>>
      /\ bolt'[h] = bolt[h] /\ cache'[h] = cache[h] /\ target'[h] = target[h] /\ served'[h] = served[h]
  BY RequestFrame
<1>0. Nil \notin Hashes
  BY DEF SharesAssumption
<1>1. \A o : Belongs(o, h)' => Belongs(o, h)
  BY <1>0, <1>f DEF Belongs
<1>2. ASSUME NEW o, o # Nil, Belongs(o, h)'
      PROVE  heap'[o] = heap[o]
  <2>1. Belongs(o, h) /\ o \in Objs /\ o \in InUse
    BY <1>1, <1>2, Typed
  <2>2. o # NewObj
    BY <2>1, Fresh
  <2>3. at[r].pc \in Holders => o # at[r].obj
    <3>1. at[r].pc \in Holders => at[r].obj \in Objs /\ Belongs(at[r].obj, Hash(r))
      BY <1>f, Typed
    <3> QED BY <1>f, <2>1, <3>1 DEF Owned
  <2>4. cache[Hash(r)] # Nil => cache[Hash(r)] \in Objs /\ o # cache[Hash(r)]
    <3>1. cache[Hash(r)] # Nil => cache[Hash(r)] \in Objs /\ Belongs(cache[Hash(r)], Hash(r))
      BY <1>f, Typed
    <3> QED BY <1>f, <2>1, <3>1 DEF Owned
  <2>5. ASSUME NEW hp, Memory(hp), hp[o] = heap[o] PROVE heap'[o] = heap[o]
    BY <1>2, <2>5, Kept
  <2>6. heap \in [Objs -> Links \cup {Nil}]
    BY DEF TInv, Mem
  <2>7. CASE GetStored(r) \/ \E gets \in BOOLEAN : ListRead(r, gets)
    <3>1. heap' = heap \/ heap' = [heap EXCEPT ![NewObj] = bolt[Hash(r)]]
      BY <2>7, GetStoredE, ListReadE
    <3> HIDE DEF NewObj
    <3> QED BY <2>1, <2>2, <2>6, <3>1
  <2>8. CASE Count(r)
    <3>1. at[r].pc \in Holders
      BY <2>8, CountE DEF Holders
    <3>2. \E l : Memory([heap EXCEPT ![at[r].obj] = l])
      BY <2>8, CountE
    <3> PICK l : Memory([heap EXCEPT ![at[r].obj] = l])
      BY <3>2
    <3> QED BY <2>1, <2>3, <2>5, <2>6, <3>1
  <2>9. CASE CountUser(r)
    <3>1. at[r].pc \in Holders /\ \E l : Memory([heap EXCEPT ![at[r].obj] = l])
      BY <2>9 DEF Holders, CountUser, Credit
    <3> PICK l : Memory([heap EXCEPT ![at[r].obj] = l])
      BY <3>1
    <3> QED BY <2>1, <2>3, <2>5, <2>6, <3>1
  <2>10. CASE Edit(r) \/ \E p \in Paths : Patch(r, p)
    <3>1. at[r].pc \in Holders /\ heap' = [heap EXCEPT ![at[r].obj] = heap'[at[r].obj]]
      BY <2>10, EditE, PatchE DEF Holders
    <3> QED BY <2>1, <2>3, <2>6, <3>1
  <2>11. CASE Repath(r)
    <3>1. Memory(heap) \/ (cache[Hash(r)] # Nil /\ Memory([heap EXCEPT ![cache[Hash(r)]].path = at[r].arg]))
      BY <2>11 DEF Repath
    <3>2. cache[Hash(r)] # Nil => [heap EXCEPT ![cache[Hash(r)]].path = at[r].arg][o] = heap[o]
      BY <2>1, <2>4, <2>6
    <3> QED BY <2>5, <3>1, <3>2
  <2>12. CASE Memory(heap) \/ UNCHANGED heap
    BY <2>5, <2>12
  <2> QED BY <2>7, <2>8, <2>9, <2>10, <2>11, <2>12 DEF Request, GetCached, Fill, Purge, Leave, ListFill, Check, Unbolt,
         Uncache, Save, SaveFails, Recache
<1> QED BY <1>0, <1>f, <1>2 DEF Far, Keeps
-------------------------------------------------------------------------------
(* The object and the record of a link                                         *)

Plain(h) == excuse[h] \cap {"doubled", "unsaved", "delete", "move"} = {}

\* An edit works on the object of the link; or the link is new.
Editors(h) ==
  \A r \in Reqs :
    /\ Is(r, h, {"savepath", "repath"}) => cache[h] = at[r].obj
    /\ Is(r, h, {"save"}) =>
         cache[h] = at[r].obj \/ (/\ cache[h] = Nil /\ bolt[h] = Nil
                                  /\ \A s \in Reqs : Is(s, h, {"save"}) => s = r)
    /\ Is(r, h, {"recache"}) /\ cache[h] = Nil => bolt[h] # Nil /\ heap[at[r].obj] = bolt[h]
\* What was read is what is stored, until someone has an object.
Readers(h) ==
  \A r \in Reqs : Is(r, h, {"fill", "listfill"}) /\ cache[h] = Nil =>
    bolt[h] # Nil /\ SameTerms(heap[at[r].obj], bolt[h]) /\ SameCounts(heap[at[r].obj], bolt[h])
\* The move has read what is stored, and writes the same with another path.
Movers(h) ==
  h \in mover.todo =>
    /\ bolt[h] # Nil
    /\ mover.h # h => mover.read[h] = bolt[h]
    /\ mover.h = h => bolt[h].path = mover.new /\ (cache[h] = Nil => heap[mover.obj] = bolt[h])
\* But for an edit under way, the object and the record agree.
Alike(h) ==
  cache[h] # Nil /\ ~Unsaved(h) =>
    /\ bolt[h] # Nil => SameTerms(heap[cache[h]], bolt[h])
    /\ bolt[h] = Nil => Deletes(h) \/ Expired(heap[cache[h]])
Savers(h) == flush # Nil => \A e \in flush : e[1] = h => cache[h] = e[2]
Purgers(h) ==
  \A r \in Reqs : Is(r, h, {"purgebolt"}) /\ cache[h] # Nil => Expired(heap[cache[h]])
Sound(h) == Editors(h) /\ Readers(h) /\ Movers(h) /\ Alike(h) /\ Savers(h) /\ Purgers(h)

\* A visit works on the object of the link, unless the link is deleted.
Held(h) ==
  \A r \in Reqs : Is(r, h, {"got", "count", "countview", "countuser"}) => at[r].obj = cache[h] \/ Dead(h)

Patched(h) ==
  \A r \in Reqs : Is(r, h, {"savepath", "repath"}) => heap[at[r].obj].path = at[r].arg
\* The path in memory is the one stored, but for what is saved or moved just now.
PathAlike(h) ==
  mover.h # h =>
    /\ cache[h] # Nil /\ bolt[h] # Nil /\ ~Unsaved(h) => heap[cache[h]].path = bolt[h].path
    /\ cache[h] = Nil => \A r \in Reqs : Is(r, h, {"fill", "listfill"}) => heap[at[r].obj].path = bolt[h].path

Going(h) ==
  /\ Plain(h) => Sound(h) /\ Held(h)
  /\ Plain(h) /\ "patch" \notin excuse[h] => Patched(h) /\ PathAlike(h)

Works == {"save", "savepath", "recache", "repath", "fill", "listfill", "purgebolt"}

\* The move is where it was with link h.
Still(h) ==
  /\ h \in mover'.todo <=> h \in mover.todo
  /\ mover'.h = h <=> mover.h = h
  /\ h \in mover.todo => mover'.new = mover.new /\ mover'.read = mover.read
  /\ mover.h = h => mover'.obj = mover.obj
NoMoreSaves(h) == flush' # Nil => flush # Nil /\ \A e \in flush' : e[1] = h => e \in flush

Calm(h) ==
  /\ bolt'[h] = bolt[h] /\ cache'[h] = cache[h]
  /\ \A s \in Reqs : Is(s, h, Works)' => at'[s] = at[s]
  /\ Keeps(h) /\ Still(h) /\ NoMoreSaves(h) /\ now' >= now
  /\ (Deletes(h) => Deletes(h)') /\ (Unsaved(h) => Unsaved(h)')

LEMMA CalmHeap ==
  ASSUME SharesAssumption, TInv', NEW h \in Hashes, Keeps(h)
  PROVE  /\ cache'[h] # Nil => heap'[cache'[h]] = heap[cache'[h]]
         /\ \A s \in Reqs : at'[s].h = h /\ at'[s].pc \in Holders => heap'[at'[s].obj] = heap[at'[s].obj]
         /\ mover'.h = h => heap'[mover'.obj] = heap[mover'.obj]
BY TypedNext DEF Keeps

LEMMA CalmSound ==
  ASSUME SharesAssumption, TInv, TInv', NEW h \in Hashes, Calm(h)
  PROVE  /\ Sound(h) => Sound(h)'
         /\ Patched(h) => Patched(h)'
         /\ PathAlike(h) => PathAlike(h)'
<1>1. /\ cache'[h] # Nil => heap'[cache'[h]] = heap[cache'[h]]
      /\ \A s \in Reqs : at'[s].h = h /\ at'[s].pc \in Holders => heap'[at'[s].obj] = heap[at'[s].obj]
      /\ mover'.h = h => heap'[mover'.obj] = heap[mover'.obj]
  BY CalmHeap DEF Calm
<1>2. /\ bolt'[h] = bolt[h] /\ cache'[h] = cache[h]
      /\ \A s \in Reqs : Is(s, h, Works)' => at'[s] = at[s]
      /\ Deletes(h) => Deletes(h)'
  BY DEF Calm
<1>3. Editors(h) => Editors(h)'
  BY <1>1, <1>2 DEF Editors, Is, Works, Holders
<1>4. Readers(h) => Readers(h)'
  BY <1>1, <1>2 DEF Readers, Is, Works, Holders
<1>5. Movers(h) => Movers(h)'
  BY <1>1, <1>2 DEF Movers, Calm, Still
<1>6. \A l \in Links : Expired(l) => Expired(l)'
  BY DEF Expired, Calm, TInv, Basic, Links, SharesAssumption
<1>7. cache[h] # Nil => heap[cache[h]] \in Links
  BY Typed
<1>8. Unsaved(h) => Unsaved(h)'
  BY DEF Calm
<1>e. cache[h] # Nil => (Expired(heap[cache[h]]) => Expired(heap[cache[h]])')
  <2>1. CASE cache[h] # Nil
    <3> PICK l : l = heap[cache[h]]
      OBVIOUS
    <3>1. heap'[cache'[h]] = l /\ cache[h] # Nil
      BY <1>1, <1>2, <2>1
    <3>2. Expired(l) => Expired(l)'
      BY <1>6, <1>7, <2>1
    <3> QED BY <3>1, <3>2 DEF Expired
  <2> QED BY <2>1
<1>9. Alike(h) => Alike(h)'
  BY <1>1, <1>2, <1>8, <1>e DEF Alike
<1>10. Savers(h) => Savers(h)'
  BY <1>2 DEF Savers, Calm, NoMoreSaves
<1>11. Purgers(h) => Purgers(h)'
  BY <1>2, <1>e DEF Purgers, Is, Works
<1>12. Patched(h) => Patched(h)'
  BY <1>1, <1>2 DEF Patched, Is, Works, Holders
<1>13. PathAlike(h) => PathAlike(h)'
  BY <1>1, <1>2, <1>8 DEF PathAlike, Is, Works, Holders, Calm, Still
<1> QED BY <1>3, <1>4, <1>5, <1>9, <1>10, <1>11, <1>12, <1>13 DEF Sound
-------------------------------------------------------------------------------
(* A deleted link has no object, and visits to others work on theirs           *)

LEMMA DeadRequest ==
  ASSUME SharesAssumption, TInv, NEW h \in Hashes, Dead(h), NEW r \in Reqs, Request(r), "delete" \notin excuse'[h]
  PROVE  Dead(h)'
<1>f. /\ Hash(r) \in Hashes /\ Hash(r) = at[r].h /\ Hash(r) # Nil /\ at[r].pc # "idle"
      /\ \A s \in Reqs : s # r => at'[s] = at[s]
      /\ at'[r].h \in {Hash(r), Nil}
      /\ UNCHANGED <<flush, mover, born>>
      /\ h # Hash(r) => bolt'[h] = bolt[h] /\ cache'[h] = cache[h]
  BY RequestFrame
<1>1. h \in born /\ bolt[h] = Nil /\ cache[h] = Nil /\ ~Writes(h)
  BY DEF Dead
<1>2. SUFFICES ASSUME at[r].h = h PROVE bolt'[h] = Nil /\ cache'[h] = Nil /\ ~Is(r, h, {"save", "savepath", "recache", "repath", "fill", "listfill"})'
  <2>1. Nil \notin Hashes
    BY DEF SharesAssumption
  <2>2. CASE at[r].h # h
    BY <1>1, <1>f, <2>1, <2>2 DEF Dead, Writes, Is
  <2>3. CASE at[r].h = h
    BY <1>1, <1>f, <2>3 DEF Dead, Writes, Is
  <2> QED BY <2>2, <2>3
<1>3. at[r].pc \notin {"save", "savepath", "recache", "repath", "fill", "listfill"}
  BY <1>1, <1>2 DEF Writes, Is
<1>4. CASE GetStored(r) \/ \E gets \in BOOLEAN : ListRead(r, gets)
  <2>1. UNCHANGED <<bolt, cache>>
    BY <1>4 DEF GetStored, ListRead
  <2> QED BY <1>1, <1>2, <1>4, <1>f, <2>1, GetStoredE, ListReadE DEF Goes, Is
<1>5. CASE Leave(r) \/ Count(r) \/ CountUser(r) \/ (\E c \in Callers : Check(r, c)) \/ Purge(r) \/ Unbolt(r) \/ Uncache(r)
  <2>1. bolt'[h] = Nil /\ cache'[h] = Nil
    BY <1>1, <1>2, <1>5, <1>f DEF Leave, Count, CountUser, Check, Purge, Unbolt, Uncache, TInv, Basic
  <2>2. at'[r].pc \notin {"save", "savepath", "recache", "repath", "fill", "listfill"}
    BY <1>5, RepliesE, CountE, CheckE, PurgeE, UnboltE DEF Goes
  <2> QED BY <2>1, <2>2 DEF Is
<1>6. ASSUME Edit(r) \/ \E p \in Paths : Patch(r, p) PROVE FALSE
  <2>1. at[r].pc = "got" /\ Note(Detached(r))
    BY <1>6 DEF Edit, Patch
  <2>2. at[r].obj # Nil
    BY <2>1 DEF TInv, Requests, ReqOK, Holders
  <2>3. Detached(r)[h] \subseteq excuse'[h]
    BY <1>f, <2>1, Detachments, Mono
  <2>4. "delete" \in Detached(r)[h]
    BY <1>1, <1>2, <1>f, <2>2, Adds DEF Detached, Excuses
  <2> QED BY <2>3, <2>4
<1> QED BY <1>1, <1>2, <1>3, <1>4, <1>5, <1>6, <1>f DEF Request, GetCached, Fill, ListFill, Save, SaveFails, Recache, Repath

LEMMA DeadStep ==
  ASSUME SharesAssumption, TInv, NEW h \in Hashes, Dead(h), [Next]_vars, "delete" \notin excuse'[h]
  PROVE  Dead(h)'
<1>1. h \in born /\ bolt[h] = Nil /\ cache[h] = Nil /\ ~Writes(h) /\ h # Nil
  BY DEF Dead, SharesAssumption
<1>q. ASSUME bolt'[h] = Nil, cache'[h] = Nil, born \subseteq born', flush' = flush, mover'.todo \subseteq mover.todo,
             \A s \in Reqs : at'[s] = at[s] \/ at'[s].h # h \/ at'[s].pc \in {"get", "list"}
      PROVE  Dead(h)'
  BY <1>1, <1>q DEF Dead, Writes, Is
<1>2. ASSUME NEW r \in Reqs, NEW g \in Hashes, Open(r, g) PROVE Dead(h)'
  <2>1. Goes(r, g, {"get", "list"}) /\ UNCHANGED <<bolt, cache, flush, mover, gone, born>>
    BY <1>2, OpenE DEF Open
  <2> QED BY <1>1, <1>q, <2>1 DEF Goes
<1>3. ASSUME NEW r \in Reqs, NEW g \in Hashes, NEW p \in Paths, Create(r, g, p) PROVE Dead(h)'
  <2>1. /\ Goes(r, g, {"save"}) /\ UNCHANGED <<bolt, cache, flush, mover>>
        /\ g \notin born /\ born' = born \cup {g}
    BY <1>3, CreateE DEF Create
  <2> QED BY <1>1, <1>q, <2>1 DEF Goes
<1>4. ASSUME NEW m \in Moves, Rename(m[1], m[2]) PROVE Dead(h)'
  <2>1. mover'.todo = {} /\ UNCHANGED <<bolt, cache, flush, at, born>>
    BY <1>4 DEF Rename, NoMove
  <2> QED BY <1>1, <1>q, <2>1
<1>5. CASE UpdateShares
  <2>0. UNCHANGED <<flush, at, born>>
    BY <1>5 DEF UpdateShares, MoveRead, MoveSaveFails, MoveSave, MoveCache
  <2>1. CASE MoveRead
    <3>1. mover \in MoverRecs /\ UNCHANGED <<bolt, cache>>
      BY <2>1 DEF TInv, Moving, MoveRead
    <3>2. h \notin mover'.todo
      BY <1>1, <2>1, <3>1 DEF MoveRead, MoverRecs, NoMove
    <3> QED BY <1>1, <2>0, <3>1, <3>2 DEF Dead, Writes, Is
  <2>2. CASE MoveSaveFails
    <3>1. mover'.todo = {} /\ UNCHANGED <<bolt, cache>>
      BY <2>2 DEF MoveSaveFails, NoMove
    <3> QED BY <1>1, <1>q, <2>0, <3>1
  <2>3. ASSUME NEW g \in Hashes, MoveSave(g) PROVE Dead(h)'
    <3>1. g \in mover.todo /\ mover'.todo = mover.todo /\ cache' = cache /\ (g # h => bolt'[h] = bolt[h])
      BY <2>3, MoveSaveE DEF MoveSave, TInv, Basic
    <3>2. g # h
      BY <1>1, <3>1 DEF Writes
    <3> QED BY <1>1, <1>q, <2>0, <3>1, <3>2
  <2>4. ASSUME NEW g \in Hashes, MoveCache(g) PROVE Dead(h)'
    <3>1. g \in mover.todo /\ mover'.todo \subseteq mover.todo /\ bolt' = bolt /\ (g # h => cache'[h] = cache[h])
      BY <2>4, MoveCacheE DEF MoveCache, TInv, Basic, NoMove
    <3>2. g # h
      BY <1>1, <3>1 DEF Writes
    <3> QED BY <1>1, <1>q, <2>0, <3>1, <3>2
  <2> QED BY <1>5, <2>1, <2>2, <2>3, <2>4 DEF UpdateShares
<1>6. CASE Flush
  <2>1. UNCHANGED <<bolt, cache, at, mover, born>> /\ \A e \in flush' : e[1] # h
    BY <1>1, <1>6 DEF Flush
  <2> QED BY <1>1, <2>1 DEF Dead, Writes, Is
<1>7. ASSUME flush # Nil, FlushFails \/ \E e \in flush : FlushSave(e) PROVE Dead(h)'
  <2>1. UNCHANGED <<cache, at, mover, born>> /\ flush' \subseteq flush
    BY <1>7 DEF FlushFails, FlushSave
  <2>2. \A e \in flush : e[1] # h
    BY <1>1, <1>7 DEF Writes
  <2>3. bolt'[h] = Nil
    BY <1>1, <1>7, <2>2 DEF FlushFails, FlushSave, TInv, Basic
  <2> QED BY <1>1, <2>1, <2>2, <2>3 DEF Dead, Writes, Is
<1>8. CASE Exit \/ Crash
  <2>1. Ends
    BY <1>8 DEF Exit, Crash
  <2>2. bolt' = bolt /\ born' = born /\ cache'[h] = Nil /\ flush' = Nil /\ mover'.todo = {} /\ \A s \in Reqs : at'[s].h = Nil
    BY <2>1 DEF Ends, NoMove, IdleReq
  <2> QED BY <1>1, <2>2 DEF Dead, Writes, Is
<1>9. CASE Tick \/ UNCHANGED vars
  BY <1>1, <1>9 DEF Tick, vars, Dead, Writes, Is
<1> QED BY <1>2, <1>3, <1>4, <1>5, <1>6, <1>7, <1>8, <1>9, DeadRequest DEF Next
LEMMA PlainBefore ==
  ASSUME SharesAssumption, TInv, [Next]_vars, NEW h \in Hashes, Plain(h)'
  PROVE  Plain(h) /\ "delete" \notin excuse'[h] /\ "doubled" \notin excuse'[h] /\ "unsaved" \notin excuse'[h]
         /\ "move" \notin excuse'[h]
BY Grows DEF Plain

Visits == {"got", "count", "countview", "countuser"}

\* The visits stay with the object of the link.
LEMMA HeldKeeps ==
  ASSUME NEW h, Held(h), Dead(h) => Dead(h)', cache'[h] = cache[h],
         \A s \in Reqs : Is(s, h, Visits)' => at'[s].obj = cache[h] \/ (Is(s, h, Visits) /\ at'[s].obj = at[s].obj)
  PROVE  Held(h)'
BY DEF Held, Visits

\* The link had no object, or has it still.
LEMMA HeldGets ==
  ASSUME SharesAssumption, TInv, NEW h \in Hashes, Held(h), ~Dead(h), cache[h] \in {Nil, cache'[h]},
         \A s \in Reqs : Is(s, h, Visits)' => at'[s].obj = cache'[h] \/ (Is(s, h, Visits) /\ at'[s].obj = at[s].obj)
  PROVE  Held(h)'
<1>1. \A s \in Reqs : Is(s, h, Visits) => at[s].obj # Nil
  BY DEF Is, Visits, Holders, TInv, Requests, ReqOK
<1> QED BY <1>1 DEF Held, Visits

LEMMA HeldRequest ==
  ASSUME SharesAssumption, TInv, NEW h \in Hashes, Plain(h)', Known(h), Gone(h), Held(h), Plain(h), NEW r \in Reqs, Request(r),
         Dead(h) => Dead(h)'
  PROVE  Held(h)'
<1>f. /\ Hash(r) \in Hashes /\ Hash(r) = at[r].h /\ Hash(r) # Nil /\ at[r].pc # "idle"
      /\ \A s \in Reqs : s # r => at'[s] = at[s]
      /\ at'[r].h \in {Hash(r), Nil}
      /\ UNCHANGED <<flush, mover, born>>
      /\ h # Hash(r) => bolt'[h] = bolt[h] /\ cache'[h] = cache[h]
  BY RequestFrame
<1>0. Nil \notin Hashes
  BY DEF SharesAssumption
<1>1. CASE h # Hash(r)
  BY <1>0, <1>1, <1>f, HeldKeeps DEF Is
<1>2. ASSUME h = Hash(r), Fill(r) \/ ListFill(r) \/ Recache(r) PROVE Held(h)'
  <2>1. ~Dead(h)
    BY <1>2, <1>f DEF Dead, Writes, Is, Fill, ListFill, Recache
  <2>2. cache[h] \in {Nil, cache'[h]}
    <3>1. CASE ListFill(r)
      BY <3>1 DEF ListFill
    <3>2. CASE Fill(r) \/ Recache(r)
      <4>1. Note(Doubled(r)) /\ cache'[h] = at[r].obj
        BY <1>2, <1>f, <3>2 DEF Fill, Recache, TInv, Basic
      <4>2. Doubled(r)[h] \subseteq excuse'[h]
        BY <1>f, <4>1, Detachments, Mono
      <4>3. cache[h] \notin {Nil, at[r].obj} => "doubled" \in Doubled(r)[h]
        BY <1>2, Adds DEF Doubled, Excuses
      <4> QED BY <4>1, <4>2, <4>3 DEF Plain
    <3> QED BY <1>2, <3>1, <3>2
  <2>3. Is(r, h, Visits)' => at'[r].obj = cache'[h]
    BY <1>2, <1>f, FillE, ListFillE, RepliesE DEF Goes, Is, Visits, Fill, TInv, Basic
  <2>4. \A s \in Reqs : Is(s, h, Visits)' => at'[s].obj = cache'[h] \/ (Is(s, h, Visits) /\ at'[s].obj = at[s].obj)
    BY <1>f, <2>3 DEF Is
  <2> QED BY <2>1, <2>2, <2>4, HeldGets
<1>3. ASSUME h = Hash(r), Uncache(r) PROVE Held(h)'
  <2>1. /\ Goes(r, Nil, {"idle"}) /\ at[r].pc \in {"uncache", "drop"} /\ bolt' = bolt /\ cache'[h] = Nil
    BY <1>3, <1>f, RepliesE DEF Uncache, TInv, Basic
  <2>2. bolt[h] = Nil /\ ~Writes(h) /\ h \in born
    <3>1. Is(r, h, {"uncache", "drop"}) /\ h \in born
      BY <1>3, <1>f, <2>1, Its DEF Is
    <3>2. "delete" \notin excuse[h]
      BY DEF Plain
    <3> QED BY <3>1, <3>2 DEF Gone, Known, Deletes, Is
  <2>3. Dead(h)'
    BY <1>f, <2>1, <2>2 DEF Dead, Writes, Is, Goes
  <2> QED BY <2>3 DEF Held
<1>4. ASSUME h = Hash(r), ~(Fill(r) \/ ListFill(r) \/ Recache(r) \/ Uncache(r)) PROVE Held(h)'
  <2>1. cache' = cache
    BY <1>4 DEF Request, GetCached, GetStored, Purge, Leave, ListRead, Count, CountUser, Check, Unbolt, Edit,
         Save, SaveFails, Repath, Patch
  <2>2. Is(r, h, Visits)' => at'[r].obj = cache[h] \/ (Is(r, h, Visits) /\ at'[r].obj = at[r].obj)
    <3>1. CASE GetCached(r)
      BY <1>4, <3>1, GetCachedE DEF Goes, Is, Visits
    <3>2. CASE Count(r) \/ \E c \in Callers : Check(r, c)
      <4>1. at'[r].pc = "idle" \/ (at[r].pc \in Visits /\ at'[r].obj = at[r].obj)
        BY <3>2, CountE, CheckE DEF Goes, Visits
      <4> QED BY <1>4, <1>f, <4>1 DEF Is, Visits
    <3>3. CASE GetStored(r) \/ (\E gets \in BOOLEAN : ListRead(r, gets)) \/ Purge(r) \/ Unbolt(r)
      BY <3>3, GetStoredE, ListReadE, PurgeE, UnboltE DEF Goes, Is, Visits
    <3>4. CASE Leave(r) \/ CountUser(r) \/ SaveFails(r) \/ Repath(r) \/ Save(r) \/ Edit(r) \/ \E p \in Paths : Patch(r, p)
      BY <3>4, RepliesE, SaveE, EditE, PatchE DEF Goes, Is, Visits
    <3> QED BY <1>4, <3>1, <3>2, <3>3, <3>4 DEF Request
  <2> QED BY <1>f, <2>1, <2>2, HeldKeeps DEF Is
<1> QED BY <1>1, <1>2, <1>3, <1>4

LEMMA HeldStep ==
  ASSUME SharesAssumption, TInv, NEW h \in Hashes, Known(h), Gone(h), Plain(h) => Held(h), [Next]_vars, Plain(h)'
  PROVE  Held(h)'
<1>0. Plain(h) /\ Held(h) /\ Nil \notin Hashes
  BY PlainBefore DEF SharesAssumption
<1>d. Dead(h) => Dead(h)'
  BY DeadStep, PlainBefore
<1>1. ASSUME cache'[h] = cache[h], \A s \in Reqs : at'[s] = at[s] \/ at'[s].pc \in {"get", "list", "save"}
      PROVE  Held(h)'
  BY <1>0, <1>1, <1>d, HeldKeeps DEF Is, Visits
<1>2. ASSUME NEW r \in Reqs, NEW g \in Hashes, Open(r, g) PROVE Held(h)'
  BY <1>1, <1>2, OpenE DEF Open, Goes
<1>3. ASSUME NEW r \in Reqs, NEW g \in Hashes, NEW p \in Paths, Create(r, g, p) PROVE Held(h)'
  BY <1>1, <1>3, CreateE DEF Create, Goes
<1>4. CASE \E g \in Hashes : MoveCache(g)
  <2> PICK g \in Hashes : MoveCache(g)
    BY <1>4
  <2>1. at' = at
    BY DEF MoveCache
  <2>2. CASE g # h
    <3>1. cache'[h] = cache[h]
      BY <2>2 DEF MoveCache, TInv, Basic
    <3> QED BY <1>1, <2>1, <3>1
  <2>3. CASE g = h
    <3>1. cache[h] \in {Nil, cache'[h]} /\ ~Dead(h)
      BY <2>3, MoveCacheE DEF MoveCache, Dead, Writes
    <3> QED BY <1>0, <2>1, <3>1, HeldGets DEF Is
  <2> QED BY <2>2, <2>3
<1>5. CASE Exit \/ Crash
  <2>1. \A s \in Reqs : at'[s].pc = "idle"
    BY <1>5 DEF Exit, Crash, Ends, IdleReq
  <2> QED BY <2>1 DEF Held, Is
<1>6. ASSUME NEW r \in Reqs, Request(r) PROVE Held(h)'
  BY <1>0, <1>6, <1>d, HeldRequest
<1>7. CASE UNCHANGED <<cache, at>>
  BY <1>1, <1>7
<1> QED BY <1>2, <1>3, <1>4, <1>5, <1>6, <1>7 DEF Next, UpdateShares, Rename, MoveRead, MoveSave, MoveSaveFails, Flush,
     FlushSave, FlushFails, Tick, vars
-------------------------------------------------------------------------------
(* The object and the record through the requests                              *)

\* The link has an object, of which only the counts change.
LEMMA LiveSound ==
  ASSUME SharesAssumption, TInv, NEW h \in Hashes, cache[h] # Nil, cache'[h] = cache[h], bolt'[h] = bolt[h],
         \A s \in Reqs : Is(s, h, Works)' => at'[s] = at[s],
         SameTerms(heap'[cache[h]], heap[cache[h]]), UNCHANGED <<flush, mover, now>>,
         Deletes(h) => Deletes(h)', Unsaved(h) => Unsaved(h)', Sound(h)
  PROVE  Sound(h)'
<1>1. Editors(h)' /\ Readers(h)' /\ Movers(h)' /\ Savers(h)'
  BY DEF Sound, Editors, Readers, Movers, Savers, Is, Works
<1>2. Expired(heap[cache[h]]) => Expired(heap[cache[h]])'
  BY DEF Expired, SameTerms
<1>3. Alike(h)'
  BY <1>2 DEF Sound, Alike, SameTerms
<1>4. Purgers(h)'
  BY <1>2 DEF Sound, Purgers, Is, Works
<1> QED BY <1>1, <1>3, <1>4 DEF Sound

\* The object of the link is being edited.
LEMMA EditSound ==
  ASSUME SharesAssumption, TInv, NEW h \in Hashes, cache[h] # Nil, cache'[h] = cache[h], Plain(h)', Known(h)',
         \A s \in Reqs : Is(s, h, Works)' => at'[s] = at[s] \/ (at'[s].obj = cache[h] /\ at'[s].pc \in {"save", "savepath"}),
         Unsaved(h)', flush' = flush, Sound(h)
  PROVE  Sound(h)'
<1>1. Writes(h)' /\ Edits(h)'
  BY DEF Unsaved, Writes, Edits, Is
<1>2. ~Deletes(h)' /\ mover'.todo = {}
  BY <1>1 DEF Known, Plain, NoMove
<1>3. Editors(h)' /\ Readers(h)'
  BY DEF Sound, Editors, Readers, Is, Works
<1>4. Movers(h)' /\ Savers(h)' /\ Alike(h)' /\ Purgers(h)'
  BY <1>2 DEF Sound, Movers, Savers, Alike, Purgers, Deletes, Is
<1> QED BY <1>3, <1>4 DEF Sound

\* Nobody will write the link.
LEMMA IdleSound ==
  ASSUME NEW h, ~Writes(h)', cache'[h] # Nil => Alike(h)' /\ Purgers(h)'
  PROVE  Sound(h)' /\ Patched(h)' /\ (cache'[h] = Nil \/ bolt'[h] = Nil => PathAlike(h)')
<1>1. Editors(h)' /\ Readers(h)' /\ Movers(h)' /\ Savers(h)' /\ Patched(h)'
  BY DEF Writes, Editors, Readers, Movers, Savers, Patched, Is
<1>2. cache'[h] = Nil => Alike(h)' /\ Purgers(h)'
  BY DEF Alike, Purgers
<1>3. cache'[h] = Nil \/ bolt'[h] = Nil => PathAlike(h)'
  BY DEF PathAlike, Writes, Is
<1> QED BY <1>1, <1>2, <1>3 DEF Sound

LEMMA DeadSound ==
  ASSUME NEW h, Dead(h)'
  PROVE  Sound(h)' /\ Patched(h)' /\ PathAlike(h)'
BY IdleSound DEF Dead

\* The goal of each of the lemmas below.
Onward(h) == Sound(h)' /\ ("patch" \notin excuse'[h] => Patched(h)' /\ PathAlike(h)')

LEMMA LookSound ==
  ASSUME SharesAssumption, TInv, TInv', NEW h \in Hashes, NEW r \in Reqs, Hash(r) = h, Sound(h),
         "patch" \notin excuse'[h] => Patched(h) /\ PathAlike(h),
         \/ GetCached(r) \/ Leave(r) \/ (\E c \in Callers : Check(r, c))
         \/ (GetStored(r) \/ \E gets \in BOOLEAN : ListRead(r, gets)) /\ at'[r].pc \in {"idle", "purge"}
  PROVE  Onward(h)
<1>1. /\ at[r].pc \in {"get", "got", "list"} /\ at'[r].pc \in {"purge", "got", "idle", "count", "countview"}
      /\ \A s \in Reqs : s # r => at'[s] = at[s]
  BY GetCachedE, RepliesE, CheckE, GetStoredE, ListReadE DEF Goes, GetCached, Leave, Check
<1>2. UNCHANGED <<bolt, cache, flush, mover, now>> /\ (Memory(heap) \/ UNCHANGED heap)
  <2>1. GetStored(r) \/ (\E gets \in BOOLEAN : ListRead(r, gets)) => UNCHANGED heap
    BY <1>1, GetStoredE, ListReadE DEF Goes
  <2> QED BY <1>1, <2>1 DEF GetCached, Leave, Check, GetStored, ListRead
<1>3. Keeps(h)
  BY <1>2, Keeping
<1>4. Calm(h)
  <2>1. (Deletes(h) => Deletes(h)') /\ (Unsaved(h) => Unsaved(h)')
    BY <1>1 DEF Deletes, Unsaved, Is
  <2>2. \A s \in Reqs : Is(s, h, Works)' => at'[s] = at[s]
    BY <1>1 DEF Is, Works
  <2>3. now' >= now
    BY <1>2 DEF TInv, Basic, SharesAssumption
  <2> QED BY <1>2, <1>3, <2>1, <2>2, <2>3 DEF Calm, Still, NoMoreSaves
<1> QED BY <1>4, CalmSound DEF Onward

\* A download changes the counts of an object, and nothing else.
LEMMA CountKeeps ==
  ASSUME SharesAssumption, TInv, TInv', NEW h \in Hashes, NEW r \in Reqs, Count(r) \/ CountUser(r), NEW o, o # Nil, Belongs(o, h)'
  PROVE  SameTerms(heap'[o], heap[o]) /\ heap'[o].path = heap[o].path
<1>1. at[r].pc \in Holders /\ at[r].pc \in {"count", "countview", "countuser"}
  BY DEF Count, CountUser, Holders
<1>2. at[r].obj \in Objs /\ Obj(r) \in Links /\ heap \in [Objs -> Links \cup {Nil}] /\ at[r].arg \in Callers
  BY <1>1, Own DEF TInv, Mem, Requests, ReqOK
<1>3. \A l \in Links : \A c : /\ SameTerms(One(l), l) /\ One(l).path = l.path
                          /\ SameTerms(Credit(l, c), l) /\ Credit(l, c).path = l.path
  BY DEF One, Credit, Links, SameTerms
<1>4. One(Obj(r)) \in Links
  BY <1>2, Ones DEF One
<1>5. SameTerms(Both(Obj(r), at[r].arg), Obj(r)) /\ Both(Obj(r), at[r].arg).path = Obj(r).path
  BY <1>2, <1>3, <1>4 DEF Both, SameTerms
<1>6. \E l : Memory([heap EXCEPT ![at[r].obj] = l]) /\ SameTerms(l, Obj(r)) /\ l.path = Obj(r).path
  <2>1. CASE Count(r)
    BY <2>1, <1>2, <1>3, <1>5, CountE
  <2>2. CASE CountUser(r)
    <3>1. Memory([heap EXCEPT ![at[r].obj] = Credit(heap[at[r].obj], at[r].arg)])
      BY <2>2, <1>2 DEF CountUser
    <3> QED BY <1>2, <1>3, <3>1 DEF Obj
  <2> QED BY <2>1, <2>2
<1> PICK l : Memory([heap EXCEPT ![at[r].obj] = l]) /\ SameTerms(l, Obj(r)) /\ l.path = Obj(r).path
  BY <1>6
<1>7. heap'[o] = [heap EXCEPT ![at[r].obj] = l][o] /\ o \in Objs
  BY Kept, TypedNext
<1>8. SameTerms(heap[o], heap[o])
  BY DEF SameTerms
<1> QED BY <1>2, <1>7, <1>8 DEF Obj

LEMMA CountSound ==
  ASSUME SharesAssumption, TInv, TInv', NEW h \in Hashes, NEW r \in Reqs, Hash(r) = h, Sound(h), Held(h), Dead(h) => Dead(h)',
         "patch" \notin excuse'[h] => Patched(h) /\ PathAlike(h), Count(r) \/ CountUser(r)
  PROVE  Onward(h)
<1>1. /\ at[r].pc \in {"count", "countview", "countuser"} /\ at'[r].pc \in {"countuser", "idle"}
      /\ \A s \in Reqs : s # r => at'[s] = at[s]
      /\ UNCHANGED <<bolt, cache, flush, mover, now>>
  BY CountE, RepliesE DEF Goes, Count, CountUser
<1>2. CASE Dead(h)
  BY <1>2, DeadSound DEF Onward
<1>3. CASE ~Dead(h)
  <2>1. cache[h] = at[r].obj /\ at[r].obj # Nil
    BY <1>1, <1>3 DEF Held, Is, Hash, TInv, Requests, ReqOK, Holders
  <2>2. \A o : o # Nil /\ Belongs(o, h)' => SameTerms(heap'[o], heap[o]) /\ heap'[o].path = heap[o].path
    BY CountKeeps
  <2>3. /\ SameTerms(heap'[cache[h]], heap[cache[h]]) /\ heap'[cache[h]].path = heap[cache[h]].path
        /\ \A s \in Reqs : at'[s].h = h /\ at'[s].pc \in Holders => heap'[at'[s].obj].path = heap[at'[s].obj].path
    BY <1>1, <2>1, <2>2, TypedNext
  <2>4. (Deletes(h) => Deletes(h)') /\ (Unsaved(h) => Unsaved(h)')
    BY <1>1 DEF Deletes, Unsaved, Is
  <2>5. \A s \in Reqs : Is(s, h, Works)' => at'[s] = at[s]
    BY <1>1 DEF Is, Works
  <2>6. Sound(h)'
    BY <1>1, <2>1, <2>3, <2>4, <2>5, LiveSound
  <2>7. Patched(h) => Patched(h)'
    BY <2>3, <2>5 DEF Patched, Is, Works, Holders
  <2>8. PathAlike(h) => PathAlike(h)'
    BY <1>1, <2>1, <2>3, <2>4 DEF PathAlike
  <2> QED BY <2>6, <2>7, <2>8 DEF Onward
<1> QED BY <1>2, <1>3

LEMMA WriteSound ==
  ASSUME SharesAssumption, TInv, TInv', NEW h \in Hashes, NEW r \in Reqs, Hash(r) = h, Sound(h), Plain(h)', Known(h)',
         "patch" \notin excuse'[h] => Patched(h) /\ PathAlike(h), Edit(r) \/ \E p \in Paths : Patch(r, p)
  PROVE  Onward(h)
<1>1. /\ at'[r].h = h /\ at'[r].pc \in {"save", "savepath"} /\ at'[r].obj = at[r].obj /\ at[r].pc = "got"
      /\ \A s \in Reqs : s # r => at'[s] = at[s]
      /\ UNCHANGED <<bolt, cache, flush, mover, now>> /\ Note(Detached(r))
      /\ heap' = [heap EXCEPT ![at[r].obj] = heap'[at[r].obj]] /\ at[r].obj # Nil
  BY EditE, PatchE DEF Goes, Edit, Patch, TInv, Requests, ReqOK, Holders
<1>2. cache[h] = at[r].obj
  <2>1. Detached(r)[h] \subseteq excuse'[h]
    BY <1>1, Detachments, Mono
  <2>2. cache[h] # at[r].obj => "delete" \in Detached(r)[h]
    BY Adds DEF Detached, Excuses
  <2> QED BY <2>1, <2>2 DEF Plain
<1>3. Unsaved(h)'
  BY <1>1 DEF Unsaved, Is
<1>4. Sound(h)'
  <2>1. \A s \in Reqs : Is(s, h, Works)' => at'[s] = at[s] \/ (at'[s].obj = cache[h] /\ at'[s].pc \in {"save", "savepath"})
    BY <1>1, <1>2
  <2> QED BY <1>1, <1>2, <1>3, <2>1, EditSound
<1>5. ASSUME "patch" \notin excuse'[h] PROVE Patched(h)' /\ PathAlike(h)'
  <2>1. PathAlike(h)'
    BY <1>1, <1>2, <1>3 DEF PathAlike
  <2>2. heap \in [Objs -> Links \cup {Nil}]
    BY DEF TInv, Mem
  <2>3. CASE Edit(r)
    <3>1. heap'[at[r].obj].path = heap[at[r].obj].path /\ at'[r].pc = "save"
      BY <2>3, EditE DEF Goes, Obj
    <3>2. \A o : heap'[o].path = heap[o].path \/ o \notin Objs
      BY <1>1, <2>2, <3>1
    <3>3. \A s \in Reqs : at'[s].h = h /\ at'[s].pc \in Holders => at'[s].obj \in Objs
      BY TypedNext
    <3> QED BY <1>1, <1>5, <2>1, <3>1, <3>2, <3>3 DEF Patched, Is, Holders
  <2>4. ASSUME NEW p \in Paths, Patch(r, p) PROVE Patched(h)'
    <3>1. heap'[at[r].obj].path = p /\ at'[r].pc = "savepath" /\ at'[r].arg = p
      BY <2>4, PatchE DEF Goes
    <3>2. \A s \in Reqs : Is(s, h, {"savepath", "repath"})' => s = r
      BY <1>1, <1>5, <3>1 DEF Known, Is
    <3> QED BY <1>1, <3>1, <3>2 DEF Patched
  <2> QED BY <2>1, <2>3, <2>4
<1> QED BY <1>4, <1>5 DEF Onward

\* A record read into an object of its own; or found to have expired.
LEMMA ReadSound ==
  ASSUME SharesAssumption, TInv, TInv', NEW h \in Hashes, NEW r \in Reqs, Hash(r) = h, Sound(h), Plain(h)', Known(h)',
         "patch" \notin excuse'[h] => Patched(h) /\ PathAlike(h),
         GetStored(r) \/ \E gets \in BOOLEAN : ListRead(r, gets)
  PROVE  Onward(h)
<1>1. /\ \A s \in Reqs : s # r => at'[s] = at[s]
      /\ at[r].pc \in {"get", "list"}
      /\ UNCHANGED <<bolt, cache, flush, mover, now>>
      /\ at'[r].pc \in {"idle", "purge", "purgebolt", "fill", "listfill"}
  BY GetStoredE, ListReadE DEF Goes, GetStored, ListRead
<1>d. (Deletes(h) => Deletes(h)') /\ (Unsaved(h) => Unsaved(h)') /\ (Unsaved(h)' => Unsaved(h))
  BY <1>1 DEF Deletes, Unsaved, Is
<1>2. CASE at'[r].pc \in {"idle", "purge"}
  BY <1>2, LookSound
<1>3. CASE at'[r].pc = "purgebolt"
  <2>1. at'[r].h = h /\ UNCHANGED heap /\ (cache[h] # Nil => bolt[h] # Nil /\ Expired(bolt[h]))
    BY <1>1, <1>3, GetStoredE, ListReadE DEF Goes
  <2>2. ~Writes(h)'
    BY <1>3, <2>1 DEF Known, Plain, Deletes, Is
  <2>3. Alike(h)'
    BY <1>1, <1>d, <2>1 DEF Sound, Alike, Expired
  <2>4. ASSUME cache'[h] # Nil PROVE Purgers(h)'
    <3>1. ~Unsaved(h)
      BY <1>d, <2>2 DEF Unsaved, Writes, Is
    <3>2. SameTerms(heap[cache[h]], bolt[h]) /\ Expired(bolt[h])
      BY <1>1, <2>1, <2>4, <3>1 DEF Sound, Alike
    <3>3. Expired(heap[cache[h]])
      BY <3>2 DEF Expired, SameTerms
    <3> QED BY <1>1, <2>1, <3>3 DEF Purgers, Expired
  <2>5. Sound(h)' /\ Patched(h)'
    BY <2>2, <2>3, <2>4, IdleSound
  <2>6. PathAlike(h) => PathAlike(h)'
    BY <1>1, <1>d, <2>1, <2>2 DEF PathAlike, Writes, Is
  <2> QED BY <2>5, <2>6 DEF Onward
<1>4. CASE at'[r].pc \in {"fill", "listfill"}
  <2>1. /\ at'[r].h = h /\ at'[r].obj = NewObj /\ bolt[h] # Nil /\ heap' = [heap EXCEPT ![NewObj] = bolt[h]]
    BY <1>1, <1>4, GetStoredE, ListReadE DEF Goes
  <2>2. NewObj \in Objs /\ NewObj \notin InUse /\ heap \in [Objs -> Links \cup {Nil}]
    BY Room, Fresh DEF TInv, Mem
  <2> HIDE DEF NewObj, InUse
  <2>3. heap'[NewObj] = bolt[h] /\ \A o \in InUse : heap'[o] = heap[o] \/ o = Nil
    BY <2>1, <2>2 DEF TInv, Mem
  <2>4. /\ cache[h] # Nil => heap'[cache[h]] = heap[cache[h]]
        /\ \A s \in Reqs : s # r /\ at[s].h = h /\ at[s].pc \in Holders => heap'[at[s].obj] = heap[at[s].obj]
        /\ mover.h = h => heap'[mover.obj] = heap[mover.obj]
    BY <2>3, Typed
  <2>5. SameTerms(bolt[h], bolt[h]) /\ SameCounts(bolt[h], bolt[h])
    BY DEF SameTerms, SameCounts
  <2>6. Editors(h)' /\ Readers(h)' /\ Movers(h)' /\ Savers(h)'
    <3>1. Editors(h)'
      BY <1>1, <1>4, <2>4 DEF Sound, Editors, Is, Holders
    <3>2. Readers(h)'
      BY <1>1, <1>4, <2>1, <2>3, <2>4, <2>5 DEF Sound, Readers, Is, Holders
    <3>3. Movers(h)' /\ Savers(h)'
      BY <1>1, <2>4 DEF Sound, Movers, Savers
    <3> QED BY <3>1, <3>2, <3>3
  <2>7. Alike(h)' /\ Purgers(h)'
    BY <1>1, <1>4, <1>d, <2>4 DEF Sound, Alike, Purgers, Expired, Is
  <2>8. Patched(h) => Patched(h)'
    BY <1>1, <1>4, <2>4 DEF Patched, Is, Holders
  <2>9. PathAlike(h) => PathAlike(h)'
    BY <1>1, <1>d, <2>1, <2>3, <2>4 DEF PathAlike, Is, Holders
  <2> QED BY <2>6, <2>7, <2>8, <2>9 DEF Onward, Sound
<1> QED BY <1>1, <1>2, <1>3, <1>4

\* An object becomes that of the link: of what was read, or saved for the first time.
LEMMA FillSound ==
  ASSUME SharesAssumption, TInv, TInv', NEW h \in Hashes, NEW r \in Reqs, Hash(r) = h, Sound(h), Plain(h), Plain(h)', Known(h),
         "patch" \notin excuse'[h] => Patched(h) /\ PathAlike(h), Fill(r) \/ ListFill(r) \/ Recache(r)
  PROVE  Onward(h)
<1>1. /\ \A s \in Reqs : s # r => at'[s] = at[s]
      /\ at[r].pc \in {"fill", "listfill", "recache"} /\ at[r].h = h /\ at[r].obj # Nil
      /\ at'[r].pc \in {"got", "idle", "orphan"}
      /\ UNCHANGED <<bolt, flush, mover, now>> /\ Memory(heap)
  BY FillE, ListFillE, RepliesE DEF Goes, Fill, ListFill, Recache, TInv, Requests, ReqOK, Holders, Hash
<1>2. cache[h] \in {Nil, cache'[h]} /\ (cache[h] = Nil => cache'[h] = at[r].obj)
  <2>1. CASE ListFill(r)
    BY <2>1 DEF ListFill, TInv, Basic
  <2>2. CASE Fill(r) \/ Recache(r)
    <3>1. Note(Doubled(r)) /\ cache'[h] = at[r].obj
      BY <2>2 DEF Fill, Recache, TInv, Basic
    <3>2. Doubled(r)[h] \subseteq excuse'[h]
      BY <1>1, <3>1, Detachments, Mono
    <3>3. cache[h] \notin {Nil, at[r].obj} => "doubled" \in Doubled(r)[h]
      BY Adds DEF Doubled, Excuses
    <3> QED BY <3>1, <3>2, <3>3 DEF Plain
  <2> QED BY <2>1, <2>2
<1>3. Keeps(h)
  BY <1>1, Keeping
<1>4. ~Deletes(h)
  BY <1>1 DEF Known, Plain, Writes, Is
<1>d. (Unsaved(h) => Unsaved(h)') /\ \A s \in Reqs : Is(s, h, Works)' => at'[s] = at[s] /\ s # r
  BY <1>1 DEF Unsaved, Is, Works
<1>5. CASE cache[h] # Nil
  <2>1. now' >= now
    BY <1>1 DEF TInv, Basic, SharesAssumption
  <2>2. Calm(h)
    BY <1>1, <1>2, <1>3, <1>4, <1>5, <1>d, <2>1 DEF Calm, Still, NoMoreSaves
  <2> QED BY <2>2, CalmSound DEF Onward
<1>6. CASE cache[h] = Nil
  <2>1. cache'[h] = at[r].obj /\ heap'[cache'[h]] = heap[at[r].obj] /\ cache'[h] # Nil
    BY <1>1, <1>2, <1>3, <1>6, CalmHeap
  <2>2. /\ bolt[h] # Nil /\ SameTerms(heap[at[r].obj], bolt[h])
        /\ "patch" \notin excuse'[h] /\ mover.h # h => heap[at[r].obj].path = bolt[h].path
    <3>1. CASE at[r].pc = "recache"
      <4>1. bolt[h] # Nil /\ heap[at[r].obj] = bolt[h]
        BY <1>1, <1>6, <3>1 DEF Sound, Editors, Is
      <4> QED BY <4>1 DEF SameTerms
    <3>2. CASE at[r].pc \in {"fill", "listfill"}
      BY <1>1, <1>6, <3>2 DEF Sound, Readers, PathAlike, Is
    <3> QED BY <1>1, <3>1, <3>2
  <2>3. \A s \in Reqs : ~Is(s, h, {"savepath", "repath", "save"})
    <3>1. \A s \in Reqs : Is(s, h, {"savepath", "repath", "save"}) => at[s].obj # Nil
      BY DEF Is, Holders, TInv, Requests, ReqOK
    <3> QED BY <1>6, <2>2, <3>1 DEF Sound, Editors, Is
  <2>4. Editors(h)' /\ Readers(h)' /\ Patched(h)'
    BY <1>d, <2>1, <2>3 DEF Editors, Readers, Patched, Is, Works
  <2>5. Movers(h)'
    BY <1>1, <1>6, <2>1 DEF Sound, Movers
  <2>6. Savers(h)'
    <3>1. flush # Nil => \A e \in flush : e[2] # Nil
      BY DEF TInv, Saving, SharesAssumption
    <3> QED BY <1>1, <1>6, <3>1 DEF Sound, Savers
  <2>7. Alike(h)'
    BY <1>1, <2>1, <2>2 DEF Alike, SameTerms
  <2>8. Purgers(h)'
    BY <1>1, <1>4 DEF Purgers, Deletes, Is
  <2>9. "patch" \notin excuse'[h] => PathAlike(h)'
    BY <1>1, <2>1, <2>2 DEF PathAlike
  <2> QED BY <2>4, <2>5, <2>6, <2>7, <2>8, <2>9 DEF Onward, Sound
<1> QED BY <1>5, <1>6

\* The record goes, and then the object.
LEMMA PurgeSound ==
  ASSUME SharesAssumption, TInv, TInv', NEW h \in Hashes, NEW r \in Reqs, Hash(r) = h, Sound(h), Plain(h), Plain(h)', Known(h),
         Known(h)', Purge(r) \/ Unbolt(r) \/ Uncache(r)
  PROVE  Onward(h)
<1>1. /\ \A s \in Reqs : s # r => at'[s] = at[s]
      /\ UNCHANGED <<flush, mover, now>> /\ Memory(heap) /\ at[r].h = h
  BY PurgeE, UnboltE, RepliesE DEF Goes, Purge, Unbolt, Uncache, Hash
<1>2. Keeps(h)
  BY <1>1, Keeping
<1>3. CASE Uncache(r)
  <2>1. cache'[h] = Nil /\ at[r].pc \in {"uncache", "drop"} /\ at'[r].pc = "idle"
    BY <1>3, RepliesE DEF Uncache, TInv, Basic, Goes
  <2>2. ~Writes(h)
    BY <1>1, <2>1 DEF Known, Plain, Deletes, Is
  <2>3. ~Writes(h)'
    BY <1>1, <2>1, <2>2 DEF Writes, Is
  <2> QED BY <2>1, <2>3, IdleSound DEF Onward
<1>4. CASE Purge(r) \/ Unbolt(r)
  <2>1. bolt'[h] = Nil /\ cache' = cache
    BY <1>4 DEF Purge, Unbolt, TInv, Basic
  <2>2. /\ at'[r].pc \in {"drop", "idle", "uncache"}
        /\ (at'[r].h = h /\ at'[r].pc \in {"drop", "uncache"}) \/ at[r].pc = "purgebolt"
    BY <1>4, PurgeE, UnboltE DEF Goes
  <2>3. ~Writes(h)'
    <3>1. CASE at[r].pc = "purgebolt"
      <4>1. ~Writes(h)
        BY <1>1, <3>1 DEF Known, Plain, Deletes, Is
      <4> QED BY <1>1, <2>2, <4>1 DEF Writes, Is
    <3>2. CASE at'[r].h = h /\ at'[r].pc \in {"drop", "uncache"}
      BY <3>2 DEF Known, Plain, Deletes, Is
    <3> QED BY <2>2, <3>1, <3>2
  <2>4. ASSUME cache'[h] # Nil PROVE Alike(h)' /\ Purgers(h)'
    <3>1. heap'[cache[h]] = heap[cache[h]] /\ cache[h] # Nil
      BY <1>2, <2>1, <2>4, CalmHeap
    <3>2. CASE at[r].pc = "purgebolt"
      <4>1. Expired(heap[cache[h]])
        BY <1>1, <3>1, <3>2 DEF Sound, Purgers, Is
      <4> QED BY <1>1, <2>1, <3>1, <4>1 DEF Alike, Purgers, Expired
    <3>3. CASE at'[r].h = h /\ at'[r].pc \in {"drop", "uncache"}
      <4>1. Deletes(h)'
        BY <3>3 DEF Deletes, Is
      <4>2. Purgers(h)'
        BY <1>1, <2>1, <3>1, <3>3 DEF Sound, Purgers, Expired, Is
      <4> QED BY <2>1, <4>1, <4>2 DEF Alike
    <3> QED BY <2>2, <3>2, <3>3
  <2> QED BY <2>1, <2>3, <2>4, IdleSound DEF Onward
<1> QED BY <1>3, <1>4

LEMMA SaveSound ==
  ASSUME SharesAssumption, TInv, TInv', NEW h \in Hashes, NEW r \in Reqs, Hash(r) = h, Sound(h), Plain(h), Known(h),
         "patch" \notin excuse'[h] => Patched(h) /\ PathAlike(h), Save(r)
  PROVE  Onward(h)
<1>1. /\ \A s \in Reqs : s # r => at'[s] = at[s]
      /\ at[r].h = h /\ at'[r].h = h /\ at'[r].obj = at[r].obj /\ at'[r].arg = at[r].arg
      /\ \/ at[r].pc = "save" /\ at'[r].pc = "recache"
         \/ at[r].pc = "savepath" /\ at'[r].pc = "repath"
      /\ UNCHANGED <<cache, heap, flush, mover, now>> /\ bolt'[h] = heap[at[r].obj]
  BY SaveE DEF Goes, Save, Hash, Obj, TInv, Basic
<1>2. mover.todo = {} /\ ~Deletes(h)
  BY <1>1 DEF Known, Plain, Writes, Edits, Is, NoMove
<1>3. bolt'[h] # Nil /\ at[r].obj # Nil
  BY <1>1, Own DEF Obj, Holders, SharesAssumption
<1>4. Movers(h)' /\ Savers(h)' /\ Purgers(h)'
  BY <1>1, <1>2 DEF Sound, Movers, Savers, Purgers, Deletes, Is
<1>5. Patched(h) => Patched(h)'
  BY <1>1 DEF Patched, Is
<1>6. CASE cache[h] = at[r].obj
  <2>1. Editors(h)' /\ Readers(h)' /\ Alike(h)'
    BY <1>1, <1>3, <1>6 DEF Sound, Editors, Readers, Alike, SameTerms, Is
  <2>2. PathAlike(h)'
    BY <1>1, <1>3, <1>6 DEF PathAlike
  <2> QED BY <1>4, <1>5, <2>1, <2>2 DEF Onward, Sound
<1>7. CASE cache[h] # at[r].obj
  <2>1. /\ at[r].pc = "save" /\ cache[h] = Nil /\ bolt[h] = Nil
        /\ \A s \in Reqs : Is(s, h, {"save"}) => s = r
    BY <1>1, <1>7 DEF Sound, Editors, Is
  <2>2. \A s \in Reqs : Is(s, h, {"savepath", "repath"}) => at[s].obj # Nil
    BY DEF Is, Holders, TInv, Requests, ReqOK
  <2>3. \A s \in Reqs : s # r => ~Is(s, h, {"savepath", "repath", "save", "recache", "fill", "listfill"})
    BY <2>1, <2>2 DEF Sound, Editors, Readers, Is
  <2>4. Editors(h)' /\ Readers(h)' /\ Alike(h)' /\ PathAlike(h)'
    BY <1>1, <1>3, <2>1, <2>3 DEF Editors, Readers, Alike, PathAlike, Is
  <2> QED BY <1>4, <1>5, <2>4 DEF Onward, Sound
<1> QED BY <1>6, <1>7

LEMMA RepathSound ==
  ASSUME SharesAssumption, TInv, TInv', NEW h \in Hashes, NEW r \in Reqs, Hash(r) = h, Sound(h), Plain(h),
         "patch" \notin excuse'[h] => Patched(h) /\ PathAlike(h), Repath(r)
  PROVE  Onward(h)
<1>1. /\ \A s \in Reqs : s # r => at'[s] = at[s]
      /\ at[r].h = h /\ at[r].pc = "repath" /\ at'[r].pc = "idle" /\ at[r].obj # Nil
      /\ UNCHANGED <<bolt, cache, flush, mover, now>>
  BY RepliesE DEF Goes, Repath, Hash, TInv, Requests, ReqOK, Holders
<1>2. cache[h] = at[r].obj
  BY <1>1 DEF Sound, Editors, Is
<1>3. Memory([heap EXCEPT ![cache[h]].path = at[r].arg])
  BY <1>1, <1>2 DEF Repath
<1>4. heap \in [Objs -> Links \cup {Nil}] /\ cache[h] \in Objs /\ heap[cache[h]] \in Links
  BY <1>1, <1>2, Typed DEF TInv, Mem
<1> PICK l : l = [heap[cache[h]] EXCEPT !.path = at[r].arg]
  OBVIOUS
<1>5. SameTerms(l, heap[cache[h]]) /\ l.path = at[r].arg
  BY <1>4 DEF SameTerms, Links
<1>6. Memory([heap EXCEPT ![cache[h]] = l])
  BY <1>3, <1>4
<1>7. \A o : o # Nil /\ Belongs(o, h)' => o \in Objs /\ heap'[o] = [heap EXCEPT ![cache[h]] = l][o]
  <2>1. ASSUME NEW hp, Memory(hp), NEW o, o # Nil, Belongs(o, h)' PROVE o \in Objs /\ heap'[o] = hp[o]
    BY <2>1, Kept, TypedNext
  <2> QED BY <1>6, <2>1
<1>8. /\ heap'[cache[h]] = l
      /\ \A s \in Reqs : at'[s].h = h /\ at'[s].pc \in Holders => heap'[at'[s].obj] = heap[at'[s].obj] \/ heap'[at'[s].obj] = l
  BY <1>1, <1>2, <1>4, <1>7, TypedNext
<1>9. (Deletes(h) => Deletes(h)') /\ (Unsaved(h) => Unsaved(h)') /\ \A s \in Reqs : Is(s, h, Works)' => at'[s] = at[s] /\ s # r
  BY <1>1 DEF Deletes, Unsaved, Is, Works
<1>10. Sound(h)'
  BY <1>1, <1>2, <1>5, <1>8, <1>9, LiveSound
<1>11. ASSUME "patch" \notin excuse'[h] PROVE Patched(h)' /\ PathAlike(h)'
  <2>1. l.path = heap[cache[h]].path
    BY <1>1, <1>2, <1>5, <1>11 DEF Patched, Is
  <2>2. l = heap[cache[h]]
    BY <1>4, <1>5, <2>1, <1>11, <1>1, <1>2 DEF Patched, Is, Links
  <2>3. \A s \in Reqs : at'[s].h = h /\ at'[s].pc \in Holders => heap'[at'[s].obj].path = heap[at'[s].obj].path
    <3>1. \A o : o # Nil /\ Belongs(o, h)' => heap'[o] = heap[o]
      BY <1>4, <1>7, <2>2
    <3> QED BY <3>1, TypedNext
  <2>4. Patched(h)'
    BY <1>9, <1>11, <2>3 DEF Patched, Is, Works, Holders
  <2>5. PathAlike(h)'
    BY <1>1, <1>2, <1>8, <1>9, <1>11, <2>1 DEF PathAlike
  <2> QED BY <2>4, <2>5
<1> QED BY <1>10, <1>11 DEF Onward

LEMMA RequestSound ==
  ASSUME SharesAssumption, TInv, TInv', Owned, NEW h \in Hashes, Known(h), Known(h)', Plain(h), Plain(h)', Sound(h), Held(h),
         Dead(h) => Dead(h)', "patch" \notin excuse'[h] => Patched(h) /\ PathAlike(h), NEW r \in Reqs, Request(r)
  PROVE  Onward(h)
<1>1. CASE h # Hash(r)
  <2>1. Far(h) /\ UNCHANGED <<flush, mover, now>>
    BY <1>1, RequestFar, RequestFrame
  <2>2. now' >= now
    BY <2>1 DEF TInv, Basic, SharesAssumption
  <2>3. (Deletes(h) => Deletes(h)') /\ (Unsaved(h) => Unsaved(h)')
    BY <2>1 DEF Far, Deletes, Unsaved, Is
  <2>4. Calm(h)
    BY <2>1, <2>2, <2>3 DEF Calm, Far, Still, NoMoreSaves, Is
  <2> QED BY <2>4, CalmSound DEF Onward
<1>2. ASSUME SaveFails(r), h = Hash(r) PROVE FALSE
  <2>1. Note(Only(h, "unsaved"))
    BY <1>2 DEF SaveFails
  <2>2. "unsaved" \in Only(h, "unsaved")[h] /\ \A g \in Hashes : Only(h, "unsaved")[g] \subseteq Excuses
    BY Adds DEF Excuses
  <2>3. Only(h, "unsaved")[h] \subseteq excuse'[h]
    BY <2>1, <2>2, Mono
  <2> QED BY <2>2, <2>3 DEF Plain
<1> QED BY <1>1, <1>2, LookSound, CountSound, WriteSound, ReadSound, FillSound, PurgeSound, SaveSound, RepathSound DEF Request
-------------------------------------------------------------------------------
(* The object and the record through moves, the shutdown and restarts          *)

LEMMA CreateSound ==
  ASSUME SharesAssumption, TInv, TInv', NEW h \in Hashes, Sound(h), "patch" \notin excuse'[h] => Patched(h) /\ PathAlike(h),
         NEW r \in Reqs, NEW g \in Hashes, NEW p \in Paths, Create(r, g, p)
  PROVE  Onward(h)
<1>1. /\ at'[r].h = g /\ at'[r].pc = "save" /\ at'[r].obj = NewObj /\ at[r].pc = "idle" /\ at[r].h = Nil
      /\ \A s \in Reqs : s # r => at'[s] = at[s]
      /\ UNCHANGED <<bolt, cache, now, flush, mover>> /\ g \notin born
      /\ heap' = [heap EXCEPT ![NewObj] = heap'[NewObj]]
  <2>1. Goes(r, g, {"save"}) /\ at'[r].obj = NewObj /\ at[r].pc = "idle" /\ at[r].h = Nil
        /\ heap' = [heap EXCEPT ![NewObj] = heap'[NewObj]]
    BY CreateE
  <2>2. UNCHANGED <<bolt, cache, now, flush, mover>> /\ g \notin born
    BY DEF Create
  <2> HIDE DEF NewObj
  <2> QED BY <2>1, <2>2 DEF Goes
<1>2. CASE g = h
  <2>1. /\ bolt[h] = Nil /\ cache[h] = Nil /\ (flush # Nil => \A e \in flush : e[1] # h) /\ h \notin mover.todo
        /\ \A s \in Reqs : at[s].h # h
    BY <1>1, <1>2 DEF TInv, Basic, Saving, Moving, MoverOK, Requests, ReqOK, SharesAssumption
  <2>2. Editors(h)' /\ Readers(h)' /\ Movers(h)' /\ Alike(h)' /\ Savers(h)' /\ Purgers(h)' /\ Patched(h)' /\ PathAlike(h)'
    BY <1>1, <2>1 DEF Editors, Readers, Movers, Alike, Savers, Purgers, Patched, PathAlike, Is
  <2> QED BY <2>2 DEF Onward, Sound
<1>3. CASE g # h
  <2>1. \A o : o # Nil /\ Belongs(o, h)' => Belongs(o, h)
    BY <1>1, <1>3 DEF Belongs
  <2>2. Keeps(h)
    <3>1. \A o : o # Nil /\ Belongs(o, h)' => o \in Objs /\ o # NewObj
      BY <2>1, Typed, Fresh
    <3>2. heap \in [Objs -> Links \cup {Nil}]
      BY DEF TInv, Mem
    <3> HIDE DEF NewObj
    <3> QED BY <1>1, <3>1, <3>2 DEF Keeps
  <2>3. (Deletes(h) => Deletes(h)') /\ (Unsaved(h) => Unsaved(h)') /\ now' >= now
    BY <1>1 DEF Deletes, Unsaved, Is, TInv, Basic, SharesAssumption
  <2>4. Calm(h)
    BY <1>1, <1>3, <2>2, <2>3 DEF Calm, Still, NoMoreSaves, Is
  <2> QED BY <2>4, CalmSound DEF Onward
<1> QED BY <1>2, <1>3

LEMMA MoveReadSound ==
  ASSUME SharesAssumption, TInv, TInv', NEW h \in Hashes, Sound(h), "patch" \notin excuse'[h] => Patched(h) /\ PathAlike(h), MoveRead
  PROVE  Onward(h)
<1>1. UNCHANGED <<bolt, cache, heap, at, flush, now>> /\ mover \in MoverRecs /\ mover.h = Nil
  BY DEF MoveRead, TInv, Moving, MoverOK
<1>2. mover'.h = Nil /\ (h \in mover'.todo => bolt[h] # Nil /\ mover'.read = bolt)
  BY <1>1 DEF MoveRead, MoverRecs, NoMove
<1>3. Nil # h
  BY DEF SharesAssumption
<1>4. Editors(h)' /\ Readers(h)' /\ Alike(h)' /\ Savers(h)' /\ Purgers(h)' /\ (Patched(h) => Patched(h)')
      /\ (PathAlike(h) => PathAlike(h)')
  BY <1>1, <1>2, <1>3 DEF Sound, Editors, Readers, Alike, Savers, Purgers, Patched, PathAlike, Unsaved, Deletes, Is, Expired
<1>5. Movers(h)'
  BY <1>1, <1>2, <1>3 DEF Movers
<1> QED BY <1>4, <1>5 DEF Onward, Sound

LEMMA MoveSaveSound ==
  ASSUME SharesAssumption, TInv, TInv', NEW h \in Hashes, Sound(h), "patch" \notin excuse'[h] => Patched(h) /\ PathAlike(h),
         Plain(h)', Known(h)', NEW g \in Hashes, MoveSave(g)
  PROVE  Onward(h)
<1>1. /\ UNCHANGED <<cache, at, flush, now>>
      /\ g \in mover.todo /\ mover.h = Nil /\ mover.obj = Nil /\ mover.read[g] \in Links /\ mover.new \in Paths
      /\ mover'.old = mover.old /\ mover'.new = mover.new /\ mover'.read = mover.read /\ mover'.todo = mover.todo
      /\ mover'.h = g /\ mover'.obj = NewObj
      /\ bolt' = [bolt EXCEPT ![g] = [mover.read[g] EXCEPT !.path = mover.new]]
      /\ heap' = [heap EXCEPT ![NewObj] = bolt'[g]] /\ g # Nil
  BY MoveSaveE DEF MoveSave, SharesAssumption
<1>2. NewObj \in Objs /\ NewObj \notin InUse /\ heap \in [Objs -> Links \cup {Nil}] /\ bolt \in [Hashes -> Links \cup {Nil}]
  BY Room, Fresh DEF TInv, Mem, Basic
<1> HIDE DEF NewObj, InUse
<1>3. CASE g # h
  <2>1. \A o : o # Nil /\ Belongs(o, h)' => Belongs(o, h)
    BY <1>1, <1>3 DEF Belongs
  <2>2. \A o : o # Nil /\ Belongs(o, h)' => o \in Objs /\ o # NewObj
    BY <1>2, <2>1, Typed
  <2>3. Keeps(h)
    BY <1>1, <1>2, <2>2 DEF Keeps
  <2>4. (Deletes(h) => Deletes(h)') /\ (Unsaved(h) => Unsaved(h)') /\ now' >= now
    BY <1>1 DEF Deletes, Unsaved, Is, TInv, Basic, SharesAssumption
  <2>5. bolt'[h] = bolt[h]
    BY <1>1, <1>2, <1>3
  <2>6. Calm(h)
    BY <1>1, <1>3, <2>3, <2>4, <2>5 DEF Calm, Still, NoMoreSaves, Is, SharesAssumption
  <2> QED BY <2>6, CalmSound DEF Onward
<1>4. CASE g = h
  <2>1. bolt[h] # Nil /\ mover.read[h] = bolt[h]
    BY <1>1, <1>4 DEF Sound, Movers
  <2>2. bolt'[h] = [bolt[h] EXCEPT !.path = mover.new] /\ bolt[h] \in Links
    BY <1>1, <1>2, <1>4, <2>1
  <2>3. SameTerms(bolt'[h], bolt[h]) /\ SameCounts(bolt'[h], bolt[h]) /\ bolt'[h].path = mover.new /\ bolt'[h] # Nil
    <3>1. SameTerms(bolt'[h], bolt[h]) /\ SameCounts(bolt'[h], bolt[h]) /\ bolt'[h].path = mover.new /\ bolt'[h] \in Links
      BY <1>1, <2>2 DEF SameTerms, SameCounts, Links
    <3> QED BY <3>1 DEF SharesAssumption
  <2>4. ~Edits(h)' /\ ~Saves(h)' /\ ~Deletes(h)'
    <3>1. mover' # NoMove /\ Writes(h)'
      BY <1>1, <1>4 DEF NoMove, Writes
    <3> QED BY <3>1 DEF Known, Plain
  <2>5. heap'[NewObj] = bolt'[h] /\ \A o \in InUse : heap'[o] = heap[o] \/ o = Nil
    BY <1>1, <1>2, <1>4 DEF TInv, Mem
  <2>6. /\ cache[h] # Nil => heap'[cache[h]] = heap[cache[h]]
        /\ \A s \in Reqs : at[s].h = h /\ at[s].pc \in Holders => heap'[at[s].obj] = heap[at[s].obj]
    BY <2>5, Typed
  <2>7. Editors(h)' /\ Patched(h)' /\ Savers(h)' /\ Purgers(h)'
    BY <2>4 DEF Editors, Patched, Savers, Purgers, Edits, Saves, Deletes, Is
  <2>8. Readers(h)'
    <3> SUFFICES ASSUME NEW s \in Reqs, Is(s, h, {"fill", "listfill"}), cache[h] = Nil
                 PROVE  SameTerms(heap'[at[s].obj], bolt'[h]) /\ SameCounts(heap'[at[s].obj], bolt'[h])
      BY <1>1, <2>3 DEF Readers, Is
    <3>1. SameTerms(heap[at[s].obj], bolt[h]) /\ SameCounts(heap[at[s].obj], bolt[h])
      BY DEF Sound, Readers
    <3>2. heap'[at[s].obj] = heap[at[s].obj]
      BY <2>6 DEF Is, Holders
    <3> QED BY <2>3, <3>1, <3>2 DEF SameTerms, SameCounts
  <2>9. Alike(h)'
    BY <1>1, <2>1, <2>3, <2>6 DEF Sound, Alike, SameTerms, Unsaved, Is
  <2>10. Movers(h)' /\ PathAlike(h)'
    BY <1>1, <1>4, <2>3, <2>5 DEF Movers, PathAlike
  <2> QED BY <2>7, <2>8, <2>9, <2>10 DEF Onward, Sound
<1> QED BY <1>3, <1>4

LEMMA MoveCacheSound ==
  ASSUME SharesAssumption, TInv, TInv', Owned, NEW h \in Hashes, Sound(h), "patch" \notin excuse'[h] => Patched(h) /\ PathAlike(h),
         Plain(h), Known(h), NEW g \in Hashes, MoveCache(g)
  PROVE  Onward(h)
<1>1. /\ mover.h = g /\ g \in mover.todo /\ mover.obj \in Objs /\ mover.new \in Paths
      /\ mover'.h = Nil /\ mover'.obj = Nil /\ mover'.todo = mover.todo \ {g}
      /\ mover'.todo # {} => mover'.new = mover.new /\ mover'.read = mover.read
      /\ UNCHANGED <<bolt, at, flush, now>> /\ g # Nil /\ mover.obj # Nil
  BY MoveCacheE DEF MoveCache, NoMove, SharesAssumption
<1>2. /\ heap \in [Objs -> Links \cup {Nil}] /\ cache \in [Hashes -> Objs \cup {Nil}] /\ Nil \notin Objs /\ Nil \notin Hashes
      /\ cache[g] # Nil => heap[cache[g]] \in Links
  BY Typed DEF TInv, Mem, Basic, SharesAssumption
<1>3. IF cache[g] = Nil THEN cache'[g] = mover.obj ELSE cache'[g] = cache[g]
  BY <1>2 DEF MoveCache
<1>4. \A x \in Hashes : x # g => cache'[x] = cache[x]
  BY <1>2 DEF MoveCache
<1> PICK l : l = IF cache[g] = Nil THEN Nil ELSE [heap[cache[g]] EXCEPT !.path = mover.new]
  OBVIOUS
<1>5. cache[g] # Nil => SameTerms(l, heap[cache[g]]) /\ l.path = mover.new
  BY <1>1, <1>2 DEF SameTerms, Links
<1>6. ASSUME NEW x \in Hashes, NEW o, o # Nil, Belongs(o, x)'
      PROVE  heap'[o] = IF o = cache[g] THEN l ELSE heap[o]
  <2>1. ASSUME NEW hp, Memory(hp) PROVE heap'[o] = hp[o]
    BY <1>6, <2>1, Kept
  <2>2. o \in Objs
    BY <1>6, TypedNext
  <2>3. CASE cache[g] = Nil
    BY <1>6, <2>1, <2>3 DEF MoveCache
  <2>4. CASE cache[g] # Nil
    <3>1. heap'[o] = [heap EXCEPT ![cache[g]].path = mover.new][o]
      BY <2>1, <2>4 DEF MoveCache
    <3> QED BY <1>2, <2>2, <2>4, <3>1
  <2> QED BY <2>3, <2>4
<1>7. CASE g # h
  <2>1. \A o : o # Nil /\ Belongs(o, h)' => Belongs(o, h)
    BY <1>1, <1>2, <1>4, <1>7 DEF Belongs
  <2>2. \A o : o # Nil /\ Belongs(o, h)' => o # cache[g]
    <3>1. \A o \in Objs : Belongs(o, g) /\ Belongs(o, h) => h = g
      BY DEF Owned
    <3> QED BY <1>2, <1>7, <2>1, <3>1, Typed
  <2>3. Keeps(h)
    BY <1>6, <2>2 DEF Keeps
  <2>4. (Deletes(h) => Deletes(h)') /\ (Unsaved(h) => Unsaved(h)') /\ now' >= now
    BY <1>1 DEF Deletes, Unsaved, Is, TInv, Basic, SharesAssumption
  <2>5. Still(h)
    BY <1>1, <1>2, <1>7 DEF Still
  <2>6. Calm(h)
    BY <1>1, <1>4, <1>7, <2>3, <2>4, <2>5 DEF Calm, NoMoreSaves, Is
  <2> QED BY <2>6, CalmSound DEF Onward
<1>8. CASE g = h
  <2>1. bolt[h] # Nil /\ bolt[h].path = mover.new /\ (cache[h] = Nil => heap[mover.obj] = bolt[h])
    BY <1>1, <1>8 DEF Sound, Movers
  <2>2. ~Edits(h) /\ ~Saves(h) /\ ~Deletes(h)
    <3>1. mover # NoMove /\ Writes(h)
      BY <1>1, <1>8 DEF NoMove, Writes
    <3> QED BY <3>1 DEF Known, Plain
  <2>3. cache'[h] # Nil
    BY <1>1, <1>3, <1>8
  <2>4. heap'[cache'[h]] = IF cache'[h] = cache[h] THEN l ELSE heap[cache'[h]]
    <3>1. \A o : cache'[h] = o => Belongs(o, h)'
      BY TypedNext
    <3> QED BY <1>6, <1>8, <2>3, <3>1
  <2>5. SameTerms(heap'[cache'[h]], bolt[h]) \/ Unsaved(h)
    <3>1. CASE cache[h] = Nil
      BY <1>1, <1>3, <1>8, <2>1, <2>4, <3>1 DEF SameTerms
    <3>2. CASE cache[h] # Nil
      BY <1>3, <1>5, <1>8, <2>1, <2>4, <3>2 DEF Sound, Alike, SameTerms
    <3> QED BY <3>1, <3>2
  <2>6. heap'[cache'[h]].path = bolt[h].path
    BY <1>1, <1>3, <1>5, <1>8, <2>1, <2>4
  <2>7. Editors(h)' /\ Patched(h)' /\ Savers(h)' /\ Purgers(h)'
    BY <1>1, <2>2 DEF Editors, Patched, Savers, Purgers, Edits, Saves, Deletes, Is
  <2>8. Readers(h)' /\ Movers(h)'
    BY <1>1, <1>8, <2>3 DEF Readers, Movers
  <2>9. Alike(h)' /\ PathAlike(h)'
    BY <1>1, <2>1, <2>3, <2>5, <2>6 DEF Alike, PathAlike, Unsaved, Is
  <2> QED BY <2>7, <2>8, <2>9 DEF Onward, Sound
<1> QED BY <1>7, <1>8

LEMMA FlushSaveSound ==
  ASSUME SharesAssumption, TInv, TInv', NEW h \in Hashes, Sound(h), "patch" \notin excuse'[h] => Patched(h) /\ PathAlike(h),
         Plain(h), Known(h), flush # Nil, NEW e \in flush, FlushSave(e)
  PROVE  Onward(h)
<1>1. /\ UNCHANGED <<cache, now, at, mover>> /\ flush' \subseteq flush /\ bolt' = [bolt EXCEPT ![e[1]] = heap[e[2]]]
      /\ e[1] \in Hashes /\ e[2] \in Objs /\ e[2] \in InUse /\ bolt \in [Hashes -> Links \cup {Nil}] /\ Nil \notin Objs
  BY InUseNow DEF FlushSave, TInv, Saving, Basic, SharesAssumption
<1>2. Keeps(h)
  BY Keeping DEF FlushSave
<1>3. CASE e[1] # h
  <2>1. bolt'[h] = bolt[h]
    BY <1>1, <1>3
  <2>2. (Deletes(h) => Deletes(h)') /\ (Unsaved(h) => Unsaved(h)') /\ now' >= now
    BY <1>1 DEF Deletes, Unsaved, Is, TInv, Basic, SharesAssumption
  <2>3. Calm(h)
    BY <1>1, <1>2, <2>1, <2>2 DEF Calm, Still, NoMoreSaves, Is
  <2> QED BY <2>3, CalmSound DEF Onward
<1>4. CASE e[1] = h
  <2>1. cache[h] = e[2] /\ cache[h] # Nil /\ bolt'[h] = heap[cache[h]]
    BY <1>1, <1>4 DEF Sound, Savers
  <2>2. mover.todo = {} /\ ~Deletes(h)
    <3>1. Saves(h) /\ Writes(h)
      BY <1>4 DEF Saves, Writes
    <3> QED BY <3>1 DEF Known, Plain, NoMove
  <2>3. bolt'[h] # Nil
    BY <2>1, Typed DEF SharesAssumption
  <2>4. heap'[cache[h]] = heap[cache[h]]
    BY <1>1, <1>2, <2>1, CalmHeap
  <2>5. Editors(h)' /\ Readers(h)'
    BY <1>1, <2>1 DEF Sound, Editors, Readers, Is
  <2>6. Movers(h)' /\ Savers(h)' /\ Purgers(h)'
    BY <1>1, <2>2 DEF Sound, Movers, Savers, Purgers, Deletes, Is
  <2>7. Alike(h)' /\ PathAlike(h)'
    BY <1>1, <2>1, <2>3, <2>4 DEF Alike, PathAlike, SameTerms
  <2>8. Patched(h) => Patched(h)'
    BY <1>1, <1>2, CalmHeap DEF Patched, Is, Holders
  <2> QED BY <2>5, <2>6, <2>7, <2>8 DEF Onward, Sound
<1> QED BY <1>3, <1>4

LEMMA RestSound ==
  ASSUME SharesAssumption, TInv, TInv', Owned, NEW h \in Hashes, Known(h), Known(h)', Plain(h), Plain(h)', Sound(h),
         "patch" \notin excuse'[h] => Patched(h) /\ PathAlike(h), [Next]_vars, ~\E r \in Reqs : Request(r)
  PROVE  Onward(h)
<1>c. Calm(h) => Onward(h)
  BY CalmSound DEF Onward
<1>0. Nil \notin Hashes /\ now \in Int
  BY DEF TInv, Basic, SharesAssumption
<1>1. ASSUME NEW r \in Reqs, NEW g \in Hashes, Open(r, g) PROVE Onward(h)
  <2>1. Goes(r, g, {"get", "list"}) /\ at[r].h = Nil /\ UNCHANGED <<bolt, cache, heap, flush, mover, now>>
    BY <1>1, OpenE DEF Open
  <2>2. (Deletes(h) => Deletes(h)') /\ (Unsaved(h) => Unsaved(h)') /\ \A s \in Reqs : Is(s, h, Works)' => at'[s] = at[s]
    BY <1>0, <2>1 DEF Deletes, Unsaved, Is, Goes, Works
  <2>3. Calm(h)
    BY <1>0, <2>1, <2>2, Keeping DEF Calm, Still, NoMoreSaves
  <2> QED BY <1>c, <2>3
<1>2. ASSUME NEW m \in Moves, Rename(m[1], m[2]) PROVE Onward(h)
  <2>1. /\ mover'.todo = {} /\ mover'.h = Nil /\ mover.todo = {} /\ mover.h = Nil
        /\ UNCHANGED <<bolt, cache, heap, at, flush, now>>
    BY <1>2 DEF Rename, NoMove
  <2>2. (Deletes(h) => Deletes(h)') /\ (Unsaved(h) => Unsaved(h)')
    BY <2>1 DEF Deletes, Unsaved, Is
  <2>3. Calm(h)
    BY <1>0, <2>1, <2>2, Keeping DEF Calm, Still, NoMoreSaves, Is
  <2> QED BY <1>c, <2>3
<1>3. CASE MoveSaveFails
  <2> PICK add : add = [g \in Hashes |-> {x \in {"unsaved"} : g \in mover.todo}]
    OBVIOUS
  <2>1. Note(add) /\ \A g \in Hashes : add[g] \subseteq Excuses
    BY <1>3 DEF MoveSaveFails, Excuses
  <2>2. h \notin mover.todo
    <3>1. add[h] \subseteq excuse'[h]
      BY <2>1, Mono
    <3> QED BY <3>1 DEF Plain
  <2>3. mover'.todo = {} /\ mover'.h = Nil /\ mover.h = Nil /\ UNCHANGED <<bolt, cache, heap, at, flush, now>>
    BY <1>3 DEF MoveSaveFails, NoMove
  <2>4. (Deletes(h) => Deletes(h)') /\ (Unsaved(h) => Unsaved(h)')
    BY <2>3 DEF Deletes, Unsaved, Is
  <2>5. Calm(h)
    BY <1>0, <2>2, <2>3, <2>4, Keeping DEF Calm, Still, NoMoreSaves, Is
  <2> QED BY <1>c, <2>5
<1>4. CASE Flush
  <2>1. UNCHANGED <<bolt, cache, heap, at, mover, now>> /\ \A e \in flush' : e[1] = h => cache[h] = e[2]
    BY <1>4 DEF Flush
  <2>2. Savers(h)'
    BY <2>1 DEF Savers
  <2>3. Editors(h)' /\ Readers(h)' /\ Movers(h)' /\ Alike(h)' /\ Purgers(h)' /\ (Patched(h) => Patched(h)')
        /\ (PathAlike(h) => PathAlike(h)')
    BY <2>1 DEF Sound, Editors, Readers, Movers, Alike, Purgers, Patched, PathAlike, Unsaved, Deletes, Is, Expired
  <2> QED BY <2>2, <2>3 DEF Onward, Sound
<1>5. CASE flush # Nil /\ FlushFails
  <2>2. UNCHANGED <<bolt, cache, at, mover, now>> /\ flush' = {} /\ Memory(heap)
    BY <1>5 DEF FlushFails
  <2>4. (Deletes(h) => Deletes(h)') /\ (Unsaved(h) => Unsaved(h)')
    BY <2>2 DEF Deletes, Unsaved, Is
  <2>5. Calm(h)
    BY <1>0, <1>5, <2>2, <2>4, Keeping DEF Calm, Still, NoMoreSaves, Is
  <2> QED BY <1>c, <2>5
<1>6. CASE Exit \/ Crash
  <2>1. Ends
    BY <1>6 DEF Exit, Crash
  <2>2. cache'[h] = Nil /\ flush' = Nil /\ mover'.todo = {} /\ \A s \in Reqs : at'[s].pc = "idle"
    BY <2>1 DEF Ends, NoMove, IdleReq
  <2>3. ~Writes(h)'
    BY <2>2 DEF Writes, Is
  <2> QED BY <2>2, <2>3, IdleSound DEF Onward
<1>7. CASE Tick \/ UNCHANGED vars
  <2>1. UNCHANGED <<bolt, cache, heap, at, mover, flush>> /\ now' >= now
    BY <1>0, <1>7 DEF Tick, vars
  <2>2. (Deletes(h) => Deletes(h)') /\ (Unsaved(h) => Unsaved(h)')
    BY <2>1 DEF Deletes, Unsaved, Is
  <2>3. Calm(h)
    BY <1>0, <2>1, <2>2, Keeping DEF Calm, Still, NoMoreSaves, Is
  <2> QED BY <1>c, <2>3
<1> QED BY <1>1, <1>2, <1>3, <1>4, <1>5, <1>6, <1>7, CreateSound, MoveReadSound, MoveSaveSound, MoveCacheSound, FlushSaveSound
        DEF Next, UpdateShares

LEMMA GoingStep ==
  ASSUME SharesAssumption, TInv, TInv', Owned, NEW h \in Hashes, Known(h), Known(h)', Gone(h), Going(h), [Next]_vars
  PROVE  Going(h)'
<1>1. CASE ~Plain(h)'
  BY <1>1 DEF Going
<1>2. CASE Plain(h)'
  <2>1. Plain(h) /\ Sound(h) /\ Held(h) /\ "delete" \notin excuse'[h]
    BY <1>2, PlainBefore DEF Going
  <2>2. Held(h)'
    BY <1>2, <2>1, HeldStep
  <2>3. "patch" \notin excuse'[h] => Patched(h) /\ PathAlike(h)
    BY <2>1, Grows DEF Going
  <2>4. Dead(h) => Dead(h)'
    BY <2>1, DeadStep
  <2>5. Onward(h)
    BY <1>2, <2>1, <2>3, <2>4, RequestSound, RestSound
  <2> QED BY <2>2, <2>5 DEF Going, Onward
<1> QED BY <1>1, <1>2
-------------------------------------------------------------------------------
(* A link leads where what it was made for is                                  *)

Lost == {"doubled", "unsaved", "delete", "move", "patch", "cut", "left", "inside"}

\* Where the record of the link leads, once a move under way is through.
Leads(h) ==
  IF h \in mover.todo \/ (mover.old # Nil /\ mover.read = Nil /\ Within(bolt[h].path, mover.old))
  THEN target[h] = mover.new ELSE target[h] = bolt[h].path

Led(h) ==
  /\ cache[h] # Nil /\ bolt[h] = Nil /\ ~Unsaved(h) => Deletes(h)
  /\ bolt[h] # Nil /\ (\A r \in Reqs : ~Is(r, h, {"savepath"})) => Leads(h)
  /\ cache[h] # Nil /\ Edits(h) => heap[cache[h]].path = target[h]
  /\ \A r \in Reqs : Is(r, h, {"save"}) => heap[at[r].obj].path = target[h]

\* What is known of the link besides.
Fine(h) == Plain(h) /\ Sound(h) /\ Patched(h) /\ PathAlike(h)

\* A step that leaves the paths and the edits alone.
LEMMA LedFrame ==
  ASSUME NEW h, Led(h), bolt'[h] = bolt[h], cache'[h] = cache[h], target'[h] = target[h], bolt[h] # Nil /\ Leads(h) => Leads(h)',
         \A s \in Reqs : Is(s, h, {"save", "recache", "savepath", "repath"})' => at'[s] = at[s],
         \A s \in Reqs : Is(s, h, {"save", "savepath"}) => at'[s] = at[s],
         cache[h] # Nil => heap'[cache[h]].path = heap[cache[h]].path,
         \A s \in Reqs : Is(s, h, {"save"})' => heap'[at'[s].obj].path = heap[at'[s].obj].path,
         Deletes(h) => Deletes(h)'
  PROVE  Led(h)'
<1>1. Unsaved(h) => Unsaved(h)'
  BY DEF Unsaved, Is
<1>2. Edits(h)' => Edits(h)
  BY DEF Edits, Is
<1>3. (\A r \in Reqs : ~Is(r, h, {"savepath"})') => (\A r \in Reqs : ~Is(r, h, {"savepath"}))
  BY DEF Is
<1>4. \A r \in Reqs : Is(r, h, {"save"})' => heap'[at'[r].obj].path = target'[h]
  BY DEF Led, Is
<1> QED BY <1>1, <1>2, <1>3, <1>4 DEF Led

LEMMA LeadsSame ==
  ASSUME NEW h, bolt'[h] = bolt[h], target'[h] = target[h], mover' = mover
  PROVE  Leads(h) => Leads(h)'
BY DEF Leads

\* The link is edited: its object leads where it should.
LEMMA EditedLeads ==
  ASSUME SharesAssumption, NEW h \in Hashes, Fine(h), Led(h), cache[h] # Nil, ~Deletes(h), mover = NoMove
  PROVE  heap[cache[h]].path = target[h]
<1>1. CASE Edits(h)
  BY <1>1 DEF Led
<1>2. CASE ~Edits(h)
  <2>1. ~Unsaved(h) /\ \A r \in Reqs : ~Is(r, h, {"savepath"})
    BY <1>2 DEF Edits, Unsaved, Is
  <2>2. bolt[h] # Nil /\ mover.h # h /\ mover.old = Nil /\ mover.todo = {}
    BY <2>1 DEF Led, NoMove, SharesAssumption
  <2>3. heap[cache[h]].path = bolt[h].path
    BY <2>1, <2>2 DEF Fine, PathAlike
  <2>4. target[h] = bolt[h].path
    BY <2>1, <2>2 DEF Led, Leads
  <2> QED BY <2>3, <2>4
<1> QED BY <1>1, <1>2

\* A request that reads, counts or leaves.
LEMMA LookLed ==
  ASSUME SharesAssumption, TInv, TInv', NEW h \in Hashes, NEW r \in Reqs, Hash(r) = h, Fine(h), Led(h), "patch" \notin excuse'[h],
         \/ GetCached(r) \/ GetStored(r) \/ Leave(r) \/ (\E c \in Callers : Check(r, c)) \/ (\E gets \in BOOLEAN : ListRead(r, gets))
         \/ Count(r) \/ CountUser(r)
  PROVE  Led(h)'
<1>1. /\ at[r].pc \in {"get", "got", "list", "count", "countview", "countuser"}
      /\ at'[r].pc \in {"purge", "purgebolt", "got", "idle", "count", "countview", "countuser", "fill", "listfill"}
      /\ \A s \in Reqs : s # r => at'[s] = at[s]
  BY GetCachedE, RepliesE, CheckE, GetStoredE, ListReadE, CountE DEF Goes, Leave, CountUser
<1>2. UNCHANGED <<bolt, cache, flush, mover, target>>
  BY DEF GetCached, Leave, Check, GetStored, ListRead, Count, CountUser
<1>3. \A o : o # Nil /\ Belongs(o, h)' /\ Belongs(o, h) => heap'[o].path = heap[o].path
  <2>1. CASE Count(r) \/ CountUser(r)
    BY <2>1, CountKeeps
  <2>2. CASE Memory(heap) \/ UNCHANGED heap
    BY <2>2, Keeping DEF Keeps
  <2>3. CASE GetStored(r) \/ \E gets \in BOOLEAN : ListRead(r, gets)
    <3>1. heap' = heap \/ heap' = [heap EXCEPT ![NewObj] = bolt[h]]
      BY <2>3, GetStoredE, ListReadE
    <3>2. NewObj \notin InUse /\ heap \in [Objs -> Links \cup {Nil}]
      BY Fresh DEF TInv, Mem
    <3>3. \A o : o # Nil /\ Belongs(o, h) => o \in Objs /\ o # NewObj
      BY <3>2, Typed
    <3> HIDE DEF NewObj, InUse
    <3> QED BY <3>1, <3>2, <3>3
  <2> QED BY <2>1, <2>2, <2>3 DEF GetCached, Leave, Check
<1>4. cache[h] # Nil => heap'[cache[h]].path = heap[cache[h]].path
  BY <1>2, <1>3, Typed, TypedNext
<1>5. \A s \in Reqs : Is(s, h, {"save"})' => heap'[at'[s].obj].path = heap[at'[s].obj].path
  <2> SUFFICES ASSUME NEW s \in Reqs, Is(s, h, {"save"})' PROVE heap'[at'[s].obj].path = heap[at'[s].obj].path
    OBVIOUS
  <2>1. at'[s] = at[s] /\ at[s].h = h /\ at[s].pc \in Holders
    BY <1>1 DEF Is, Holders
  <2> QED BY <1>3, <2>1, Typed, TypedNext
<1>6. Deletes(h) => Deletes(h)'
  BY <1>1 DEF Deletes, Is
<1>7. /\ \A s \in Reqs : Is(s, h, {"save", "recache", "savepath", "repath"})' => at'[s] = at[s]
      /\ \A s \in Reqs : Is(s, h, {"save", "savepath"}) => at'[s] = at[s]
  BY <1>1 DEF Is
<1>8. Leads(h) => Leads(h)'
  BY <1>2, LeadsSame
<1> QED BY <1>2, <1>4, <1>5, <1>6, <1>7, <1>8, LedFrame

LEMMA WriteLed ==
  ASSUME SharesAssumption, TInv, TInv', NEW h \in Hashes, NEW r \in Reqs, Hash(r) = h, Fine(h), Led(h), Plain(h)', Known(h)',
         Edit(r) \/ \E p \in Paths : Patch(r, p)
  PROVE  Led(h)'
<1>1. /\ at'[r].h = h /\ at'[r].pc \in {"save", "savepath"} /\ at'[r].obj = at[r].obj /\ at[r].pc = "got"
      /\ \A s \in Reqs : s # r => at'[s] = at[s]
      /\ UNCHANGED <<bolt, cache, flush, mover, now>> /\ Note(Detached(r))
      /\ heap' = [heap EXCEPT ![at[r].obj] = heap'[at[r].obj]] /\ at[r].obj # Nil
  BY EditE, PatchE DEF Goes, Edit, Patch, TInv, Requests, ReqOK, Holders
<1>2. cache[h] = at[r].obj
  <2>1. Detached(r)[h] \subseteq excuse'[h]
    BY <1>1, Detachments, Mono
  <2>2. cache[h] # at[r].obj => "delete" \in Detached(r)[h]
    BY Adds DEF Detached, Excuses
  <2> QED BY <2>1, <2>2 DEF Plain
<1>3. Unsaved(h)' /\ Writes(h)' /\ Edits(h)'
  BY <1>1 DEF Unsaved, Writes, Edits, Is
<1>4. ~Deletes(h) /\ mover = NoMove
  <2>1. ~Deletes(h)' /\ mover' = NoMove
    BY <1>3 DEF Known, Plain
  <2> QED BY <1>1, <2>1 DEF Deletes, Is
<1>5. \A s \in Reqs : Is(s, h, {"save"}) => at[s].obj = cache[h]
  BY <1>1, <1>2 DEF Fine, Sound, Editors
<1>6. CASE Edit(r)
  <2>1. heap'[cache[h]].path = heap[cache[h]].path /\ at'[r].pc = "save" /\ target' = target
    BY <1>2, <1>6, EditE DEF Goes, Obj, Edit
  <2>2. heap'[cache[h]].path = target[h]
    BY <1>1, <1>2, <1>4, <2>1, EditedLeads
  <2>3. \A s \in Reqs : Is(s, h, {"save"})' => heap'[at'[s].obj].path = target'[h]
    BY <1>1, <1>2, <1>5, <2>1, <2>2 DEF Is
  <2>4. Leads(h) => Leads(h)'
    BY <1>1, <2>1, LeadsSame
  <2>5. (\A s \in Reqs : ~Is(s, h, {"savepath"})') => (\A s \in Reqs : ~Is(s, h, {"savepath"}))
    BY <1>1 DEF Is
  <2> QED BY <1>1, <1>3, <2>1, <2>2, <2>3, <2>4, <2>5 DEF Led
<1>7. ASSUME NEW p \in Paths, Patch(r, p) PROVE Led(h)'
  <2>1. heap'[cache[h]].path = p /\ at'[r].pc = "savepath" /\ target'[h] = p
    <3>1. heap'[cache[h]].path = p /\ at'[r].pc = "savepath"
      BY <1>2, <1>7, PatchE DEF Goes
    <3>2. target' = [target EXCEPT ![h] = p] /\ target \in [Hashes -> Paths \cup {Nil}]
      BY <1>7 DEF Patch, TInv, Basic
    <3> QED BY <3>1, <3>2
  <2>2. \A s \in Reqs : Is(s, h, {"save"})' => heap'[at'[s].obj].path = target'[h]
    BY <1>1, <1>2, <1>5, <2>1 DEF Is
  <2>3. Is(r, h, {"savepath"})'
    BY <1>1, <2>1 DEF Is
  <2> QED BY <1>1, <1>3, <2>1, <2>2, <2>3 DEF Led
<1> QED BY <1>6, <1>7

LEMMA FillLed ==
  ASSUME SharesAssumption, TInv, TInv', NEW h \in Hashes, NEW r \in Reqs, Hash(r) = h, Fine(h), Led(h), Plain(h)', Known(h),
         Fill(r) \/ ListFill(r) \/ Recache(r)
  PROVE  Led(h)'
<1>1. /\ \A s \in Reqs : s # r => at'[s] = at[s]
      /\ at[r].pc \in {"fill", "listfill", "recache"} /\ at[r].h = h /\ at[r].obj # Nil
      /\ at'[r].pc \in {"got", "idle", "orphan"}
      /\ UNCHANGED <<bolt, flush, mover, now, target>> /\ Memory(heap)
  BY FillE, ListFillE, RepliesE DEF Goes, Fill, ListFill, Recache, TInv, Requests, ReqOK, Holders, Hash
<1>2. cache[h] \in {Nil, cache'[h]} /\ (cache[h] = Nil => cache'[h] = at[r].obj)
  <2>1. CASE ListFill(r)
    BY <2>1 DEF ListFill, TInv, Basic
  <2>2. CASE Fill(r) \/ Recache(r)
    <3>1. Note(Doubled(r)) /\ cache'[h] = at[r].obj
      BY <2>2 DEF Fill, Recache, TInv, Basic
    <3>2. Doubled(r)[h] \subseteq excuse'[h]
      BY <1>1, <3>1, Detachments, Mono
    <3>3. cache[h] \notin {Nil, at[r].obj} => "doubled" \in Doubled(r)[h]
      BY Adds DEF Doubled, Excuses
    <3> QED BY <3>1, <3>2, <3>3 DEF Plain
  <2> QED BY <2>1, <2>2
<1>3. Keeps(h)
  BY <1>1, Keeping
<1>4. ~Deletes(h)
  BY <1>1 DEF Known, Fine, Plain, Writes, Is
<1>5. \A s \in Reqs : Is(s, h, {"save"})' => heap'[at'[s].obj].path = heap[at'[s].obj].path
  BY <1>3, CalmHeap DEF Is, Holders
<1>6. /\ \A s \in Reqs : Is(s, h, {"save", "recache", "savepath", "repath"})' => at'[s] = at[s]
      /\ \A s \in Reqs : Is(s, h, {"save", "savepath"}) => at'[s] = at[s]
  BY <1>1 DEF Is
<1>7. Leads(h) => Leads(h)'
  BY <1>1, LeadsSame
<1>8. CASE cache[h] # Nil
  <2>1. cache'[h] = cache[h] /\ heap'[cache[h]] = heap[cache[h]]
    BY <1>2, <1>3, <1>8, CalmHeap
  <2> QED BY <1>1, <1>4, <1>5, <1>6, <1>7, <2>1, LedFrame
<1>9. CASE cache[h] = Nil
  <2>1. cache'[h] = at[r].obj /\ heap'[cache'[h]] = heap[at[r].obj] /\ cache'[h] # Nil
    BY <1>1, <1>2, <1>3, <1>9, CalmHeap
  <2>2. bolt[h] # Nil /\ (mover.h # h => heap[at[r].obj].path = bolt[h].path)
    <3>1. CASE at[r].pc = "recache"
      BY <1>1, <1>9, <3>1 DEF Fine, Sound, Editors, Is
    <3>2. CASE at[r].pc \in {"fill", "listfill"}
      BY <1>1, <1>9, <3>2 DEF Fine, Sound, Readers, PathAlike, Is
    <3> QED BY <1>1, <3>1, <3>2
  <2>3. \A s \in Reqs : ~Is(s, h, {"savepath", "repath", "save"})
    <3>1. \A s \in Reqs : Is(s, h, {"savepath", "repath", "save"}) => at[s].obj # Nil
      BY DEF Is, Holders, TInv, Requests, ReqOK
    <3> QED BY <1>9, <2>2, <3>1 DEF Fine, Sound, Editors, Is
  <2>4. Edits(h)' => heap'[cache'[h]].path = target'[h]
    <3> SUFFICES ASSUME Edits(h)' PROVE heap'[cache'[h]].path = target'[h]
      OBVIOUS
    <3>1. Edits(h)
      BY <1>6 DEF Edits, Is
    <3>2. mover = NoMove
      BY <3>1 DEF Known, Fine, Plain
    <3>3. mover.h # h /\ mover.old = Nil /\ mover.todo = {}
      BY <3>2 DEF NoMove, SharesAssumption
    <3>4. target[h] = bolt[h].path
      BY <2>2, <2>3, <3>3 DEF Led, Leads, Is
    <3> QED BY <1>1, <2>1, <2>2, <3>3, <3>4
  <2>5. \A s \in Reqs : ~Is(s, h, {"save"})'
    BY <1>6, <2>3 DEF Is
  <2>6. Leads(h)
    BY <2>2, <2>3 DEF Led, Is
  <2> QED BY <1>1, <1>7, <2>2, <2>4, <2>5, <2>6 DEF Led
<1> QED BY <1>8, <1>9

LEMMA PurgeLed ==
  ASSUME SharesAssumption, TInv, TInv', NEW h \in Hashes, NEW r \in Reqs, Hash(r) = h, Fine(h), Led(h), Plain(h)', Known(h), Known(h)',
         "left" \notin excuse'[h], Purge(r) \/ Unbolt(r) \/ Uncache(r)
  PROVE  Led(h)'
<1>1. /\ \A s \in Reqs : s # r => at'[s] = at[s]
      /\ UNCHANGED <<flush, mover, now, target>> /\ at[r].h = h
  BY PurgeE, UnboltE, RepliesE DEF Goes, Purge, Unbolt, Uncache, Hash
<1>3. CASE Uncache(r)
  <2>1. cache'[h] = Nil /\ at[r].pc \in {"uncache", "drop"} /\ at'[r].pc = "idle" /\ bolt' = bolt
    BY <1>3, RepliesE DEF Uncache, TInv, Basic, Goes
  <2>2. ~Writes(h)
    BY <1>1, <2>1 DEF Known, Fine, Plain, Deletes, Is
  <2>3. (\A s \in Reqs : ~Is(s, h, {"save"})') /\ \A s \in Reqs : ~Is(s, h, {"savepath"})
    BY <1>1, <2>1, <2>2 DEF Writes, Is
  <2>4. Leads(h) => Leads(h)'
    BY <1>1, <2>1, LeadsSame
  <2> QED BY <2>1, <2>3, <2>4 DEF Led
<1>4. CASE Purge(r) \/ Unbolt(r)
  <2>1. bolt'[h] = Nil /\ cache' = cache
    BY <1>4 DEF Purge, Unbolt, TInv, Basic
  <2>2. /\ at'[r].pc \in {"drop", "idle", "uncache"}
        /\ (at'[r].h = h /\ at'[r].pc \in {"drop", "uncache"}) \/ (at[r].pc = "purgebolt" /\ Purge(r))
    BY <1>4, PurgeE, UnboltE DEF Goes
  <2>3. ~Writes(h)'
    <3>1. CASE at[r].pc = "purgebolt"
      <4>1. ~Writes(h)
        BY <1>1, <3>1 DEF Known, Fine, Plain, Deletes, Is
      <4> QED BY <1>1, <2>2, <4>1 DEF Writes, Is
    <3>2. CASE at'[r].h = h /\ at'[r].pc \in {"drop", "uncache"}
      BY <3>2 DEF Known, Plain, Deletes, Is
    <3> QED BY <2>2, <3>1, <3>2
  <2>4. ~Edits(h)' /\ \A s \in Reqs : ~Is(s, h, {"save"})'
    BY <2>3 DEF Writes, Edits, Is
  <2>5. cache'[h] # Nil => Deletes(h)'
    <3>1. CASE at'[r].h = h /\ at'[r].pc \in {"drop", "uncache"}
      BY <3>1 DEF Deletes, Is
    <3>2. CASE at[r].pc = "purgebolt" /\ Purge(r) /\ cache[h] # Nil
      <4>1. Note(Only(h, "left"))
        BY <3>2 DEF Purge
      <4>2. "left" \in Only(h, "left")[h] /\ \A g \in Hashes : Only(h, "left")[g] \subseteq Excuses
        BY Adds DEF Excuses
      <4> QED BY <4>1, <4>2, Mono
    <3> QED BY <2>1, <2>2, <3>1, <3>2
  <2> QED BY <2>1, <2>4, <2>5 DEF Led
<1> QED BY <1>3, <1>4

LEMMA SaveLed ==
  ASSUME SharesAssumption, TInv, TInv', NEW h \in Hashes, NEW r \in Reqs, Hash(r) = h, Fine(h), Led(h), Known(h), Save(r)
  PROVE  Led(h)'
<1>1. /\ \A s \in Reqs : s # r => at'[s] = at[s]
      /\ at[r].h = h /\ at'[r].h = h
      /\ \/ at[r].pc = "save" /\ at'[r].pc = "recache"
         \/ at[r].pc = "savepath" /\ at'[r].pc = "repath"
      /\ UNCHANGED <<cache, heap, flush, mover, target>> /\ bolt'[h] = heap[at[r].obj]
  BY SaveE DEF Goes, Save, Hash, Obj, TInv, Basic
<1>2. Edits(h) /\ mover = NoMove
  <2>1. Edits(h)
    BY <1>1 DEF Edits, Is
  <2> QED BY <2>1 DEF Known, Fine, Plain
<1>3. bolt'[h] # Nil /\ at[r].obj # Nil
  BY <1>1, Own DEF Obj, Holders, SharesAssumption
<1>4. bolt'[h].path = target[h]
  <2>1. CASE at[r].pc = "save"
    BY <1>1, <2>1 DEF Led, Is
  <2>2. CASE at[r].pc = "savepath"
    <3>1. cache[h] = at[r].obj
      BY <1>1, <2>2 DEF Fine, Sound, Editors, Is
    <3> QED BY <1>1, <1>2, <1>3, <3>1 DEF Led
  <2> QED BY <1>1, <2>1, <2>2
<1>5. Leads(h)'
  BY <1>1, <1>2, <1>4 DEF Leads, NoMove
<1>6. \A s \in Reqs : Is(s, h, {"save"})' => heap'[at'[s].obj].path = target'[h]
  BY <1>1 DEF Led, Is
<1> QED BY <1>1, <1>2, <1>3, <1>5, <1>6 DEF Led

LEMMA RepathLed ==
  ASSUME SharesAssumption, TInv, TInv', NEW h \in Hashes, NEW r \in Reqs, Hash(r) = h, Fine(h), Led(h), Repath(r)
  PROVE  Led(h)'
<1>1. /\ \A s \in Reqs : s # r => at'[s] = at[s]
      /\ at[r].h = h /\ at[r].pc = "repath" /\ at'[r].pc = "idle" /\ at[r].obj # Nil
      /\ UNCHANGED <<bolt, cache, flush, mover, target>>
  BY RepliesE DEF Goes, Repath, Hash, TInv, Requests, ReqOK, Holders
<1>2. cache[h] = at[r].obj /\ heap[at[r].obj].path = at[r].arg
  BY <1>1 DEF Fine, Sound, Editors, Patched, Is
<1>3. Memory([heap EXCEPT ![cache[h]].path = at[r].arg])
  BY <1>1, <1>2 DEF Repath
<1>4. heap \in [Objs -> Links \cup {Nil}] /\ cache[h] \in Objs /\ heap[cache[h]] \in Links
  BY <1>1, <1>2, Typed DEF TInv, Mem
<1>5. [heap[cache[h]] EXCEPT !.path = at[r].arg] = heap[cache[h]]
  BY <1>2, <1>4 DEF Links
<1>6. Memory(heap)
  <2>1. [heap EXCEPT ![cache[h]].path = at[r].arg] = [heap EXCEPT ![cache[h]] = heap[cache[h]]]
    BY <1>4, <1>5
  <2>2. [heap EXCEPT ![cache[h]] = heap[cache[h]]] = heap
    BY <1>4
  <2> QED BY <1>3, <2>1, <2>2
<1>7. Keeps(h)
  BY <1>6, Keeping
<1>8. /\ \A s \in Reqs : Is(s, h, {"save", "recache", "savepath", "repath"})' => at'[s] = at[s]
      /\ \A s \in Reqs : Is(s, h, {"save", "savepath"}) => at'[s] = at[s]
      /\ Deletes(h) => Deletes(h)'
  BY <1>1 DEF Is, Deletes
<1>9. /\ cache[h] # Nil => heap'[cache[h]].path = heap[cache[h]].path
      /\ \A s \in Reqs : Is(s, h, {"save"})' => heap'[at'[s].obj].path = heap[at'[s].obj].path
  BY <1>1, <1>7, CalmHeap DEF Is, Holders
<1>10. Leads(h) => Leads(h)'
  BY <1>1, LeadsSame
<1> QED BY <1>1, <1>8, <1>9, <1>10, LedFrame

\* A step that leaves the link, its requests and the move alone.
LEMMA FarLed ==
  ASSUME SharesAssumption, TInv, TInv', NEW h \in Hashes, Led(h), bolt'[h] = bolt[h], cache'[h] = cache[h], target'[h] = target[h],
         \A s \in Reqs : Is(s, h, Works) \/ Is(s, h, Works)' => at'[s] = at[s], Deletes(h) => Deletes(h)', Keeps(h),
         bolt[h] # Nil /\ Leads(h) => Leads(h)'
  PROVE  Led(h)'
<1>1. /\ \A s \in Reqs : Is(s, h, {"save", "recache", "savepath", "repath"})' => at'[s] = at[s]
      /\ \A s \in Reqs : Is(s, h, {"save", "savepath"}) => at'[s] = at[s]
  BY DEF Is, Works
<1>2. /\ cache[h] # Nil => heap'[cache[h]].path = heap[cache[h]].path
      /\ \A s \in Reqs : Is(s, h, {"save"})' => heap'[at'[s].obj].path = heap[at'[s].obj].path
  BY CalmHeap DEF Is, Holders
<1> QED BY <1>1, <1>2, LedFrame

LEMMA RequestLed ==
  ASSUME SharesAssumption, TInv, TInv', Owned, NEW h \in Hashes, Known(h), Known(h)', Fine(h), Led(h), Plain(h)',
         "patch" \notin excuse'[h], "left" \notin excuse'[h], NEW r \in Reqs, Request(r)
  PROVE  Led(h)'
<1>1. CASE h # Hash(r)
  <2>1. Far(h) /\ mover' = mover
    BY <1>1, RequestFar, RequestFrame
  <2>2. Deletes(h) => Deletes(h)'
    BY <2>1 DEF Far, Deletes, Is
  <2>3. Leads(h) => Leads(h)'
    BY <2>1, LeadsSame DEF Far
  <2> QED BY <2>1, <2>2, <2>3, FarLed DEF Far, Is
<1>2. ASSUME SaveFails(r), h = Hash(r) PROVE FALSE
  <2>1. Note(Only(h, "unsaved"))
    BY <1>2 DEF SaveFails
  <2>2. "unsaved" \in Only(h, "unsaved")[h] /\ \A g \in Hashes : Only(h, "unsaved")[g] \subseteq Excuses
    BY Adds DEF Excuses
  <2>3. Only(h, "unsaved")[h] \subseteq excuse'[h]
    BY <2>1, <2>2, Mono
  <2> QED BY <2>2, <2>3 DEF Plain
<1> QED BY <1>1, <1>2, LookLed, WriteLed, FillLed, PurgeLed, SaveLed, RepathLed DEF Request
-------------------------------------------------------------------------------
(* Where the links lead through moves, the shutdown and restarts               *)

LEMMA CreateLed ==
  ASSUME SharesAssumption, TInv, TInv', NEW h \in Hashes, Led(h), NEW r \in Reqs, NEW g \in Hashes, NEW p \in Paths, Create(r, g, p)
  PROVE  Led(h)'
<1>1. /\ at'[r].h = g /\ at'[r].pc = "save" /\ at'[r].obj = NewObj /\ at[r].pc = "idle" /\ at[r].h = Nil
      /\ \A s \in Reqs : s # r => at'[s] = at[s]
      /\ UNCHANGED <<bolt, cache, now, flush, mover>> /\ g \notin born /\ target' = [target EXCEPT ![g] = p]
      /\ heap' = [heap EXCEPT ![NewObj] = heap'[NewObj]] /\ heap'[NewObj].path = p
  <2>1. Goes(r, g, {"save"}) /\ at'[r].obj = NewObj /\ at[r].pc = "idle" /\ at[r].h = Nil
        /\ heap' = [heap EXCEPT ![NewObj] = heap'[NewObj]] /\ heap'[NewObj].path = p
    BY CreateE
  <2>2. UNCHANGED <<bolt, cache, now, flush, mover>> /\ g \notin born /\ target' = [target EXCEPT ![g] = p]
    BY DEF Create
  <2> HIDE DEF NewObj
  <2> QED BY <2>1, <2>2 DEF Goes
<1>2. target \in [Hashes -> Paths \cup {Nil}]
  BY DEF TInv, Basic
<1>3. CASE g = h
  <2>1. bolt[h] = Nil /\ cache[h] = Nil /\ \A s \in Reqs : at[s].h # h
    BY <1>1, <1>3 DEF TInv, Basic, Requests, ReqOK, SharesAssumption
  <2>2. target'[h] = p
    BY <1>1, <1>2, <1>3
  <2>3. \A s \in Reqs : Is(s, h, {"save"})' => heap'[at'[s].obj].path = target'[h]
    BY <1>1, <2>1, <2>2 DEF Is
  <2> QED BY <1>1, <2>1, <2>3 DEF Led
<1>4. CASE g # h
  <2>1. \A o : o # Nil /\ Belongs(o, h)' => Belongs(o, h)
    BY <1>1, <1>4 DEF Belongs
  <2>2. Keeps(h)
    <3>1. \A o : o # Nil /\ Belongs(o, h)' => o \in Objs /\ o # NewObj
      BY <2>1, Typed, Fresh
    <3>2. heap \in [Objs -> Links \cup {Nil}]
      BY DEF TInv, Mem
    <3> HIDE DEF NewObj
    <3> QED BY <1>1, <3>1, <3>2 DEF Keeps
  <2>3. target'[h] = target[h]
    BY <1>1, <1>2, <1>4
  <2>4. (Deletes(h) => Deletes(h)') /\ \A s \in Reqs : Is(s, h, Works) \/ Is(s, h, Works)' => at'[s] = at[s]
    BY <1>1, <1>4 DEF Deletes, Is, Works, SharesAssumption
  <2>5. Leads(h) => Leads(h)'
    BY <1>1, <2>3, LeadsSame
  <2> QED BY <1>1, <2>2, <2>3, <2>4, <2>5, FarLed
<1> QED BY <1>3, <1>4

\* What a move does to the paths of the links.
LEMMA Following ==
  ASSUME SharesAssumption, NEW p \in Paths, NEW m \in Moves
  PROVE  /\ p = m[1] => Within(p, m[1]) /\ Moved(p, m[1], m[2]) = m[2]
         /\ ~Within(p, m[1]) => Moved(p, m[1], m[2]) = p
<1> PICK S : Paths \subseteq Seq(S)
  BY DEF SharesAssumption
<1>1. m[1] \in Seq(S) /\ m[2] \in Seq(S) /\ p \in Seq(S) /\ m[1] # <<>>
  BY DEF SharesAssumption
<1>2. Len(m[1]) \in Nat \ {0} /\ Len(p) \in Nat
  BY <1>1
<1>3. CASE p = m[1]
  <2>1. SubSeq(p, 1, 1 + Len(m[1]) - 1) = m[1]
    BY <1>1, <1>2, <1>3
  <2>2. Within(p, m[1])
    BY <1>2, <1>3, <2>1 DEF Within
  <2>3. SubSeq(p, Len(m[1]) + 1, Len(p)) = <<>>
    BY <1>1, <1>2, <1>3
  <2>4. m[2] \o <<>> = m[2]
    BY <1>1
  <2> QED BY <1>3, <2>2, <2>3, <2>4 DEF Moved
<1>4. CASE p # m[1] /\ ~Within(p, m[1])
  <2>1. ~Below(p, m[1])
    <3> SUFFICES ASSUME Below(p, m[1]) PROVE Within(p, m[1])
      BY <1>4
    <3>1. 1 + Len(m[1]) - 1 = Len(m[1]) /\ 1 \in 1 .. Len(p)
      BY <1>2 DEF Below
    <3> QED BY <1>2, <3>1 DEF Below, Within
  <2> QED BY <1>4, <2>1 DEF Moved
<1> QED BY <1>3, <1>4

LEMMA RenameLed ==
  ASSUME SharesAssumption, TInv, TInv', NEW h \in Hashes, Fine(h), Led(h), Plain(h)', Known(h)', "inside" \notin excuse'[h],
         NEW m \in Moves, Rename(m[1], m[2])
  PROVE  Led(h)'
<1>1. /\ UNCHANGED <<bolt, cache, heap, at>> /\ mover = NoMove
      /\ mover'.old = m[1] /\ mover'.new = m[2] /\ mover'.read = Nil /\ mover'.todo = {} /\ m[1] # Nil
      /\ m[1] \in Paths
  BY DEF Rename, NoMove, SharesAssumption
<1>2. ~Edits(h)'
  <2>1. mover' # NoMove
    BY <1>1 DEF NoMove
  <2> QED BY <2>1 DEF Known, Plain
<1>3. (\A s \in Reqs : ~Is(s, h, {"savepath"})) /\ (\A s \in Reqs : ~Is(s, h, {"save"})')
  BY <1>1, <1>2 DEF Edits, Is
<1>4. ASSUME bolt[h] # Nil PROVE Leads(h)'
  <2>1. target[h] = bolt[h].path /\ bolt[h].path \in Paths /\ target[h] # Nil
    BY <1>1, <1>3, <1>4 DEF Led, Leads, NoMove, TInv, Basic, Links, SharesAssumption
  <2>2. target'[h] = Moved(target[h], m[1], m[2])
    BY <2>1 DEF Rename
  <2>3. target[h] = m[1] \/ ~Within(target[h], m[1])
    <3> DEFINE add == [g \in Hashes |-> {x \in {"inside"} : target[g] # Nil /\ target[g] # m[1] /\ Within(target[g], m[1])}]
    <3>1. Note(add) /\ \A g \in Hashes : add[g] \subseteq Excuses
      BY DEF Rename, Excuses
    <3>2. target[h] # m[1] /\ Within(target[h], m[1]) => "inside" \in add[h]
      BY <2>1
    <3> HIDE DEF add
    <3>3. add[h] \subseteq excuse'[h]
      BY <3>1, Mono
    <3> QED BY <3>2, <3>3
  <2>4. (Within(bolt[h].path, m[1]) => target'[h] = m[2]) /\ (~Within(bolt[h].path, m[1]) => target'[h] = bolt[h].path)
    BY <2>1, <2>2, <2>3, Following
  <2> QED BY <1>1, <2>4 DEF Leads
<1>5. Deletes(h) => Deletes(h)'
  BY <1>1 DEF Deletes, Is
<1>6. Unsaved(h) => Unsaved(h)'
  BY <1>1 DEF Unsaved, Is
<1> QED BY <1>1, <1>2, <1>3, <1>4, <1>5, <1>6 DEF Led

LEMMA MoveReadLed ==
  ASSUME SharesAssumption, TInv, TInv', NEW h \in Hashes, Led(h), MoveRead
  PROVE  Led(h)'
<1>1. /\ UNCHANGED <<bolt, cache, heap, at, target>> /\ mover.old # Nil /\ mover.read = Nil /\ mover.todo = {} /\ bolt # Nil
      /\ mover \in MoverRecs
  BY DEF MoveRead, TInv, Moving, MoverOK, Basic, SharesAssumption
<1> DEFINE todo == {g \in Hashes : bolt[g] # Nil /\ Within(bolt[g].path, mover.old)}
<1>2. mover' = IF todo = {} THEN NoMove ELSE [mover EXCEPT !.read = bolt, !.todo = todo]
  BY DEF MoveRead, FollowsMove
<1>3. h \in todo <=> bolt[h] # Nil /\ Within(bolt[h].path, mover.old)
  OBVIOUS
<1> HIDE DEF todo
<1>4. ASSUME bolt[h] # Nil, Leads(h) PROVE Leads(h)'
  <2>1. IF h \in todo THEN target[h] = mover.new ELSE target[h] = bolt[h].path
    BY <1>1, <1>3, <1>4 DEF Leads
  <2>2. CASE todo = {}
    BY <1>1, <1>2, <2>1, <2>2 DEF Leads, NoMove
  <2>3. CASE todo # {}
    <3>1. mover'.read = bolt /\ mover'.todo = todo /\ mover'.new = mover.new
      BY <1>1, <1>2, <2>3 DEF MoverRecs
    <3> QED BY <1>1, <2>1, <3>1 DEF Leads
  <2> QED BY <2>2, <2>3
<1>5. (Deletes(h) => Deletes(h)') /\ Keeps(h) /\ \A s \in Reqs : at'[s] = at[s]
  BY <1>1, Keeping DEF Deletes, Is
<1> QED BY <1>1, <1>4, <1>5, FarLed

\* A move of other links.
LEMMA MovedPast ==
  ASSUME SharesAssumption, TInv, TInv', Owned, NEW h \in Hashes, NEW g \in Hashes, g # h, MoveSave(g) \/ MoveCache(g)
  PROVE  bolt'[h] = bolt[h] /\ cache'[h] = cache[h] /\ Keeps(h)
<1>0. /\ heap \in [Objs -> Links \cup {Nil}] /\ cache \in [Hashes -> Objs \cup {Nil}] /\ bolt \in [Hashes -> Links \cup {Nil}]
      /\ Nil \notin Objs /\ Nil \notin Hashes
  BY DEF TInv, Mem, Basic, SharesAssumption
<1>1. CASE MoveSave(g)
  <2>1. /\ UNCHANGED <<cache, at, flush>> /\ mover'.h = g /\ mover'.obj = NewObj
        /\ bolt' = [bolt EXCEPT ![g] = [mover.read[g] EXCEPT !.path = mover.new]]
        /\ heap' = [heap EXCEPT ![NewObj] = bolt'[g]]
    BY <1>1, MoveSaveE DEF MoveSave
  <2>2. NewObj \in Objs /\ NewObj \notin InUse
    BY Room, Fresh
  <2> HIDE DEF NewObj, InUse
  <2>3. \A o : o # Nil /\ Belongs(o, h)' => Belongs(o, h)
    BY <2>1 DEF Belongs
  <2>4. \A o : o # Nil /\ Belongs(o, h)' => o \in Objs /\ o # NewObj
    BY <2>2, <2>3, Typed
  <2>5. Keeps(h)
    BY <1>0, <2>1, <2>2, <2>4 DEF Keeps
  <2> QED BY <1>0, <2>1, <2>5
<1>2. CASE MoveCache(g)
  <2>1. UNCHANGED <<bolt, at, flush>> /\ mover'.h = Nil /\ mover'.obj = Nil
    BY <1>2, MoveCacheE DEF MoveCache, NoMove
  <2>2. cache'[h] = cache[h]
    BY <1>0, <1>2 DEF MoveCache
  <2>3. \A o : o # Nil /\ Belongs(o, h)' => Belongs(o, h)
    BY <1>0, <2>1, <2>2 DEF Belongs
  <2>4. \A o : o # Nil /\ Belongs(o, h)' => o # cache[g] /\ o \in Objs
    <3>1. \A o \in Objs : Belongs(o, g) /\ Belongs(o, h) => h = g
      BY DEF Owned
    <3> QED BY <1>0, <2>3, <3>1, Typed
  <2>5. ASSUME NEW o, o # Nil, Belongs(o, h)' PROVE heap'[o] = heap[o]
    <3>1. ASSUME NEW hp, Memory(hp) PROVE heap'[o] = hp[o]
      BY <2>5, <3>1, Kept
    <3>2. CASE cache[g] = Nil
      BY <1>2, <3>1, <3>2 DEF MoveCache
    <3>3. CASE cache[g] # Nil
      <4>1. heap'[o] = [heap EXCEPT ![cache[g]].path = mover.new][o]
        BY <1>2, <3>1, <3>3 DEF MoveCache
      <4> QED BY <1>0, <2>4, <2>5, <4>1
    <3> QED BY <3>2, <3>3
  <2> QED BY <2>1, <2>2, <2>5 DEF Keeps
<1> QED BY <1>1, <1>2

\* While a link is moved nobody edits it.
LEMMA MovedAlone ==
  ASSUME SharesAssumption, NEW h \in Hashes, Known(h), Plain(h), h \in mover.todo
  PROVE  ~Edits(h) /\ (\A s \in Reqs : ~Is(s, h, {"savepath"})) /\ \A s \in Reqs : ~Is(s, h, {"save"})
<1>1. ~Edits(h)
  BY DEF Known, Plain, NoMove
<1> QED BY <1>1 DEF Edits, Is

LEMMA MovesLed ==
  ASSUME SharesAssumption, TInv, TInv', Owned, NEW h \in Hashes, Known(h), Fine(h), Led(h),
         NEW g \in Hashes, MoveSave(g) \/ MoveCache(g)
  PROVE  Led(h)'
<1>1. UNCHANGED <<at, target>> /\ mover \in MoverRecs /\ MoverOK(mover) /\ bolt \in [Hashes -> Links \cup {Nil}]
  BY DEF MoveSave, MoveCache, TInv, Moving, Basic
<1>2. mover.read # Nil /\ g \in mover.todo /\ g # Nil
  BY <1>1, MoveSaveE, MoveCacheE DEF MoverOK, SharesAssumption
<1>3. (Deletes(h) => Deletes(h)') /\ \A s \in Reqs : Is(s, h, {"save"})' => Is(s, h, {"save"})
  BY <1>1 DEF Deletes, Is
<1>4. \/ mover'.old = mover.old /\ mover'.new = mover.new /\ mover'.read = mover.read
      \/ mover' = NoMove
  BY MoveSaveE, MoveCacheE
<1>5. CASE g # h
  <2>1. bolt'[h] = bolt[h] /\ cache'[h] = cache[h] /\ Keeps(h)
    BY <1>5, MovedPast
  <2>2. (h \in mover'.todo <=> h \in mover.todo) /\ (mover' = NoMove => h \notin mover.todo)
    BY <1>5, MoveSaveE, MoveCacheE DEF NoMove
  <2>3. Leads(h) => Leads(h)'
    BY <1>1, <1>2, <1>4, <2>1, <2>2 DEF Leads, NoMove
  <2> QED BY <1>1, <1>3, <2>1, <2>3, FarLed
<1>6. CASE g = h
  <2>1. bolt[h] # Nil /\ ~Edits(h) /\ \A s \in Reqs : ~Is(s, h, {"save"})
    BY <1>2, <1>6, MovedAlone DEF Fine, Sound, Movers
  <2>2. target[h] = mover.new
    BY <1>2, <1>6, <2>1, MovedAlone DEF Led, Leads, Fine
  <2>3. bolt'[h] # Nil /\ Leads(h)'
    <3>1. CASE MoveSave(g)
      <4>1. bolt'[h] = [mover.read[h] EXCEPT !.path = mover.new] /\ mover.read[h] \in Links
        BY <1>1, <1>6, <3>1, MoveSaveE
      <4>2. bolt'[h] \in Links
        BY <3>1, <4>1, MoveSaveE DEF Links
      <4>3. h \in mover'.todo /\ mover'.new = mover.new
        BY <1>2, <1>6, <3>1, MoveSaveE
      <4> QED BY <1>1, <2>2, <4>2, <4>3 DEF Leads, SharesAssumption
    <3>2. CASE MoveCache(g)
      <4>1. bolt' = bolt /\ bolt[h].path = mover.new
        BY <1>2, <1>6, <3>2, MoveCacheE DEF MoveCache, Fine, Sound, Movers
      <4>2. h \notin mover'.todo /\ (mover'.old = Nil \/ mover'.read # Nil)
        BY <1>2, <1>6, <3>2, MoveCacheE DEF NoMove
      <4> QED BY <1>1, <2>1, <2>2, <4>1, <4>2 DEF Leads
    <3> QED BY <3>1, <3>2
  <2>4. ~Edits(h)'
    BY <1>1, <2>1 DEF Edits, Is
  <2> QED BY <1>3, <2>1, <2>3, <2>4 DEF Led
<1> QED BY <1>5, <1>6

LEMMA FlushSaveLed ==
  ASSUME SharesAssumption, TInv, TInv', NEW h \in Hashes, Known(h), Fine(h), Led(h), flush # Nil, NEW e \in flush, FlushSave(e)
  PROVE  Led(h)'
<1>1. /\ UNCHANGED <<cache, at, mover, target>> /\ bolt' = [bolt EXCEPT ![e[1]] = heap[e[2]]] /\ Memory(heap)
      /\ e[1] \in Hashes /\ e[2] \in Objs /\ bolt \in [Hashes -> Links \cup {Nil}]
  BY DEF FlushSave, TInv, Saving, Basic
<1>2. Keeps(h)
  BY <1>1, Keeping
<1>3. (Deletes(h) => Deletes(h)') /\ \A s \in Reqs : at'[s] = at[s]
  BY <1>1 DEF Deletes, Is
<1>4. CASE e[1] # h
  <2>1. bolt'[h] = bolt[h]
    BY <1>1, <1>4
  <2> QED BY <1>1, <1>2, <1>3, <2>1, LeadsSame, FarLed
<1>5. CASE e[1] = h
  <2>1. cache[h] = e[2] /\ cache[h] # Nil /\ bolt'[h] = heap[cache[h]]
    BY <1>1, <1>5 DEF Fine, Sound, Savers, SharesAssumption
  <2>2. mover = NoMove /\ ~Deletes(h)
    <3>1. Saves(h) /\ Writes(h)
      BY <1>5 DEF Saves, Writes
    <3> QED BY <3>1 DEF Known, Fine, Plain
  <2>3. bolt'[h] # Nil
    BY <2>1, Typed DEF SharesAssumption
  <2>4. bolt'[h].path = target[h]
    BY <2>1, <2>2, EditedLeads
  <2>5. Leads(h)'
    BY <1>1, <2>2, <2>4 DEF Leads, NoMove
  <2>6. heap'[cache[h]] = heap[cache[h]] /\ \A s \in Reqs : Is(s, h, {"save"})' => heap'[at'[s].obj] = heap[at'[s].obj]
    BY <1>1, <1>2, <2>1, CalmHeap DEF Is, Holders
  <2>7. \A s \in Reqs : Is(s, h, {"save"})' => heap'[at'[s].obj].path = target'[h]
    BY <1>1, <2>6 DEF Led, Is
  <2> QED BY <1>1, <2>1, <2>3, <2>4, <2>5, <2>6, <2>7 DEF Led
<1> QED BY <1>4, <1>5

LEMMA RestLed ==
  ASSUME SharesAssumption, TInv, TInv', Owned, NEW h \in Hashes, Known(h), Known(h)', Fine(h), Led(h), Plain(h)',
         "cut" \notin excuse'[h], "inside" \notin excuse'[h], [Next]_vars, ~\E r \in Reqs : Request(r)
  PROVE  Led(h)'
<1>1. ASSUME NEW r \in Reqs, NEW g \in Hashes, Open(r, g) PROVE Led(h)'
  <2>1. Goes(r, g, {"get", "list"}) /\ at[r].h = Nil /\ UNCHANGED <<bolt, cache, heap, flush, mover, target>>
    BY <1>1, OpenE DEF Open
  <2>2. (Deletes(h) => Deletes(h)') /\ \A s \in Reqs : Is(s, h, Works) \/ Is(s, h, Works)' => at'[s] = at[s]
    BY <2>1 DEF Deletes, Is, Goes, Works, SharesAssumption
  <2> QED BY <2>1, <2>2, Keeping, LeadsSame, FarLed
<1>2. CASE MoveSaveFails
  <2> PICK add : add = [g \in Hashes |-> {x \in {"unsaved"} : g \in mover.todo}]
    OBVIOUS
  <2>1. Note(add) /\ \A g \in Hashes : add[g] \subseteq Excuses
    BY <1>2 DEF MoveSaveFails, Excuses
  <2>2. h \notin mover.todo
    <3>1. add[h] \subseteq excuse'[h]
      BY <2>1, Mono
    <3> QED BY <3>1 DEF Plain
  <2>3. mover' = NoMove /\ mover.read # Nil /\ UNCHANGED <<bolt, cache, heap, at, target>>
    BY <1>2 DEF MoveSaveFails, TInv, Moving, MoverOK
  <2>4. Leads(h) => Leads(h)'
    BY <2>2, <2>3 DEF Leads, NoMove
  <2>5. (Deletes(h) => Deletes(h)') /\ \A s \in Reqs : at'[s] = at[s]
    BY <2>3 DEF Deletes, Is
  <2> QED BY <2>3, <2>4, <2>5, Keeping, FarLed
<1>3. CASE Flush \/ Tick \/ UNCHANGED vars \/ FlushFails
  <2>1. UNCHANGED <<bolt, cache, at, mover, target>> /\ (Memory(heap) \/ UNCHANGED heap)
    BY <1>3 DEF Flush, Tick, FlushFails, vars
  <2>2. (Deletes(h) => Deletes(h)') /\ \A s \in Reqs : at'[s] = at[s]
    BY <2>1 DEF Deletes, Is
  <2> QED BY <2>1, <2>2, Keeping, LeadsSame, FarLed
<1>4. CASE Exit \/ Crash
  <2>1. Ends
    BY <1>4 DEF Exit, Crash
  <2>2. cache'[h] = Nil /\ mover' = NoMove /\ bolt' = bolt /\ \A s \in Reqs : at'[s].pc = "idle"
    BY <2>1 DEF Ends, IdleReq
  <2>3. target'[h] = IF Editing(h, at) /\ bolt[h] # Nil THEN bolt[h].path ELSE target[h]
    BY <2>1 DEF Ends
  <2>4. mover = NoMove
    <3> PICK add : add = [g \in Hashes |-> {x \in {"cut"} : mover # NoMove}
                             \cup {x \in {"late"} : \E r \in Reqs : Hash(r) = g /\ at[r].pc = "countuser"}]
      OBVIOUS
    <3>1. Note(add) /\ \A g \in Hashes : add[g] \subseteq Excuses
      BY <2>1 DEF Ends, Excuses
    <3>2. add[h] \subseteq excuse'[h]
      BY <3>1, Mono
    <3> QED BY <3>2
  <2>5. ASSUME bolt[h] # Nil PROVE Leads(h)'
    <3>1. CASE Edits(h)
      BY <2>2, <2>3, <2>5, <3>1, Overlapping DEF Leads, NoMove
    <3>2. CASE ~Edits(h)
      <4>1. target'[h] = target[h] /\ \A s \in Reqs : ~Is(s, h, {"savepath"})
        BY <2>3, <3>2, Overlapping DEF Edits, Is
      <4> QED BY <2>2, <2>4, <2>5, <4>1 DEF Led, Leads, NoMove
    <3> QED BY <3>1, <3>2
  <2>6. \A s \in Reqs : ~Is(s, h, {"save"})'
    BY <2>2 DEF Is
  <2> QED BY <2>2, <2>5, <2>6 DEF Led
<1> QED BY <1>1, <1>2, <1>3, <1>4, CreateLed, RenameLed, MoveReadLed, MovesLed, FlushSaveLed DEF Next, UpdateShares

\* Where a link leads, as long as nothing has happened that may cost it that.
Leading(h) == excuse[h] \cap Lost = {} => Led(h)

LEMMA LeadingStep ==
  ASSUME SharesAssumption, TInv, TInv', Owned, NEW h \in Hashes, Known(h), Known(h)', Going(h), Leading(h), [Next]_vars
  PROVE  Leading(h)'
<1> SUFFICES ASSUME excuse'[h] \cap Lost = {} PROVE Led(h)'
  BY DEF Leading
<1>1. excuse[h] \cap Lost = {}
  BY Grows
<1>2. Plain(h) /\ "patch" \notin excuse[h] /\ Plain(h)'
  BY <1>1 DEF Plain, Lost
<1>3. Fine(h) /\ Led(h)
  BY <1>1, <1>2 DEF Fine, Going, Leading
<1>4. "patch" \notin excuse'[h] /\ "left" \notin excuse'[h] /\ "cut" \notin excuse'[h] /\ "inside" \notin excuse'[h]
  BY DEF Lost
<1> QED BY <1>2, <1>3, <1>4, RequestLed, RestLed
-------------------------------------------------------------------------------
(* How many downloads a link lets through                                      *)

\* Requests that were let through and have still to count, in all and per user.
Counting(h, a) == Cardinality({r \in Reqs : a[r].h = h /\ a[r].pc \in {"count", "countview"}})
Owing(h, a) ==
  [u \in Users |-> Cardinality({r \in Reqs : a[r].h = h /\ a[r].pc \in {"count", "countview", "countuser"} /\ a[r].arg = u})]
\* Those that have counted for the link and not yet for the user.
Crediting(h, a) == [u \in Users |-> Cardinality({r \in Reqs : a[r].h = h /\ a[r].pc = "countuser" /\ a[r].arg = u})]
None == [u \in Users |-> 0]

Most(l) == l.limit + Cardinality(Reqs) - 1

\* A link with c and o still to count stays within its limit.
Fits(l, c, o) ==
  l.limit > 0 => IF l.perUser THEN \A u \in Users : l.by[u] + o[u] <= Most(l) ELSE l.n + c <= Most(l)

\* Of what was served, the link has counted all but d.
Backed(s, l, d) == s.n <= l.n /\ \A u \in Users : s.by[u] <= l.by[u] + d[u]

\* Two links with the same limit and the same counts.
Worth(l, k) == l.limit = k.limit /\ l.perUser = k.perUser /\ SameCounts(l, k)

Counts(h) ==
  /\ cache[h] # Nil =>
       Fits(heap[cache[h]], Counting(h, at), Owing(h, at)) /\ Backed(served[h], heap[cache[h]], Crediting(h, at))
  /\ bolt[h] # Nil => Fits(bolt[h], 0, None)
  /\ cache[h] = Nil /\ bolt[h] # Nil => Backed(served[h], bolt[h], None)
  /\ \A r \in Reqs : Is(r, h, {"save"}) /\ cache[h] = Nil =>
       Fits(heap[at[r].obj], 0, None) /\ Backed(served[h], heap[at[r].obj], None)
  /\ flush # Nil /\ ~Saves(h) /\ ~Unsaved(h) /\ bolt[h] # Nil /\ cache[h] # Nil =>
       Backed(served[h], bolt[h], Crediting(h, at))

Counters == {"count", "countview", "countuser"}

LEMMA Sizes ==
  ASSUME SharesAssumption, NEW S, NEW T, S \subseteq Reqs, T \subseteq Reqs
  PROVE  /\ Cardinality(S) \in Nat /\ Cardinality(S) <= Cardinality(Reqs) /\ Cardinality(Reqs) \in Nat
         /\ S \subseteq T => Cardinality(S) <= Cardinality(T)
         /\ \A r \in T : S \subseteq T \ {r} => Cardinality(S) + 1 <= Cardinality(T)
         /\ \A r : S \subseteq T \cup {r} => Cardinality(S) <= Cardinality(T) + 1
         /\ S = {} => Cardinality(S) = 0
<1>1. IsFiniteSet(S) /\ IsFiniteSet(T) /\ Cardinality(S) <= Cardinality(Reqs)
  BY FS_Subset DEF SharesAssumption
<1>2. Cardinality(S) \in Nat /\ Cardinality(T) \in Nat /\ Cardinality(Reqs) \in Nat
  BY <1>1, FS_CardinalityType DEF SharesAssumption
<1>3. S \subseteq T => Cardinality(S) <= Cardinality(T)
  BY <1>1, FS_Subset
<1>4. ASSUME NEW r \in T, S \subseteq T \ {r} PROVE Cardinality(S) + 1 <= Cardinality(T)
  <2>1. IsFiniteSet(T \ {r}) /\ Cardinality(T \ {r}) = Cardinality(T) - 1
    BY <1>1, FS_RemoveElement
  <2>2. Cardinality(S) <= Cardinality(T \ {r})
    BY <1>4, <2>1, FS_Subset
  <2> QED BY <1>2, <2>1, <2>2
<1>5. ASSUME NEW r, S \subseteq T \cup {r} PROVE Cardinality(S) <= Cardinality(T) + 1
  <2>1. IsFiniteSet(T \cup {r}) /\ Cardinality(T \cup {r}) \in {Cardinality(T), Cardinality(T) + 1}
    BY <1>1, FS_AddElement
  <2>2. Cardinality(S) <= Cardinality(T \cup {r})
    BY <1>5, <2>1, FS_Subset
  <2> QED BY <1>2, <2>1, <2>2
<1>6. S = {} => Cardinality(S) = 0
  BY FS_EmptySet
<1> QED BY <1>1, <1>2, <1>3, <1>4, <1>5, <1>6

LEMMA Numbers ==
  ASSUME SharesAssumption, NEW h, NEW a
  PROVE  /\ Counting(h, a) \in Nat /\ Counting(h, a) <= Cardinality(Reqs) /\ Cardinality(Reqs) \in Nat
         /\ \A u \in Users : /\ Owing(h, a)[u] \in Nat /\ Owing(h, a)[u] <= Cardinality(Reqs)
                             /\ Crediting(h, a)[u] \in Nat /\ Crediting(h, a)[u] <= Owing(h, a)[u]
<1>1. Counting(h, a) \in Nat /\ Counting(h, a) <= Cardinality(Reqs) /\ Cardinality(Reqs) \in Nat
  <2> DEFINE S == {r \in Reqs : a[r].h = h /\ a[r].pc \in {"count", "countview"}}
  <2>1. S \subseteq Reqs
    OBVIOUS
  <2>2. Counting(h, a) = Cardinality(S)
    BY DEF Counting
  <2> HIDE DEF S
  <2> QED BY <2>1, <2>2, Sizes
<1>2. ASSUME NEW u \in Users
      PROVE  /\ Owing(h, a)[u] \in Nat /\ Owing(h, a)[u] <= Cardinality(Reqs)
             /\ Crediting(h, a)[u] \in Nat /\ Crediting(h, a)[u] <= Owing(h, a)[u]
  <2> DEFINE S == {r \in Reqs : a[r].h = h /\ a[r].pc = "countuser" /\ a[r].arg = u}
             T == {r \in Reqs : a[r].h = h /\ a[r].pc \in Counters /\ a[r].arg = u}
  <2>1. S \subseteq T /\ T \subseteq Reqs
    BY DEF Counters
  <2>2. Owing(h, a)[u] = Cardinality(T) /\ Crediting(h, a)[u] = Cardinality(S)
    BY DEF Owing, Crediting, Counters
  <2> HIDE DEF S, T
  <2>3. S \subseteq Reqs
    BY <2>1
  <2> QED BY <2>1, <2>2, <2>3, Sizes
<1> QED BY <1>1, <1>2

LEMMA Nobody ==
  ASSUME SharesAssumption, NEW h, NEW a, \A r \in Reqs : a[r].h = h => a[r].pc \notin Counters
  PROVE  Counting(h, a) = 0 /\ Owing(h, a) = None /\ Crediting(h, a) = None
<1>1. Cardinality({}) = 0
  BY FS_EmptySet
<1>2. {r \in Reqs : a[r].h = h /\ a[r].pc \in {"count", "countview"}} = {}
  BY DEF Counters
<1>3. \A u : /\ {r \in Reqs : a[r].h = h /\ a[r].pc \in {"count", "countview", "countuser"} /\ a[r].arg = u} = {}
             /\ {r \in Reqs : a[r].h = h /\ a[r].pc = "countuser" /\ a[r].arg = u} = {}
  BY DEF Counters
<1> QED BY <1>1, <1>2, <1>3 DEF Counting, Owing, Crediting, None

LEMMA SameVisits ==
  ASSUME SharesAssumption, NEW h, NEW a, NEW b,
         \A s \in Reqs : (a[s].h = h /\ a[s].pc \in Counters) \/ (b[s].h = h /\ b[s].pc \in Counters) => a[s] = b[s]
  PROVE  Counting(h, b) = Counting(h, a) /\ Owing(h, b) = Owing(h, a) /\ Crediting(h, b) = Crediting(h, a)
<1> DEFINE C(x) == {r \in Reqs : x[r].h = h /\ x[r].pc \in {"count", "countview"}}
           O(x, u) == {r \in Reqs : x[r].h = h /\ x[r].pc \in {"count", "countview", "countuser"} /\ x[r].arg = u}
           D(x, u) == {r \in Reqs : x[r].h = h /\ x[r].pc = "countuser" /\ x[r].arg = u}
<1>1. C(a) = C(b)
  BY DEF Counters
<1>2. \A u : O(a, u) = O(b, u)
  BY DEF Counters
<1>3. \A u : D(a, u) = D(b, u)
  BY DEF Counters
<1>4. /\ Counting(h, a) = Cardinality(C(a)) /\ Counting(h, b) = Cardinality(C(b))
      /\ Owing(h, a) = [u \in Users |-> Cardinality(O(a, u))] /\ Owing(h, b) = [u \in Users |-> Cardinality(O(b, u))]
      /\ Crediting(h, a) = [u \in Users |-> Cardinality(D(a, u))] /\ Crediting(h, b) = [u \in Users |-> Cardinality(D(b, u))]
  BY DEF Counting, Owing, Crediting
<1> HIDE DEF C, O, D
<1> QED BY <1>1, <1>2, <1>3, <1>4

\* One request goes from a to b.
LEMMA OneVisit ==
  ASSUME SharesAssumption, NEW h, NEW a, NEW b, NEW r \in Reqs, \A s \in Reqs : s # r => a[s] = b[s], a[r].h = h
  PROVE  /\ a[r].pc \in {"count", "countview"} /\ (b[r].h # h \/ b[r].pc \notin {"count", "countview"}) =>
              Counting(h, b) + 1 <= Counting(h, a)
         /\ a[r].pc = "countuser" /\ (b[r].h # h \/ b[r].pc \notin {"count", "countview"}) => Counting(h, b) <= Counting(h, a)
         /\ \A u \in Users :
              /\ b[r].h # h \/ b[r].pc \notin Counters \/ b[r].arg # u \/ (a[r].pc \in Counters /\ a[r].arg = u) =>
                   Owing(h, b)[u] <= Owing(h, a)[u]
              /\ a[r].pc \in Counters /\ a[r].arg = u /\ (b[r].h # h \/ b[r].pc \notin Counters) =>
                   Owing(h, b)[u] + 1 <= Owing(h, a)[u]
              /\ a[r].pc # "countuser" \/ a[r].arg # u => Crediting(h, a)[u] <= Crediting(h, b)[u]
              /\ Crediting(h, a)[u] <= Crediting(h, b)[u] + 1
              /\ a[r].pc # "countuser" /\ b[r].h = h /\ b[r].pc = "countuser" /\ b[r].arg = u =>
                   Crediting(h, a)[u] + 1 <= Crediting(h, b)[u]
<1>1. /\ a[r].pc \in {"count", "countview"} /\ (b[r].h # h \/ b[r].pc \notin {"count", "countview"}) =>
              Counting(h, b) + 1 <= Counting(h, a)
      /\ a[r].pc = "countuser" /\ (b[r].h # h \/ b[r].pc \notin {"count", "countview"}) => Counting(h, b) <= Counting(h, a)
  <2> DEFINE S == {s \in Reqs : b[s].h = h /\ b[s].pc \in {"count", "countview"}}
             T == {s \in Reqs : a[s].h = h /\ a[s].pc \in {"count", "countview"}}
  <2>1. S \subseteq Reqs /\ T \subseteq Reqs
    OBVIOUS
  <2>2. /\ a[r].pc \in {"count", "countview"} /\ (b[r].h # h \/ b[r].pc \notin {"count", "countview"}) => r \in T /\ S \subseteq T \ {r}
        /\ a[r].pc = "countuser" /\ (b[r].h # h \/ b[r].pc \notin {"count", "countview"}) => S \subseteq T
    OBVIOUS
  <2>3. Counting(h, b) = Cardinality(S) /\ Counting(h, a) = Cardinality(T)
    BY DEF Counting
  <2> HIDE DEF S, T
  <2> QED BY <2>1, <2>2, <2>3, Sizes
<1>2. ASSUME NEW u \in Users
      PROVE  /\ b[r].h # h \/ b[r].pc \notin Counters \/ b[r].arg # u \/ (a[r].pc \in Counters /\ a[r].arg = u) =>
                  Owing(h, b)[u] <= Owing(h, a)[u]
             /\ a[r].pc \in Counters /\ a[r].arg = u /\ (b[r].h # h \/ b[r].pc \notin Counters) =>
                  Owing(h, b)[u] + 1 <= Owing(h, a)[u]
  <2> DEFINE S == {s \in Reqs : b[s].h = h /\ b[s].pc \in Counters /\ b[s].arg = u}
             T == {s \in Reqs : a[s].h = h /\ a[s].pc \in Counters /\ a[s].arg = u}
  <2>1. S \subseteq Reqs /\ T \subseteq Reqs
    OBVIOUS
  <2>2. /\ b[r].h # h \/ b[r].pc \notin Counters \/ b[r].arg # u \/ (a[r].pc \in Counters /\ a[r].arg = u) => S \subseteq T
        /\ a[r].pc \in Counters /\ a[r].arg = u /\ (b[r].h # h \/ b[r].pc \notin Counters) => r \in T /\ S \subseteq T \ {r}
    OBVIOUS
  <2>3. Owing(h, b)[u] = Cardinality(S) /\ Owing(h, a)[u] = Cardinality(T)
    BY DEF Owing, Counters
  <2> HIDE DEF S, T
  <2> QED BY <2>1, <2>2, <2>3, Sizes
<1>3. ASSUME NEW u \in Users
      PROVE  /\ a[r].pc # "countuser" \/ a[r].arg # u => Crediting(h, a)[u] <= Crediting(h, b)[u]
             /\ Crediting(h, a)[u] <= Crediting(h, b)[u] + 1
             /\ a[r].pc # "countuser" /\ b[r].h = h /\ b[r].pc = "countuser" /\ b[r].arg = u =>
                  Crediting(h, a)[u] + 1 <= Crediting(h, b)[u]
  <2> DEFINE S == {s \in Reqs : a[s].h = h /\ a[s].pc = "countuser" /\ a[s].arg = u}
             T == {s \in Reqs : b[s].h = h /\ b[s].pc = "countuser" /\ b[s].arg = u}
  <2>1. S \subseteq Reqs /\ T \subseteq Reqs
    OBVIOUS
  <2>2. /\ a[r].pc # "countuser" \/ a[r].arg # u => S \subseteq T
        /\ S \subseteq T \cup {r}
        /\ a[r].pc # "countuser" /\ b[r].h = h /\ b[r].pc = "countuser" /\ b[r].arg = u => r \in T /\ S \subseteq T \ {r}
    OBVIOUS
  <2>3. Crediting(h, a)[u] = Cardinality(S) /\ Crediting(h, b)[u] = Cardinality(T)
    BY DEF Crediting
  <2> HIDE DEF S, T
  <2> QED BY <2>1, <2>2, <2>3, Sizes
<1> QED BY <1>1, <1>2, <1>3

LEMMA WorthFits ==
  ASSUME NEW l, NEW k, NEW c, NEW o, NEW s, NEW d, Worth(l, k)
  PROVE  (Fits(k, c, o) => Fits(l, c, o)) /\ (Backed(s, k, d) => Backed(s, l, d))
BY DEF Worth, SameCounts, Fits, Backed, Most

LEMMA FitsLess ==
  ASSUME SharesAssumption, NEW l \in Links, NEW c \in Nat, NEW d \in Nat, NEW o, NEW p, c <= d,
         \A u \in Users : o[u] \in Nat /\ p[u] \in Nat /\ o[u] <= p[u]
  PROVE  Fits(l, d, p) => Fits(l, c, o)
<1>1. Cardinality(Reqs) \in Nat
  BY FS_CardinalityType DEF SharesAssumption
<1>2. l.n \in Nat /\ l.limit \in Nat /\ \A u \in Users : l.by[u] \in Nat
  BY DEF Links
<1> QED BY <1>1, <1>2 DEF Fits, Most

LEMMA FitsNone ==
  ASSUME SharesAssumption, NEW h, NEW a, NEW l \in Links
  PROVE  Fits(l, Counting(h, a), Owing(h, a)) => Fits(l, 0, None)
<1>1. None \in [Users -> Nat] /\ \A u \in Users : None[u] = 0
  BY DEF None
<1> QED BY <1>1, Numbers, FitsLess

\* A step that leaves what the link has counted as it is.
LEMMA CountsFrame ==
  ASSUME SharesAssumption, NEW h, Counts(h), cache'[h] = cache[h], served'[h] = served[h],
         bolt'[h] = Nil \/ (bolt[h] # Nil /\ Worth(bolt'[h], bolt[h])),
         cache[h] # Nil => Worth(heap'[cache[h]], heap[cache[h]]),
         cache[h] = Nil =>
           \A s \in Reqs : Is(s, h, {"save"})' => at'[s] = at[s] /\ Worth(heap'[at'[s].obj], heap[at'[s].obj]),
         \A s \in Reqs : Is(s, h, Counters) \/ Is(s, h, Counters)' => at'[s] = at[s],
         flush' # Nil /\ ~Saves(h)' /\ ~Unsaved(h)' /\ bolt'[h] # Nil /\ cache[h] # Nil => flush # Nil /\ ~Saves(h) /\ ~Unsaved(h)
  PROVE  Counts(h)'
<1>1. Counting(h, at') = Counting(h, at) /\ Owing(h, at') = Owing(h, at) /\ Crediting(h, at') = Crediting(h, at)
  <2>1. \A s \in Reqs : (at[s].h = h /\ at[s].pc \in Counters) \/ (at'[s].h = h /\ at'[s].pc \in Counters) => at[s] = at'[s]
    BY DEF Is
  <2> QED BY <2>1, SameVisits
<1>2. cache'[h] # Nil =>
        Fits(heap'[cache'[h]], Counting(h, at'), Owing(h, at')) /\ Backed(served'[h], heap'[cache'[h]], Crediting(h, at'))
  BY <1>1, WorthFits DEF Counts
<1>3. bolt'[h] # Nil => Fits(bolt'[h], 0, None)
  BY WorthFits DEF Counts
<1>4. cache'[h] = Nil /\ bolt'[h] # Nil => Backed(served'[h], bolt'[h], None)
  BY WorthFits DEF Counts
<1>5. \A r \in Reqs : Is(r, h, {"save"})' /\ cache'[h] = Nil =>
        Fits(heap'[at'[r].obj], 0, None) /\ Backed(served'[h], heap'[at'[r].obj], None)
  <2> SUFFICES ASSUME NEW r \in Reqs, Is(r, h, {"save"})', cache'[h] = Nil
               PROVE  Fits(heap'[at'[r].obj], 0, None) /\ Backed(served'[h], heap'[at'[r].obj], None)
    OBVIOUS
  <2>1. Fits(heap[at[r].obj], 0, None) /\ Backed(served[h], heap[at[r].obj], None)
    BY DEF Counts, Is
  <2>2. Worth(heap'[at'[r].obj], heap[at[r].obj])
    OBVIOUS
  <2> QED BY <2>1, <2>2, WorthFits
<1>6. flush' # Nil /\ ~Saves(h)' /\ ~Unsaved(h)' /\ bolt'[h] # Nil /\ cache'[h] # Nil =>
        Backed(served'[h], bolt'[h], Crediting(h, at'))
  BY <1>1, WorthFits DEF Counts
<1> QED BY <1>2, <1>3, <1>4, <1>5, <1>6 DEF Counts

LEMMA Same == \A l : Worth(l, l)
BY DEF Worth, SameCounts

\* A step that leaves the link, its objects and its requests as they are.
LEMMA FarCounts ==
  ASSUME SharesAssumption, TInv, TInv', NEW h \in Hashes, Counts(h), cache'[h] = cache[h], served'[h] = served[h],
         bolt'[h] = Nil \/ (bolt[h] # Nil /\ Worth(bolt'[h], bolt[h])), Keeps(h),
         \A s \in Reqs : Is(s, h, Works \cup Counters) \/ Is(s, h, Works \cup Counters)' => at'[s] = at[s],
         flush' # Nil /\ ~Saves(h)' /\ bolt'[h] # Nil /\ cache[h] # Nil => flush # Nil /\ ~Saves(h)
  PROVE  Counts(h)'
<1>1. /\ cache[h] # Nil => Worth(heap'[cache[h]], heap[cache[h]])
      /\ \A s \in Reqs : Is(s, h, {"save"})' => Worth(heap'[at'[s].obj], heap[at'[s].obj])
  BY CalmHeap, Same DEF Is, Holders
<1>2. Unsaved(h) => Unsaved(h)'
  BY DEF Unsaved, Is, Works
<1>3. /\ \A s \in Reqs : Is(s, h, {"save"})' => at'[s] = at[s]
      /\ \A s \in Reqs : Is(s, h, Counters) \/ Is(s, h, Counters)' => at'[s] = at[s]
  BY DEF Is, Works
<1> QED BY <1>1, <1>2, <1>3, CountsFrame

\* Nobody has the object of a link that is only stored.
LEMMA NobodyHas ==
  ASSUME SharesAssumption, TInv, NEW h \in Hashes, Held(h), cache[h] = Nil, ~Dead(h)
  PROVE  \A r \in Reqs : at[r].h = h => at[r].pc \notin Counters
<1>1. \A r \in Reqs : at[r].h = h /\ at[r].pc \in Counters => at[r].obj # Nil
  BY DEF TInv, Requests, ReqOK, Holders, Counters
<1> QED BY <1>1 DEF Held, Is, Counters

LEMMA LookCounts ==
  ASSUME SharesAssumption, TInv, TInv', NEW h \in Hashes, NEW r \in Reqs, Hash(r) = h, Counts(h),
         GetCached(r) \/ GetStored(r) \/ Leave(r) \/ (\E gets \in BOOLEAN : ListRead(r, gets))
  PROVE  Counts(h)'
<1>1. /\ at[r].pc \in {"get", "got", "list"} /\ at'[r].pc \in {"purge", "purgebolt", "got", "idle", "fill", "listfill"}
      /\ \A s \in Reqs : s # r => at'[s] = at[s]
  BY GetCachedE, RepliesE, GetStoredE, ListReadE DEF Goes, Leave
<1>2. UNCHANGED <<bolt, cache, flush, served>>
  BY DEF GetCached, Leave, GetStored, ListRead
<1>3. \A o : o # Nil /\ Belongs(o, h)' /\ Belongs(o, h) => heap'[o] = heap[o]
  <2>1. CASE Memory(heap) \/ UNCHANGED heap
    BY <2>1, Keeping DEF Keeps
  <2>2. CASE GetStored(r) \/ \E gets \in BOOLEAN : ListRead(r, gets)
    <3>1. heap' = heap \/ heap' = [heap EXCEPT ![NewObj] = bolt[h]]
      BY <2>2, GetStoredE, ListReadE
    <3>2. NewObj \notin InUse /\ heap \in [Objs -> Links \cup {Nil}]
      BY Fresh DEF TInv, Mem
    <3>3. \A o : o # Nil /\ Belongs(o, h) => o \in Objs /\ o # NewObj
      BY <3>2, Typed
    <3> HIDE DEF NewObj, InUse
    <3> QED BY <3>1, <3>2, <3>3
  <2> QED BY <2>1, <2>2 DEF GetCached, Leave
<1>4. cache[h] # Nil => Worth(heap'[cache[h]], heap[cache[h]])
  BY <1>2, <1>3, Typed, TypedNext, Same
<1>5. \A s \in Reqs : Is(s, h, {"save"})' => at'[s] = at[s] /\ Worth(heap'[at'[s].obj], heap[at'[s].obj])
  <2> SUFFICES ASSUME NEW s \in Reqs, Is(s, h, {"save"})' PROVE at'[s] = at[s] /\ Worth(heap'[at'[s].obj], heap[at'[s].obj])
    OBVIOUS
  <2>1. at'[s] = at[s] /\ at[s].h = h /\ at[s].pc \in Holders
    BY <1>1 DEF Is, Holders
  <2> QED BY <1>3, <2>1, Typed, TypedNext, Same
<1>6. \A s \in Reqs : Is(s, h, Counters) \/ Is(s, h, Counters)' => at'[s] = at[s]
  BY <1>1 DEF Is, Counters
<1>7. (Saves(h) => Saves(h)') /\ (Unsaved(h) => Unsaved(h)')
  BY <1>1, <1>2 DEF Saves, Unsaved, Is
<1> QED BY <1>2, <1>4, <1>5, <1>6, <1>7, Same, CountsFrame

LEMMA DeadCounts == ASSUME NEW h, Dead(h)' PROVE Counts(h)'
BY DEF Dead, Writes, Counts, Is

LEMMA BackedMore ==
  ASSUME NEW s \in CountRecs, NEW l \in Links, NEW d, NEW e, \A u \in Users : d[u] \in Nat /\ e[u] \in Nat /\ d[u] <= e[u]
  PROVE  Backed(s, l, d) => Backed(s, l, e)
<1>1. s.n \in Nat /\ l.n \in Nat /\ \A u \in Users : s.by[u] \in Nat /\ l.by[u] \in Nat
  BY DEF Links, CountRecs
<1> QED BY <1>1 DEF Backed

LEMMA CreditIs ==
  ASSUME NEW c \in Users
  PROVE  /\ \A l \in Links : /\ Credit(l, c).n = l.n /\ Credit(l, c).limit = l.limit /\ Credit(l, c).perUser = l.perUser
                             /\ Credit(l, c).by[c] = l.by[c] + 1 /\ \A u \in Users : u # c => Credit(l, c).by[u] = l.by[u]
         /\ \A k \in CountRecs : /\ Credit(k, c).n = k.n /\ Credit(k, c).by[c] = k.by[c] + 1
                                 /\ \A u \in Users : u # c => Credit(k, c).by[u] = k.by[u]
BY DEF Links, CountRecs, Credit

LEMMA OneIs ==
  /\ \A l \in Links : /\ One(l).n = l.n + 1 /\ One(l).limit = l.limit /\ One(l).perUser = l.perUser /\ One(l).by = l.by
                      /\ One(l) \in Links
  /\ \A k \in CountRecs : One(k).n = k.n + 1 /\ One(k).by = k.by /\ One(k) \in CountRecs
BY DEF Links, CountRecs, One

LEMMA CheckCounts ==
  ASSUME SharesAssumption, TInv, TInv', NEW h \in Hashes, NEW r \in Reqs, Hash(r) = h, Counts(h), Held(h), Dead(h) => Dead(h)',
         NEW c \in Callers, Check(r, c)
  PROVE  Counts(h)'
<1>1. /\ \A s \in Reqs : s # r => at'[s] = at[s]
      /\ at'[r].h = h /\ at'[r].pc \in {"count", "countview"} /\ at[r].pc = "got" /\ at[r].h = h /\ at'[r].arg = c
      /\ ~Refused(Obj(r), c)
      /\ UNCHANGED <<bolt, cache, heap, flush, served>>
  BY CheckE DEF Goes, Check, Hash
<1>2. CASE Dead(h)
  BY <1>2, DeadCounts
<1>3. CASE ~Dead(h)
  <2>1. cache[h] = at[r].obj /\ cache[h] # Nil
    BY <1>1, <1>3 DEF Held, Is, TInv, Requests, ReqOK, Holders
  <2> PICK l \in Links : l = heap[cache[h]]
    BY <2>1, Typed
  <2>2. Fits(l, Counting(h, at), Owing(h, at)) /\ Backed(served[h], l, Crediting(h, at)) /\ ~Refused(l, c)
    BY <1>1, <2>1 DEF Counts, Obj
  <2>3. /\ \A u \in Users : u # c => Owing(h, at')[u] <= Owing(h, at)[u]
        /\ \A u \in Users : Crediting(h, at)[u] <= Crediting(h, at')[u]
    BY <1>1, OneVisit
  <2>4. /\ Counting(h, at') \in Nat /\ Counting(h, at') <= Cardinality(Reqs) /\ Cardinality(Reqs) \in Nat
        /\ \A u \in Users : /\ Owing(h, at')[u] \in Nat /\ Owing(h, at')[u] <= Cardinality(Reqs) /\ Owing(h, at)[u] \in Nat
                            /\ Crediting(h, at)[u] \in Nat /\ Crediting(h, at')[u] \in Nat
    BY Numbers
  <2>5. l.n \in Nat /\ l.limit \in Nat /\ \A u \in Users : l.by[u] \in Nat
    BY DEF Links
  <2>6. Fits(l, Counting(h, at'), Owing(h, at'))
    <3>1. ASSUME l.limit > 0, ~l.perUser PROVE l.n + Counting(h, at') <= Most(l)
      BY <2>2, <2>4, <2>5, <3>1 DEF Refused, Most
    <3>2. ASSUME l.limit > 0, l.perUser, NEW u \in Users PROVE l.by[u] + Owing(h, at')[u] <= Most(l)
      <4>1. CASE u = c
        BY <2>2, <2>4, <2>5, <3>2, <4>1 DEF Refused, Most
      <4>2. CASE u # c
        <5>1. l.by[u] + Owing(h, at)[u] <= Most(l)
          BY <2>2, <3>2 DEF Fits
        <5> QED BY <2>3, <2>4, <2>5, <4>2, <5>1 DEF Most
      <4> QED BY <4>1, <4>2
    <3> QED BY <3>1, <3>2 DEF Fits
  <2>7. served[h] \in CountRecs /\ (bolt[h] # Nil => bolt[h] \in Links)
    BY DEF TInv, Basic
  <2>8. Backed(served[h], l, Crediting(h, at'))
    BY <2>2, <2>3, <2>4, <2>7, BackedMore
  <2>9. bolt[h] # Nil /\ Backed(served[h], bolt[h], Crediting(h, at)) => Backed(served[h], bolt[h], Crediting(h, at'))
    BY <2>3, <2>4, <2>7, BackedMore
  <2>10. (Saves(h) => Saves(h)') /\ (Unsaved(h) => Unsaved(h)')
    BY <1>1 DEF Saves, Unsaved, Is
  <2> QED BY <1>1, <2>1, <2>6, <2>8, <2>9, <2>10 DEF Counts
<1> QED BY <1>2, <1>3

\* Too late for the flush, or not.
LEMMA InTime ==
  ASSUME SharesAssumption, TInv, NEW h \in Hashes, Note(Late(h)), "late" \notin excuse'[h], UNCHANGED flush
  PROVE  flush' # Nil => Saves(h)'
<1>1. Late(h)[h] \subseteq excuse'[h]
  BY Lates, Mono
<1>2. flush # Nil /\ ~Flushing(h, flush) => "late" \in Late(h)[h]
  BY Adds DEF Late, Excuses
<1> QED BY <1>1, <1>2 DEF Flushing, Saves

LEMMA CountCounts ==
  ASSUME SharesAssumption, TInv, TInv', NEW h \in Hashes, NEW r \in Reqs, Hash(r) = h, Counts(h), Held(h), Dead(h) => Dead(h)',
         "late" \notin excuse'[h], Count(r) \/ CountUser(r)
  PROVE  Counts(h)'
<1>1. /\ \A s \in Reqs : s # r => at'[s] = at[s]
      /\ at[r].h = h /\ UNCHANGED <<bolt, cache, flush>> /\ at[r].pc \in {"count", "countview", "countuser"} /\ Note(Late(h))
      /\ at[r].arg \in Callers
  BY CountE, RepliesE DEF Goes, Count, CountUser, Hash, TInv, Requests, ReqOK
<1>2. CASE Dead(h)
  BY <1>2, DeadCounts
<1>3. CASE ~Dead(h)
  <2>1. cache[h] = at[r].obj /\ cache[h] # Nil /\ cache[h] \in Objs
    BY <1>1, <1>3, Typed DEF Held, Is, TInv, Requests, ReqOK, Holders
  <2> PICK l \in Links : l = heap[cache[h]]
    BY <2>1, Typed
  <2> PICK c \in Callers : c = at[r].arg
    BY <1>1
  <2> PICK k \in CountRecs : k = served[h]
    BY DEF TInv, Basic
  <2>2. Fits(l, Counting(h, at), Owing(h, at)) /\ Backed(k, l, Crediting(h, at)) /\ Obj(r) = l
    BY <2>1 DEF Counts, Obj
  <2>3. /\ Counting(h, at') \in Nat /\ Counting(h, at) \in Nat
        /\ \A u \in Users : /\ Owing(h, at')[u] \in Nat /\ Owing(h, at)[u] \in Nat
                            /\ Crediting(h, at)[u] \in Nat /\ Crediting(h, at')[u] \in Nat
    BY Numbers
  <2>4. /\ l.n \in Nat /\ l.limit \in Nat /\ \A u \in Users : l.by[u] \in Nat
        /\ k.n \in Nat /\ \A u \in Users : k.by[u] \in Nat
        /\ Cardinality(Reqs) \in Nat
    BY FS_CardinalityType DEF Links, CountRecs, SharesAssumption
  <2>5. ASSUME NEW m, Memory([heap EXCEPT ![at[r].obj] = m]) PROVE heap'[cache'[h]] = m
    <3>1. ASSUME NEW hp, Memory(hp) PROVE heap'[cache'[h]] = hp[cache'[h]]
      <4>1. cache'[h] # Nil
        BY <1>1, <2>1
      <4>2. \A o : cache'[h] = o => Belongs(o, h)'
        BY TypedNext
      <4>3. ASSUME NEW o, o # Nil, Belongs(o, h)' PROVE heap'[o] = hp[o]
        BY <3>1, <4>3, Kept
      <4> QED BY <4>1, <4>2, <4>3
    <3>2. heap'[cache'[h]] = [heap EXCEPT ![at[r].obj] = m][cache'[h]]
      BY <2>5, <3>1
    <3>3. heap \in [Objs -> Links \cup {Nil}]
      BY DEF TInv, Mem
    <3> QED BY <1>1, <2>1, <3>2, <3>3
  <2>6. flush' # Nil => Saves(h)'
    BY <1>1, InTime
  <2>7. served \in [Hashes -> CountRecs]
    BY DEF TInv, Basic
  <2>8. Fits(heap'[cache'[h]], Counting(h, at'), Owing(h, at')) /\ Backed(served'[h], heap'[cache'[h]], Crediting(h, at'))
    <3>1. CASE Count(r) /\ at[r].pc = "count" /\ PerUser(l, c)
      <4>1. at'[r].h = h /\ at'[r].pc = "countuser" /\ at'[r].arg = c /\ Memory([heap EXCEPT ![at[r].obj] = One(l)])
            /\ served' = [served EXCEPT ![h] = Credit(One(k), c)] /\ c \in Users
        BY <2>2, <3>1, CountE DEF Goes, PerUser, Callers
      <4>2. heap'[cache'[h]] = One(l) /\ served'[h] = Credit(One(k), c)
        BY <2>5, <2>7, <4>1
      <4>3. /\ Counting(h, at') + 1 <= Counting(h, at)
            /\ \A u \in Users : Owing(h, at')[u] <= Owing(h, at)[u] /\ Crediting(h, at)[u] <= Crediting(h, at')[u]
            /\ Crediting(h, at)[c] + 1 <= Crediting(h, at')[c]
        <5>1. \A u \in Users : at'[r].arg # u \/ (at[r].pc \in Counters /\ at[r].arg = u)
          BY <1>1, <4>1 DEF Counters
        <5> QED BY <1>1, <3>1, <4>1, <5>1, OneVisit
      <4>4. /\ One(l).n = l.n + 1 /\ One(l).limit = l.limit /\ One(l).perUser = l.perUser /\ One(l).by = l.by
            /\ Credit(One(k), c).n = k.n + 1 /\ Credit(One(k), c).by[c] = k.by[c] + 1
            /\ \A u \in Users : u # c => Credit(One(k), c).by[u] = k.by[u]
        BY <4>1, OneIs, CreditIs
      <4>5. Fits(One(l), Counting(h, at'), Owing(h, at'))
        BY <2>2, <2>3, <2>4, <4>3, <4>4 DEF Fits, Most
      <4>6. Backed(Credit(One(k), c), One(l), Crediting(h, at'))
        BY <2>2, <2>3, <2>4, <4>3, <4>4 DEF Backed
      <4> QED BY <4>2, <4>5, <4>6
    <3>2. CASE Count(r) /\ ~(at[r].pc = "count" /\ PerUser(l, c))
      <4>1. at'[r].h = Nil /\ Memory([heap EXCEPT ![at[r].obj] = Both(l, c)]) /\ at[r].pc \in {"count", "countview"}
            /\ served' = [served EXCEPT ![h] = IF PerUser(l, c) THEN Credit(One(k), c) ELSE One(k)] /\ Nil # h
        <5>1. Nil # h
          BY DEF SharesAssumption
        <5>2. /\ Goes(r, Nil, {"idle"}) /\ Memory([heap EXCEPT ![at[r].obj] = Both(l, c)]) /\ at[r].pc \in {"count", "countview"}
              /\ served' = [served EXCEPT ![h] = IF PerUser(l, c) THEN Credit(One(k), c) ELSE One(k)]
          BY <2>2, <3>2, CountE
        <5> QED BY <5>1, <5>2 DEF Goes
      <4>2. heap'[cache'[h]] = Both(l, c) /\ served'[h] = IF PerUser(l, c) THEN Credit(One(k), c) ELSE One(k)
        BY <2>5, <2>7, <4>1
      <4>3. /\ Counting(h, at') + 1 <= Counting(h, at)
            /\ \A u \in Users : Owing(h, at')[u] <= Owing(h, at)[u] /\ Crediting(h, at)[u] <= Crediting(h, at')[u]
            /\ c \in Users => Owing(h, at')[c] + 1 <= Owing(h, at)[c]
        BY <1>1, <4>1, OneVisit DEF Counters
      <4>4. CASE PerUser(l, c)
        <5>1. c \in Users
          BY <4>4 DEF PerUser, Callers
        <5>2. /\ Credit(One(l), c).n = l.n + 1 /\ Credit(One(l), c).limit = l.limit /\ Credit(One(l), c).perUser = l.perUser
              /\ Credit(One(l), c).by[c] = l.by[c] + 1 /\ \A u \in Users : u # c => Credit(One(l), c).by[u] = l.by[u]
              /\ Credit(One(k), c).n = k.n + 1 /\ Credit(One(k), c).by[c] = k.by[c] + 1
              /\ \A u \in Users : u # c => Credit(One(k), c).by[u] = k.by[u]
          BY <5>1, OneIs, CreditIs
        <5>3. Fits(Credit(One(l), c), Counting(h, at'), Owing(h, at'))
          BY <2>2, <2>3, <2>4, <4>3, <5>1, <5>2 DEF Fits, Most
        <5>4. Backed(Credit(One(k), c), Credit(One(l), c), Crediting(h, at'))
          BY <2>2, <2>3, <2>4, <4>3, <5>1, <5>2 DEF Backed
        <5> QED BY <4>2, <4>4, <5>3, <5>4 DEF Both
      <4>5. CASE ~PerUser(l, c)
        <5>1. /\ One(l).n = l.n + 1 /\ One(l).limit = l.limit /\ One(l).perUser = l.perUser /\ One(l).by = l.by
              /\ One(k).n = k.n + 1 /\ One(k).by = k.by
          BY OneIs
        <5>2. Fits(One(l), Counting(h, at'), Owing(h, at'))
          BY <2>2, <2>3, <2>4, <4>3, <5>1 DEF Fits, Most
        <5>3. Backed(One(k), One(l), Crediting(h, at'))
          BY <2>2, <2>3, <2>4, <4>3, <5>1 DEF Backed
        <5> QED BY <4>2, <4>5, <5>2, <5>3 DEF Both
      <4> QED BY <4>4, <4>5
    <3>3. CASE CountUser(r)
      <4>1. at'[r].h = Nil /\ Memory([heap EXCEPT ![at[r].obj] = Credit(l, c)]) /\ at[r].pc = "countuser" /\ Nil # h
            /\ served' = served /\ c \in Users
        <5>1. at'[r].h = Nil
          BY <3>3, RepliesE DEF Goes
        <5>2. at[r].pc = "countuser" /\ served' = served /\ c \in Users /\ Nil # h
          BY <3>3 DEF CountUser, TInv, Requests, ReqOK, SharesAssumption
        <5>3. [heap EXCEPT ![at[r].obj] = Credit(@, at[r].arg)] = [heap EXCEPT ![at[r].obj] = Credit(l, c)]
          BY <2>1
        <5> QED BY <3>3, <5>1, <5>2, <5>3 DEF CountUser
      <4>2. heap'[cache'[h]] = Credit(l, c) /\ served'[h] = k
        BY <2>5, <4>1
      <4>3. /\ Counting(h, at') <= Counting(h, at)
            /\ \A u \in Users : Owing(h, at')[u] <= Owing(h, at)[u] /\ (u # c => Crediting(h, at)[u] <= Crediting(h, at')[u])
            /\ Owing(h, at')[c] + 1 <= Owing(h, at)[c] /\ Crediting(h, at)[c] <= Crediting(h, at')[c] + 1
        BY <1>1, <4>1, OneVisit DEF Counters
      <4>4. /\ Credit(l, c).n = l.n /\ Credit(l, c).limit = l.limit /\ Credit(l, c).perUser = l.perUser
            /\ Credit(l, c).by[c] = l.by[c] + 1 /\ \A u \in Users : u # c => Credit(l, c).by[u] = l.by[u]
        BY <4>1, CreditIs
      <4>5. Fits(Credit(l, c), Counting(h, at'), Owing(h, at'))
        BY <2>2, <2>3, <2>4, <4>1, <4>3, <4>4 DEF Fits, Most
      <4>6. Backed(k, Credit(l, c), Crediting(h, at'))
        BY <2>2, <2>3, <2>4, <4>1, <4>3, <4>4 DEF Backed
      <4> QED BY <4>2, <4>5, <4>6
    <3> QED BY <3>1, <3>2, <3>3
  <2> QED BY <1>1, <2>1, <2>6, <2>8 DEF Counts
<1> QED BY <1>2, <1>3

LEMMA WriteCounts ==
  ASSUME SharesAssumption, TInv, TInv', NEW h \in Hashes, NEW r \in Reqs, Hash(r) = h, Sound(h), Counts(h), Plain(h)',
         Edit(r) \/ \E p \in Paths : Patch(r, p)
  PROVE  Counts(h)'
<1>1. /\ at'[r].h = h /\ at'[r].pc \in {"save", "savepath"} /\ at'[r].obj = at[r].obj /\ at[r].pc = "got" /\ at[r].h = h
      /\ \A s \in Reqs : s # r => at'[s] = at[s]
      /\ UNCHANGED <<bolt, cache, flush>> /\ Note(Detached(r))
      /\ heap' = [heap EXCEPT ![at[r].obj] = heap'[at[r].obj]] /\ at[r].obj # Nil
  BY EditE, PatchE DEF Goes, Edit, Patch, TInv, Requests, ReqOK, Holders, Hash
<1>2. cache[h] = at[r].obj
  <2>1. Detached(r)[h] \subseteq excuse'[h]
    BY <1>1, Detachments, Mono
  <2>2. cache[h] # at[r].obj => "delete" \in Detached(r)[h]
    BY Adds DEF Detached, Excuses
  <2> QED BY <2>1, <2>2 DEF Plain
<1>3. Unsaved(h)' /\ \A s \in Reqs : Is(s, h, Counters) \/ Is(s, h, Counters)' => at'[s] = at[s]
  BY <1>1 DEF Unsaved, Is, Counters
<1>4. ASSUME served' = served, Worth(heap'[at[r].obj], Obj(r)) PROVE Counts(h)'
  <2>1. Worth(heap'[cache[h]], heap[cache[h]])
    BY <1>2, <1>4 DEF Obj
  <2>2. bolt[h] # Nil => Worth(bolt'[h], bolt[h])
    BY <1>1, Same
  <2> QED BY <1>1, <1>2, <1>3, <1>4, <2>1, <2>2, CountsFrame
<1>5. ASSUME served' = [served EXCEPT ![Hash(r)] = Zero], heap'[at[r].obj].n = 0,
             heap'[at[r].obj].by = [u \in Users |-> 0], heap'[at[r].obj] \in Links
      PROVE  Counts(h)'
  <2> PICK l \in Links : l = heap'[cache[h]]
    BY <1>2, <1>5
  <2>1. l.n = 0 /\ (\A u \in Users : l.by[u] = 0) /\ l.limit \in Nat
    BY <1>2, <1>5 DEF Links
  <2>2. Fits(l, Counting(h, at'), Owing(h, at'))
    <3>1. \A u \in Users : Owing(h, at')[u] \in Nat /\ Owing(h, at')[u] <= Cardinality(Reqs)
      BY Numbers
    <3>2. Counting(h, at') \in Nat /\ Counting(h, at') <= Cardinality(Reqs) /\ Cardinality(Reqs) \in Nat
      BY Numbers
    <3> QED BY <2>1, <3>1, <3>2 DEF Fits, Most
  <2>3. Backed(served'[h], l, Crediting(h, at'))
    <3>1. served'[h] = Zero
      BY <1>5 DEF TInv, Basic
    <3>2. \A u \in Users : Crediting(h, at')[u] \in Nat
      BY Numbers
    <3> QED BY <2>1, <3>1, <3>2 DEF Backed, Zero
  <2> QED BY <1>1, <1>2, <1>3, <2>2, <2>3 DEF Counts
<1>6. CASE Edit(r)
  BY <1>4, <1>5, <1>6, EditE DEF Worth
<1>7. ASSUME NEW p \in Paths, Patch(r, p) PROVE Counts(h)'
  <2>1. served' = served
    BY <1>7 DEF Patch
  <2> QED BY <1>4, <1>7, <2>1, PatchE DEF Worth, SameTerms
<1> QED BY <1>6, <1>7

LEMMA FillCounts ==
  ASSUME SharesAssumption, TInv, TInv', NEW h \in Hashes, NEW r \in Reqs, Hash(r) = h, Sound(h), Held(h), Counts(h), Plain(h)',
         Fill(r) \/ ListFill(r) \/ Recache(r)
  PROVE  Counts(h)'
<1>1. /\ \A s \in Reqs : s # r => at'[s] = at[s]
      /\ at[r].pc \in {"fill", "listfill", "recache"} /\ at[r].h = h /\ at[r].obj # Nil
      /\ at'[r].pc \in {"got", "idle", "orphan"}
      /\ UNCHANGED <<bolt, flush, served>> /\ Memory(heap)
  BY FillE, ListFillE, RepliesE DEF Goes, Fill, ListFill, Recache, TInv, Requests, ReqOK, Holders, Hash
<1>2. cache[h] \in {Nil, cache'[h]} /\ (cache[h] = Nil => cache'[h] = at[r].obj)
  <2>1. CASE ListFill(r)
    BY <2>1 DEF ListFill, TInv, Basic
  <2>2. CASE Fill(r) \/ Recache(r)
    <3>1. Note(Doubled(r)) /\ cache'[h] = at[r].obj
      BY <2>2 DEF Fill, Recache, TInv, Basic
    <3>2. Doubled(r)[h] \subseteq excuse'[h]
      BY <1>1, <3>1, Detachments, Mono
    <3>3. cache[h] \notin {Nil, at[r].obj} => "doubled" \in Doubled(r)[h]
      BY Adds DEF Doubled, Excuses
    <3> QED BY <3>1, <3>2, <3>3 DEF Plain
  <2> QED BY <2>1, <2>2
<1>3. Keeps(h)
  BY <1>1, Keeping
<1>4. \A s \in Reqs : Is(s, h, Counters) \/ Is(s, h, Counters)' => at'[s] = at[s]
  BY <1>1 DEF Is, Counters
<1>5. CASE cache[h] # Nil
  <2>1. cache'[h] = cache[h] /\ Worth(heap'[cache[h]], heap[cache[h]])
    BY <1>2, <1>3, <1>5, CalmHeap, Same
  <2>2. (Unsaved(h) => Unsaved(h)') /\ (Saves(h) => Saves(h)')
    BY <1>1 DEF Unsaved, Saves, Is
  <2>3. bolt[h] # Nil => Worth(bolt'[h], bolt[h])
    BY <1>1, Same
  <2> QED BY <1>1, <1>4, <1>5, <2>1, <2>2, <2>3, CountsFrame
<1>6. CASE cache[h] = Nil
  <2>1. cache'[h] = at[r].obj /\ heap'[cache'[h]] = heap[at[r].obj] /\ cache'[h] # Nil
    BY <1>1, <1>2, <1>3, <1>6, CalmHeap
  <2>2. bolt[h] # Nil /\ Worth(heap[at[r].obj], bolt[h])
    <3>1. CASE at[r].pc = "recache"
      BY <1>1, <1>6, <3>1, Same DEF Sound, Editors, Is
    <3>2. CASE at[r].pc \in {"fill", "listfill"}
      BY <1>1, <1>6, <3>2 DEF Sound, Readers, Is, SameTerms, Worth
    <3> QED BY <1>1, <3>1, <3>2
  <2>3. Counting(h, at') = 0 /\ Owing(h, at') = None /\ Crediting(h, at') = None
    <3>1. \A s \in Reqs : at[s].h = h => at[s].pc \notin Counters
      BY <1>6, <2>2, NobodyHas DEF Dead
    <3>2. \A s \in Reqs : at'[s].h = h => at'[s].pc \notin Counters
      BY <1>1, <3>1 DEF Counters
    <3> QED BY <3>2, Nobody
  <2>4. Fits(bolt[h], 0, None) /\ Backed(served[h], bolt[h], None)
    BY <1>6, <2>2 DEF Counts
  <2>5. Fits(heap'[cache'[h]], 0, None) /\ Backed(served[h], heap'[cache'[h]], None)
    BY <2>1, <2>2, <2>4, WorthFits
  <2> QED BY <1>1, <2>1, <2>3, <2>4, <2>5 DEF Counts
<1> QED BY <1>5, <1>6

LEMMA PurgeCounts ==
  ASSUME SharesAssumption, TInv, TInv', NEW h \in Hashes, NEW r \in Reqs, Hash(r) = h, Plain(h), Gone(h), Known(h), Counts(h),
         Purge(r) \/ Unbolt(r) \/ Uncache(r)
  PROVE  Counts(h)'
<1>1. /\ \A s \in Reqs : s # r => at'[s] = at[s]
      /\ UNCHANGED <<flush, mover, served>> /\ Memory(heap) /\ at[r].h = h
  BY PurgeE, UnboltE, RepliesE DEF Goes, Purge, Unbolt, Uncache, Hash
<1>2. Keeps(h)
  BY <1>1, Keeping
<1>3. CASE Uncache(r)
  <2>1. cache'[h] = Nil /\ at[r].pc \in {"uncache", "drop"} /\ at'[r].pc = "idle" /\ bolt' = bolt
    BY <1>3, RepliesE DEF Uncache, TInv, Basic, Goes
  <2>2. bolt[h] = Nil /\ ~Writes(h)
    BY <1>1, <2>1 DEF Gone, Known, Plain, Deletes, Is
  <2>3. \A s \in Reqs : ~Is(s, h, {"save"})'
    BY <1>1, <2>1, <2>2 DEF Writes, Is
  <2> QED BY <2>1, <2>2, <2>3 DEF Counts
<1>4. CASE Purge(r) \/ Unbolt(r)
  <2>1. bolt'[h] = Nil /\ cache' = cache
    BY <1>4 DEF Purge, Unbolt, TInv, Basic
  <2>2. at'[r].pc \in {"drop", "idle", "uncache"} /\ at[r].pc \in {"purge", "purgebolt", "got", "orphan"}
    BY <1>4, PurgeE, UnboltE DEF Goes
  <2>3. /\ \A s \in Reqs : Is(s, h, Counters) \/ Is(s, h, Counters)' => at'[s] = at[s]
        /\ \A s \in Reqs : Is(s, h, {"save"})' => at'[s] = at[s]
    BY <1>1, <2>2 DEF Is, Counters
  <2>4. /\ cache[h] # Nil => Worth(heap'[cache[h]], heap[cache[h]])
        /\ \A s \in Reqs : Is(s, h, {"save"})' => Worth(heap'[at'[s].obj], heap[at'[s].obj])
    BY <1>2, <2>1, CalmHeap, Same DEF Is, Holders
  <2> QED BY <1>1, <2>1, <2>3, <2>4, CountsFrame
<1> QED BY <1>3, <1>4

LEMMA SaveCounts ==
  ASSUME SharesAssumption, TInv, TInv', NEW h \in Hashes, NEW r \in Reqs, Hash(r) = h, Sound(h), Counts(h), Save(r)
  PROVE  Counts(h)'
<1>1. /\ \A s \in Reqs : s # r => at'[s] = at[s]
      /\ at[r].h = h /\ at'[r].h = h
      /\ \/ at[r].pc = "save" /\ at'[r].pc = "recache"
         \/ at[r].pc = "savepath" /\ at'[r].pc = "repath"
      /\ UNCHANGED <<cache, heap, flush, served>> /\ bolt'[h] = heap[at[r].obj]
  BY SaveE DEF Goes, Save, Hash, Obj, TInv, Basic
<1>2. heap[at[r].obj] \in Links /\ at[r].obj # Nil
  BY <1>1, Typed DEF Holders
<1>3. Counting(h, at') = Counting(h, at) /\ Owing(h, at') = Owing(h, at) /\ Crediting(h, at') = Crediting(h, at)
  <2>1. \A s \in Reqs : (at[s].h = h /\ at[s].pc \in Counters) \/ (at'[s].h = h /\ at'[s].pc \in Counters) => at[s] = at'[s]
    BY <1>1 DEF Counters
  <2> QED BY <2>1, SameVisits
<1>4. CASE cache[h] = at[r].obj
  <2>1. Fits(bolt'[h], Counting(h, at), Owing(h, at)) /\ Backed(served[h], bolt'[h], Crediting(h, at))
    BY <1>1, <1>2, <1>4 DEF Counts
  <2>2. Fits(bolt'[h], 0, None)
    BY <1>1, <1>2, <2>1, FitsNone
  <2>3. cache'[h] # Nil /\ heap'[cache'[h]] = bolt'[h]
    BY <1>1, <1>2, <1>4
  <2> QED BY <1>1, <1>3, <2>1, <2>2, <2>3 DEF Counts
<1>5. CASE cache[h] # at[r].obj
  <2>1. at[r].pc = "save" /\ cache[h] = Nil /\ \A s \in Reqs : Is(s, h, {"save"}) => s = r
    BY <1>1, <1>5 DEF Sound, Editors, Is
  <2>2. \A s \in Reqs : ~Is(s, h, {"save"})'
    BY <1>1, <2>1 DEF Is
  <2>3. Fits(bolt'[h], 0, None) /\ Backed(served[h], bolt'[h], None)
    BY <1>1, <2>1 DEF Counts, Is
  <2> QED BY <1>1, <2>1, <2>2, <2>3 DEF Counts
<1> QED BY <1>4, <1>5

LEMMA RepathCounts ==
  ASSUME SharesAssumption, TInv, TInv', NEW h \in Hashes, NEW r \in Reqs, Hash(r) = h, Sound(h), Counts(h), Repath(r)
  PROVE  Counts(h)'
<1>1. /\ \A s \in Reqs : s # r => at'[s] = at[s]
      /\ at[r].h = h /\ at[r].pc = "repath" /\ at'[r].pc = "idle" /\ at[r].obj # Nil
      /\ UNCHANGED <<bolt, cache, flush, served>>
  BY RepliesE DEF Goes, Repath, Hash, TInv, Requests, ReqOK, Holders
<1>2. cache[h] = at[r].obj
  BY <1>1 DEF Sound, Editors, Is
<1>3. Memory([heap EXCEPT ![cache[h]].path = at[r].arg])
  BY <1>1, <1>2 DEF Repath
<1>4. heap \in [Objs -> Links \cup {Nil}] /\ cache[h] \in Objs /\ heap[cache[h]] \in Links
  BY <1>1, <1>2, Typed DEF TInv, Mem
<1> PICK l : l = [heap[cache[h]] EXCEPT !.path = at[r].arg]
  OBVIOUS
<1>5. Worth(l, heap[cache[h]])
  BY <1>4 DEF Worth, SameCounts, Links
<1>6. heap'[cache[h]] = l
  <2>1. ASSUME NEW hp, Memory(hp), NEW o, o # Nil, Belongs(o, h)' PROVE heap'[o] = hp[o]
    BY <2>1, Kept
  <2>2. Memory([heap EXCEPT ![cache[h]] = l])
    BY <1>3, <1>4
  <2>3. \A o : cache'[h] = o => Belongs(o, h)'
    BY TypedNext
  <2>4. \A o : o # Nil /\ cache'[h] = o => heap'[o] = [heap EXCEPT ![cache[h]] = l][o]
    BY <2>1, <2>2, <2>3
  <2> QED BY <1>1, <1>2, <1>4, <2>4
<1>7. /\ \A s \in Reqs : Is(s, h, Counters) \/ Is(s, h, Counters)' => at'[s] = at[s]
      /\ (Unsaved(h) => Unsaved(h)') /\ (Saves(h) => Saves(h)')
  BY <1>1 DEF Is, Counters, Unsaved, Saves
<1>8. bolt[h] # Nil => Worth(bolt'[h], bolt[h])
  BY <1>1, Same
<1> QED BY <1>1, <1>2, <1>5, <1>6, <1>7, <1>8, CountsFrame

LEMMA RequestCounts ==
  ASSUME SharesAssumption, TInv, TInv', Owned, NEW h \in Hashes, Known(h), Gone(h), Plain(h), Plain(h)', Sound(h), Held(h),
         Dead(h) => Dead(h)', "late" \notin excuse'[h], Counts(h), NEW r \in Reqs, Request(r)
  PROVE  Counts(h)'
<1>1. CASE h # Hash(r)
  <2>1. Far(h) /\ flush' = flush
    BY <1>1, RequestFar, RequestFrame
  <2>2. Saves(h) => Saves(h)'
    BY <2>1 DEF Saves
  <2>3. bolt[h] # Nil => Worth(bolt'[h], bolt[h])
    BY <2>1, Same DEF Far
  <2> QED BY <2>1, <2>2, <2>3, FarCounts DEF Far, Is
<1>2. ASSUME SaveFails(r), h = Hash(r) PROVE FALSE
  <2>1. Note(Only(h, "unsaved"))
    BY <1>2 DEF SaveFails
  <2>2. "unsaved" \in Only(h, "unsaved")[h] /\ \A g \in Hashes : Only(h, "unsaved")[g] \subseteq Excuses
    BY Adds DEF Excuses
  <2>3. Only(h, "unsaved")[h] \subseteq excuse'[h]
    BY <2>1, <2>2, Mono
  <2> QED BY <2>2, <2>3 DEF Plain
<1> QED BY <1>1, <1>2, LookCounts, CheckCounts, CountCounts, WriteCounts, FillCounts, PurgeCounts, SaveCounts, RepathCounts DEF Request

\* A link that is not made yet has served nothing.
Unserved == \A h \in Hashes : h \notin born => served[h] = Zero

LEMMA UnservedStep ==
  ASSUME SharesAssumption, TInv, Unserved, [Next]_vars
  PROVE  Unserved'
<1> SUFFICES ASSUME NEW h \in Hashes, h \notin born' PROVE served'[h] = Zero
  BY DEF Unserved
<1>1. ASSUME NEW r \in Reqs, Request(r) PROVE served'[h] = Zero
  <2>1. h \notin born /\ h # Hash(r)
    BY <1>1, RequestFrame
  <2> QED BY <1>1, <2>1, RequestFrame DEF Unserved
<1>2. CASE Exit \/ Crash
  <2>1. born' = born /\ (served'[h] = Saved(h) \/ served'[h] = served[h])
    BY <1>2 DEF Exit, Crash, Ends
  <2>2. bolt[h] = Nil
    BY <2>1 DEF TInv, Basic
  <2> QED BY <2>1, <2>2 DEF Saved, Unserved
<1>3. CASE UNCHANGED served /\ born \subseteq born'
  BY <1>3 DEF Unserved
<1> QED BY <1>1, <1>2, <1>3 DEF Next, UpdateShares, Open, Create, Rename, MoveRead, MoveSaveFails, MoveSave, MoveCache, Flush,
       FlushFails, FlushSave, Tick, vars

LEMMA CreateCounts ==
  ASSUME SharesAssumption, TInv, TInv', Unserved, NEW h \in Hashes, Counts(h), NEW r \in Reqs, NEW g \in Hashes, NEW p \in Paths,
         Create(r, g, p)
  PROVE  Counts(h)'
<1>1. /\ at'[r].h = g /\ at'[r].pc = "save" /\ at'[r].obj = NewObj /\ at[r].pc = "idle" /\ at[r].h = Nil
      /\ \A s \in Reqs : s # r => at'[s] = at[s]
      /\ UNCHANGED <<bolt, cache, flush, mover, served>> /\ g \notin born
      /\ heap' = [heap EXCEPT ![NewObj] = heap'[NewObj]]
      /\ heap'[NewObj] \in Links /\ heap'[NewObj].n = 0 /\ heap'[NewObj].by = [u \in Users |-> 0]
  <2>1. /\ Goes(r, g, {"save"}) /\ at'[r].obj = NewObj /\ at[r].pc = "idle" /\ at[r].h = Nil
        /\ heap' = [heap EXCEPT ![NewObj] = heap'[NewObj]]
        /\ heap'[NewObj] \in Links /\ heap'[NewObj].n = 0 /\ heap'[NewObj].by = [u \in Users |-> 0]
    BY CreateE
  <2>2. UNCHANGED <<bolt, cache, flush, mover, served>> /\ g \notin born
    BY DEF Create
  <2> HIDE DEF NewObj
  <2> QED BY <2>1, <2>2 DEF Goes
<1> HIDE DEF NewObj
<1>3. CASE g = h
  <2>1. bolt[h] = Nil /\ cache[h] = Nil /\ (\A s \in Reqs : at[s].h # h) /\ served[h] = Zero
    BY <1>1, <1>3 DEF TInv, Basic, Requests, ReqOK, SharesAssumption, Unserved
  <2> PICK l \in Links : l = heap'[NewObj]
    BY <1>1
  <2>2. Fits(l, 0, None) /\ Backed(Zero, l, None)
    <3>1. Cardinality(Reqs) \in Nat /\ Cardinality(Reqs) # 0
      <4>1. Cardinality({}) = 0 /\ Reqs # {}
        BY FS_EmptySet
      <4> QED BY <4>1, FS_EmptySet, FS_CardinalityType DEF SharesAssumption
    <3>2. l.limit \in Nat /\ l.n = 0 /\ \A u \in Users : l.by[u] = 0
      BY <1>1 DEF Links
    <3> QED BY <3>1, <3>2 DEF Fits, Backed, None, Zero, Most
  <2>3. \A s \in Reqs : Is(s, h, {"save"})' => at'[s].obj = NewObj
    BY <1>1, <2>1 DEF Is
  <2> QED BY <1>1, <2>1, <2>2, <2>3 DEF Counts
<1>4. CASE g # h
  <2>1. \A o : o # Nil /\ Belongs(o, h)' => Belongs(o, h)
    BY <1>1, <1>4 DEF Belongs
  <2>2. Keeps(h)
    <3>1. \A o : o # Nil /\ Belongs(o, h)' => o \in Objs /\ o # NewObj
      BY <2>1, Typed, Fresh
    <3>2. heap \in [Objs -> Links \cup {Nil}]
      BY DEF TInv, Mem
    <3> QED BY <1>1, <3>1, <3>2 DEF Keeps
  <2>3. \A s \in Reqs : Is(s, h, Works \cup Counters) \/ Is(s, h, Works \cup Counters)' => at'[s] = at[s]
    BY <1>1, <1>4 DEF Is, SharesAssumption
  <2>4. Saves(h) => Saves(h)'
    BY <1>1 DEF Saves
  <2>5. bolt[h] # Nil => Worth(bolt'[h], bolt[h])
    BY <1>1, Same
  <2> QED BY <1>1, <2>2, <2>3, <2>4, <2>5, FarCounts
<1> QED BY <1>3, <1>4

LEMMA MovesCounts ==
  ASSUME SharesAssumption, TInv, TInv', Owned, NEW h \in Hashes, Known(h), Plain(h), Sound(h), Held(h), Counts(h),
         NEW g \in Hashes, MoveSave(g) \/ MoveCache(g)
  PROVE  Counts(h)'
<1>1. UNCHANGED <<at, flush, served>> /\ bolt \in [Hashes -> Links \cup {Nil}]
  BY DEF MoveSave, MoveCache, TInv, Basic
<1>2. /\ \A s \in Reqs : at'[s] = at[s]
      /\ (Saves(h)' <=> Saves(h)) /\ (Unsaved(h)' <=> Unsaved(h))
  BY <1>1 DEF Saves, Unsaved, Is
<1>3. CASE g # h
  <2>1. bolt'[h] = bolt[h] /\ cache'[h] = cache[h] /\ Keeps(h)
    BY <1>3, MovedPast
  <2>2. bolt[h] # Nil => Worth(bolt'[h], bolt[h])
    BY <2>1, Same
  <2> QED BY <1>1, <1>2, <2>1, <2>2, FarCounts
<1>4. CASE g = h
  <2>1. h \in mover.todo /\ bolt[h] # Nil
    BY <1>4, MoveSaveE, MoveCacheE DEF Sound, Movers
  <2>2. \A s \in Reqs : ~Is(s, h, {"save"})'
    BY <1>1, <2>1, MovedAlone DEF Is
  <2>3. CASE MoveSave(g)
    <3>1. /\ mover.read[h] \in Links /\ bolt' = [bolt EXCEPT ![h] = [mover.read[h] EXCEPT !.path = mover.new]]
          /\ heap' = [heap EXCEPT ![NewObj] = bolt'[h]] /\ mover.h = Nil /\ cache' = cache /\ mover.new \in Paths
      BY <1>4, <2>3, MoveSaveE DEF MoveSave
    <3>2. bolt'[h] = [bolt[h] EXCEPT !.path = mover.new] /\ bolt[h] \in Links
      BY <1>1, <2>1, <3>1 DEF Sound, Movers, SharesAssumption
    <3>3. Worth(bolt'[h], bolt[h])
      BY <3>2 DEF Worth, SameCounts, Links
    <3>4. cache[h] # Nil => Worth(heap'[cache[h]], heap[cache[h]])
      <4>1. NewObj \notin InUse /\ heap \in [Objs -> Links \cup {Nil}] /\ (cache[h] # Nil => cache[h] \in Objs /\ cache[h] \in InUse)
        BY Fresh, Typed DEF TInv, Mem
      <4> HIDE DEF NewObj, InUse
      <4>2. cache[h] # Nil => heap'[cache[h]] = heap[cache[h]]
        BY <3>1, <4>1
      <4> QED BY <4>2, Same
    <3> QED BY <1>1, <1>2, <2>1, <2>2, <3>1, <3>3, <3>4, CountsFrame DEF Is
  <2>4. CASE MoveCache(g)
    <3>1. /\ UNCHANGED bolt /\ mover.h = h /\ mover.new \in Paths /\ mover.obj # Nil /\ mover.obj \in Objs
          /\ heap \in [Objs -> Links \cup {Nil}] /\ cache \in [Hashes -> Objs \cup {Nil}] /\ Nil \notin Objs
      BY <1>4, <2>4, MoveCacheE DEF MoveCache, TInv, Mem, Basic, SharesAssumption
    <3>m. ASSUME NEW hp, Memory(hp), NEW o, o # Nil, Belongs(o, h)' PROVE heap'[o] = hp[o]
      BY <3>m, Kept
    <3>b. \A o : cache'[h] = o => Belongs(o, h)'
      BY TypedNext
    <3>2. CASE cache[h] # Nil
      <4>1. cache'[h] = cache[h]
        BY <1>4, <2>4, <3>2 DEF MoveCache
      <4>2. heap[cache[h]] \in Links /\ cache[h] \in Objs
        BY <3>1, <3>2, Typed
      <4> PICK l : l = [heap[cache[h]] EXCEPT !.path = mover.new]
        OBVIOUS
      <4>3. Worth(l, heap[cache[h]])
        BY <3>1, <4>2 DEF Worth, SameCounts, Links
      <4>4. heap'[cache[h]] = l
        <5>1. Memory([heap EXCEPT ![cache[h]] = l])
          BY <1>4, <2>4, <3>1, <3>2, <4>2 DEF MoveCache
        <5>2. \A o : o # Nil /\ cache'[h] = o => heap'[o] = [heap EXCEPT ![cache[h]] = l][o]
          BY <3>b, <3>m, <5>1
        <5> QED BY <3>1, <3>2, <4>1, <4>2, <5>2
      <4> QED BY <1>1, <1>2, <2>1, <3>1, <3>2, <4>1, <4>3, <4>4, Same, CountsFrame
    <3>3. CASE cache[h] = Nil
      <4>1. cache'[h] = mover.obj /\ heap[mover.obj] = bolt[h] /\ Memory(heap)
        BY <1>4, <2>1, <2>4, <3>1, <3>3 DEF MoveCache, Sound, Movers
      <4>2. heap'[cache'[h]] = bolt[h]
        <5>1. \A o : o # Nil /\ cache'[h] = o => heap'[o] = heap[o]
          BY <3>b, <3>m, <4>1
        <5> QED BY <3>1, <4>1, <5>1
      <4>3. Counting(h, at') = 0 /\ Owing(h, at') = None /\ Crediting(h, at') = None
        <5>1. \A s \in Reqs : at[s].h = h => at[s].pc \notin Counters
          BY <2>1, <3>3, NobodyHas DEF Dead
        <5> QED BY <1>1, <5>1, Nobody
      <4>4. Fits(bolt[h], 0, None) /\ Backed(served[h], bolt[h], None)
        BY <2>1, <3>3 DEF Counts
      <4> QED BY <1>1, <3>1, <4>1, <4>2, <4>3, <4>4 DEF Counts
    <3> QED BY <3>2, <3>3
  <2> QED BY <2>3, <2>4
<1> QED BY <1>3, <1>4

LEMMA FlushSaveCounts ==
  ASSUME SharesAssumption, TInv, TInv', NEW h \in Hashes, Sound(h), Counts(h), flush # Nil, NEW e \in flush, FlushSave(e)
  PROVE  Counts(h)'
<1>1. /\ UNCHANGED <<cache, at, mover, served>> /\ bolt' = [bolt EXCEPT ![e[1]] = heap[e[2]]] /\ Memory(heap)
      /\ e[1] \in Hashes /\ e[2] \in Objs /\ bolt \in [Hashes -> Links \cup {Nil}] /\ flush' = flush \ {e}
      /\ Nil \notin Objs
  BY DEF FlushSave, TInv, Saving, Basic, SharesAssumption
<1>2. Keeps(h)
  BY <1>1, Keeping
<1>3. CASE e[1] # h
  <2>1. bolt[h] # Nil => Worth(bolt'[h], bolt[h])
    BY <1>1, <1>3, Same
  <2>2. bolt'[h] = Nil \/ bolt[h] # Nil
    BY <1>1, <1>3
  <2>3. Saves(h) => Saves(h)'
    <3>1. flush \ {e} # Nil
      BY <1>1 DEF TInv, Saving, SharesAssumption
    <3> QED BY <1>1, <1>3, <3>1 DEF Saves
  <2> QED BY <1>1, <1>2, <2>1, <2>2, <2>3, FarCounts
<1>4. CASE e[1] = h
  <2>1. cache[h] = e[2] /\ cache[h] # Nil /\ bolt'[h] = heap[cache[h]] /\ heap[cache[h]] \in Links
    BY <1>1, <1>4, Typed DEF Sound, Savers
  <2>2. heap'[cache[h]] = heap[cache[h]]
    BY <1>1, <1>2, <2>1, CalmHeap
  <2>3. Fits(bolt'[h], Counting(h, at), Owing(h, at)) /\ Backed(served[h], bolt'[h], Crediting(h, at))
    BY <2>1 DEF Counts
  <2>4. Fits(bolt'[h], 0, None)
    BY <2>1, <2>3, FitsNone
  <2> QED BY <1>1, <2>1, <2>2, <2>3, <2>4 DEF Counts
<1> QED BY <1>3, <1>4

LEMMA EndsCounts ==
  ASSUME SharesAssumption, TInv, TInv', NEW h \in Hashes, Counts(h), "late" \notin excuse'[h], Exit \/ Crash
  PROVE  Counts(h)'
<1>1. Ends
  BY DEF Exit, Crash
<1>2. cache'[h] = Nil /\ flush' = Nil /\ bolt' = bolt /\ \A s \in Reqs : at'[s].pc = "idle"
  BY <1>1 DEF Ends, IdleReq
<1>3. ASSUME bolt[h] # Nil, served'[h] = Saved(h) PROVE Backed(served'[h], bolt[h], None)
  <2> PICK l \in Links : l = bolt[h]
    BY <1>3 DEF TInv, Basic
  <2>1. served'[h].n = l.n /\ served'[h].by = l.by /\ l.n \in Nat /\ \A u \in Users : l.by[u] \in Nat
    BY <1>3 DEF Saved, Links
  <2> QED BY <2>1 DEF Backed, None
<1>4. ASSUME bolt[h] # Nil, Exit PROVE Backed(served'[h], bolt[h], None)
  <2>1. flush = {} /\ served'[h] = IF Editing(h, at) THEN Saved(h) ELSE served[h]
    BY <1>4 DEF Exit
  <2>2. CASE Editing(h, at)
    BY <1>3, <1>4, <2>1, <2>2
  <2>3. CASE ~Editing(h, at)
    <3>1. ~Saves(h) /\ ~Unsaved(h) /\ served'[h] = served[h]
      BY <2>1, <2>3, Overlapping DEF Saves, Unsaved, Edits, Is
    <3>2. CASE cache[h] = Nil
      BY <1>4, <3>1, <3>2 DEF Counts
    <3>3. CASE cache[h] # Nil
      <4>1. flush # Nil
        <5>1. SharesAssumption => Nil \notin SUBSET (Hashes \X Objs)
          BY DEF SharesAssumption
        <5> QED BY <2>1, <5>1
      <4>2. Backed(served[h], bolt[h], Crediting(h, at))
        BY <1>4, <3>1, <3>3, <4>1 DEF Counts
      <4>3. \A r \in Reqs : ~Is(r, h, {"countuser"})
        <5> PICK add : add = [g \in Hashes |-> {x \in {"cut"} : mover # NoMove}
                                 \cup {x \in {"late"} : \E r \in Reqs : Hash(r) = g /\ at[r].pc = "countuser"}]
          OBVIOUS
        <5>1. Note(add) /\ \A g \in Hashes : add[g] \subseteq Excuses
          BY <1>1 DEF Ends, Excuses
        <5>2. add[h] \subseteq excuse'[h]
          BY <5>1, Mono
        <5> QED BY <5>2 DEF Is, Hash
      <4>4. Crediting(h, at) = None
        <5>1. Cardinality({}) = 0
          BY FS_EmptySet
        <5>2. \A u : {r \in Reqs : at[r].h = h /\ at[r].pc = "countuser" /\ at[r].arg = u} = {}
          BY <4>3 DEF Is
        <5> QED BY <5>1, <5>2 DEF Crediting, None
      <4> QED BY <3>1, <4>2, <4>4
    <3> QED BY <3>2, <3>3
  <2> QED BY <2>2, <2>3
<1>5. bolt[h] # Nil => Backed(served'[h], bolt[h], None)
  BY <1>3, <1>4 DEF Crash
<1>6. bolt[h] # Nil => Fits(bolt[h], 0, None)
  BY DEF Counts
<1> QED BY <1>2, <1>5, <1>6 DEF Counts, Is

LEMMA RestCounts ==
  ASSUME SharesAssumption, TInv, TInv', Owned, Unserved, NEW h \in Hashes, Known(h), Plain(h), Plain(h)', Sound(h), Held(h),
         "late" \notin excuse'[h], Counts(h), [Next]_vars, ~\E r \in Reqs : Request(r)
  PROVE  Counts(h)'
<1>b. bolt[h] # Nil => Worth(bolt[h], bolt[h])
  BY Same
<1>1. ASSUME NEW r \in Reqs, NEW g \in Hashes, Open(r, g) PROVE Counts(h)'
  <2>1. Goes(r, g, {"get", "list"}) /\ at[r].h = Nil /\ UNCHANGED <<bolt, cache, heap, flush, served>>
    BY <1>1, OpenE DEF Open
  <2>2. /\ Saves(h) => Saves(h)'
        /\ \A s \in Reqs : Is(s, h, Works \cup Counters) \/ Is(s, h, Works \cup Counters)' => at'[s] = at[s]
    BY <2>1 DEF Saves, Is, Goes, Works, Counters, SharesAssumption
  <2> QED BY <1>b, <2>1, <2>2, Keeping, FarCounts
<1>2. ASSUME UNCHANGED <<bolt, cache, heap, at, served, flush>> PROVE Counts(h)'
  <2>1. (Saves(h) => Saves(h)') /\ \A s \in Reqs : at'[s] = at[s]
    BY <1>2 DEF Saves
  <2> QED BY <1>b, <1>2, <2>1, Keeping, FarCounts
<1>3. CASE Flush
  <2>1. UNCHANGED <<bolt, cache, heap, at, served>> /\ \A s \in Reqs : at'[s] = at[s]
    BY <1>3 DEF Flush
  <2>2. cache[h] # Nil => Saves(h)'
    <3>1. cache[h] # Nil => <<h, cache[h]>> \in flush'
      BY <1>3 DEF Flush
    <3>2. flush' # Nil
      <4>1. Nil \notin SUBSET (Hashes \X Objs) /\ cache \in [Hashes -> Objs \cup {Nil}]
        BY DEF SharesAssumption, TInv, Basic
      <4> QED BY <1>3, <4>1 DEF Flush
    <3> QED BY <3>1, <3>2 DEF Saves
  <2> QED BY <1>b, <2>1, <2>2, Keeping, FarCounts
<1>4. CASE flush # Nil /\ FlushFails
  <2>1. UNCHANGED <<bolt, cache, at, served>> /\ Memory(heap) /\ \A s \in Reqs : at'[s] = at[s]
    BY <1>4 DEF FlushFails
  <2>2. ~Saves(h)
    <3> PICK add : add = [g \in Hashes |-> {x \in {"unsaved"} : Flushing(g, flush)}]
      OBVIOUS
    <3>1. Note(add) /\ \A g \in Hashes : add[g] \subseteq Excuses
      BY <1>4 DEF FlushFails, Excuses
    <3>2. add[h] \subseteq excuse'[h]
      BY <3>1, Mono
    <3> QED BY <3>2, Overlapping DEF Plain
  <2> QED BY <1>4, <1>b, <2>1, <2>2, Keeping, FarCounts
<1>5. CASE (\E m \in Moves : Rename(m[1], m[2])) \/ MoveRead \/ MoveSaveFails \/ Tick \/ UNCHANGED vars
  BY <1>2, <1>5 DEF Rename, MoveRead, MoveSaveFails, Tick, vars
<1> QED BY <1>1, <1>3, <1>4, <1>5, CreateCounts, MovesCounts, FlushSaveCounts, EndsCounts DEF Next, UpdateShares

\* What a link lets through, as long as nothing has happened that may cost it its counts.
Limited(h) == excuse[h] \cap {"doubled", "late", "unsaved", "delete", "move"} = {} => Counts(h)

LEMMA LimitedStep ==
  ASSUME SharesAssumption, TInv, TInv', Owned, Unserved, NEW h \in Hashes, Known(h), Gone(h), Going(h), Limited(h), [Next]_vars
  PROVE  Limited(h)'
<1> SUFFICES ASSUME excuse'[h] \cap {"doubled", "late", "unsaved", "delete", "move"} = {} PROVE Counts(h)'
  BY DEF Limited
<1>1. excuse[h] \cap {"doubled", "late", "unsaved", "delete", "move"} = {}
  BY Grows
<1>2. Plain(h) /\ Plain(h)' /\ Counts(h) /\ "late" \notin excuse'[h] /\ "delete" \notin excuse'[h]
  BY <1>1 DEF Plain, Limited
<1>3. Sound(h) /\ Held(h) /\ (Dead(h) => Dead(h)')
  BY <1>2, DeadStep DEF Going
<1> QED BY <1>2, <1>3, RequestCounts, RestCounts
-------------------------------------------------------------------------------
(* The invariant, and what it says                                             *)

Mine ==
  /\ TInv /\ Owned /\ Unserved
  /\ \A h \in Hashes : Known(h) /\ Gone(h) /\ Going(h) /\ Leading(h) /\ Limited(h)

LEMMA MineInit ==
  ASSUME SharesAssumption, Init
  PROVE  Mine
<1>1. TInv
  BY TInit
<1>2. /\ \A r \in Reqs : at[r] = IdleReq
      /\ \A h \in Hashes : bolt[h] = Nil /\ cache[h] = Nil
      /\ flush = Nil /\ mover = NoMove /\ gone = {} /\ Nil \notin Hashes /\ Nil \notin Objs
      /\ Unserved
  BY DEF Init, SharesAssumption, Unserved
<1>3. Owned
  BY <1>2 DEF Owned, Belongs, IdleReq, NoMove
<1>5. \A h \in Hashes : Known(h) /\ Gone(h)
  BY <1>2 DEF Known, Gone, Deletes, Edits, Saves, Is, IdleReq
<1>6. ASSUME NEW h \in Hashes PROVE Going(h) /\ Leading(h) /\ Limited(h)
  <2>1. /\ \A r \in Reqs : at[r].h # h
        /\ h \notin mover.todo /\ flush = Nil /\ cache[h] = Nil /\ bolt[h] = Nil
    BY <1>2 DEF IdleReq, NoMove
  <2>2. Sound(h) /\ Held(h) /\ Patched(h) /\ PathAlike(h)
    BY <2>1 DEF Sound, Editors, Readers, Movers, Alike, Savers, Purgers, Held, Patched, PathAlike, Is
  <2>3. Led(h)
    BY <2>1 DEF Led, Is
  <2>4. Counts(h)
    BY <2>1 DEF Counts, Is
  <2> QED BY <2>2, <2>3, <2>4 DEF Going, Leading, Limited
<1> QED BY <1>1, <1>2, <1>3, <1>5, <1>6 DEF Mine

LEMMA MineNext ==
  ASSUME SharesAssumption, Mine, [Next]_vars
  PROVE  Mine'
<1>1. TInv'
  BY TNext DEF Mine
<1>2. Owned'
  BY OwnedStep DEF Mine
<1>3. \A h \in Hashes : Known(h)' /\ Gone(h)'
  BY KnownStep, GoneStep DEF Mine
<1>4. \A h \in Hashes : Going(h)'
  BY <1>1, <1>3, GoingStep DEF Mine
<1>5. \A h \in Hashes : Leading(h)'
  BY <1>1, <1>3, LeadingStep DEF Mine
<1>6. Unserved' /\ \A h \in Hashes : Limited(h)'
  BY <1>1, UnservedStep, LimitedStep DEF Mine
<1> QED BY <1>1, <1>2, <1>3, <1>4, <1>5, <1>6 DEF Mine

LEMMA Always == ASSUME SharesAssumption PROVE Spec => []Mine
<1>1. Init => Mine
  BY MineInit
<1>2. Mine /\ [Next]_vars => Mine'
  BY MineNext
<1> QED BY <1>1, <1>2, PTL DEF Spec

(* Any number of requests, moves, shutdowns and crashes keep every variable in  *)
(* its type, and leave no pointer of a map, a request or the flush dangling: the *)
(* model's memory collects nothing that share.go or the handlers still use.    *)
THEOREM SharesTyped == ASSUME SharesAssumption PROVE Spec => []TypeOK
<1>1. Mine => TypeOK
  <2> SUFFICES ASSUME TInv PROVE TypeOK
    BY DEF Mine
  <2>1. \A o \in InUse : o # Nil => heap[o] \in Links
    BY DEF TInv, Mem
  <2>2. Nil \notin Links
    BY DEF SharesAssumption
  <2>3. /\ \A h \in Hashes : cache[h] \in InUse
        /\ \A r \in Reqs : at[r].obj \in InUse
        /\ flush # Nil => \A e \in flush : e[2] \in InUse /\ e[2] # Nil
    BY DEF InUse, Refs, TInv, Saving, SharesAssumption
  <2>4. \A r \in Reqs : at[r].pc \in Places
    BY DEF TInv, Requests, ReqRecs
  <2>5. heap \in [Objs -> Links \cup {Nil}]
    BY DEF TInv, Mem
  <2>6. Basic
    BY DEF TInv
  <2> QED BY <2>1, <2>2, <2>3, <2>4, <2>5, <2>6 DEF TypeOK, Basic, CountRecs
<1> QED BY <1>1, Always, PTL

(* A link whose owner was told that Storage.Delete succeeded is in BoltDB and in *)
(* memory no more, for good: no list, late look-up, move, flush or restart that  *)
(* was not already writing it brings it back.                                  *)
THEOREM DeletedForGood == ASSUME SharesAssumption PROVE Spec => []DeletedStays
<1>1. Mine => DeletedStays
  <2>1. ASSUME Mine, NEW h \in gone, "delete" \notin excuse[h] PROVE bolt[h] = Nil /\ cache[h] = Nil
    BY <2>1 DEF Mine, TInv, Basic, Gone, Dead
  <2> QED BY <2>1 DEF DeletedStays
<1> QED BY <1>1, Always, PTL

(* What the object of a link says of its path, its limits and its expiry is what *)
(* the record says, whenever no edit, move, deletion or flush of the link is      *)
(* under way: the cache that every handler works on would be rebuilt from BoltDB  *)
(* as it is.                                                                   *)
THEOREM CacheIsStored == ASSUME SharesAssumption PROVE Spec => []Coherent
<1>1. Mine => Coherent
  <2> SUFFICES ASSUME Mine, NEW h \in Hashes, excuse[h] \cap {"doubled", "unsaved", "delete", "move", "patch"} = {},
                      Quiet(h), cache[h] # Nil, ~Expired(heap[cache[h]])
               PROVE  bolt[h] # Nil /\ Config(bolt[h]) = Config(heap[cache[h]])
    BY DEF Coherent
  <2>1. Sound(h) /\ PathAlike(h)
    BY DEF Mine, Going, Plain
  <2>2. mover.h # h /\ ~Edits(h) /\ ~Deletes(h)
    BY Overlapping DEF Quiet, NoMove, SharesAssumption
  <2>3. ~Unsaved(h)
    BY <2>2 DEF Edits, Unsaved, Is
  <2>4. bolt[h] # Nil /\ SameTerms(heap[cache[h]], bolt[h]) /\ heap[cache[h]].path = bolt[h].path
    BY <2>1, <2>2, <2>3 DEF Sound, Alike, PathAlike
  <2>5. bolt[h] \in Links /\ heap[cache[h]] \in Links
    BY <2>4, Typed DEF Mine, TInv, Basic
  <2>6. \A f \in {"path", "limit", "perUser", "keep", "expire"} : bolt[h][f] = heap[cache[h]][f]
    BY <2>4 DEF SameTerms
  <2> QED BY <2>4, <2>6 DEF Config
<1> QED BY <1>1, Always, PTL

(* UpdateShares: once a move is through, every link to what was moved leads to   *)
(* where it went, and every link to something else where it did, whether the      *)
(* link was in memory, in BoltDB or just being made.                            *)
THEOREM LinksFollow == ASSUME SharesAssumption PROVE Spec => []MovedFollows
<1>1. Mine => MovedFollows
  <2> SUFFICES ASSUME Mine, NEW h \in Hashes,
                      excuse[h] \cap {"doubled", "unsaved", "delete", "move", "patch", "cut", "left", "inside"} = {},
                      Quiet(h), Link(h) # Nil
               PROVE  Link(h).path = target[h]
    BY DEF MovedFollows, PointsRight
  <2>1. Sound(h) /\ PathAlike(h) /\ Led(h)
    BY DEF Mine, Going, Plain, Leading, Lost
  <2>2. mover.h # h /\ mover = NoMove /\ ~Edits(h) /\ ~Deletes(h)
    BY Overlapping DEF Quiet, NoMove, SharesAssumption
  <2>3. ~Unsaved(h) /\ \A r \in Reqs : ~Is(r, h, {"savepath"})
    BY <2>2 DEF Edits, Unsaved, Is
  <2>4. bolt[h] # Nil
    BY <2>1, <2>2, <2>3 DEF Led, Link
  <2>5. target[h] = bolt[h].path
    BY <2>1, <2>2, <2>3, <2>4 DEF Led, Leads, NoMove
  <2>6. cache[h] # Nil => heap[cache[h]].path = bolt[h].path
    BY <2>1, <2>2, <2>3, <2>4 DEF PathAlike
  <2> QED BY <2>5, <2>6 DEF Link
<1> QED BY <1>1, Always, PTL

(* All of what a run of the shares checks at once.                             *)
THEOREM LinksAreSound == ASSUME SharesAssumption PROVE Spec => []LinksLast
BY SharesTyped, DeletedForGood, CacheIsStored, LinksFollow, PTL DEF LinksLast

(* A link lets through no more downloads, in all or for each user, than its limit *)
(* and one less than the requests under way, through edits, list look-ups that    *)
(* make another object of it, moves that write the record back, expiry, a flush   *)
(* that saves in time, and any number of restarts and crashes: the checks of       *)
(* publicRawHandler and withHashFileHelper are made without the lock of the        *)
(* counters, and what is counted late is never more than the requests that had     *)
(* passed them.                                                                *)
THEOREM LimitsHold == ASSUME SharesAssumption PROVE Spec => []LimitHeld
<1>1. Mine => LimitHeld
  <2> SUFFICES ASSUME Mine, NEW h \in Hashes, excuse[h] \cap {"doubled", "late", "unsaved", "delete", "move"} = {},
                      Link(h) # Nil, Link(h).limit > 0
               PROVE  IF Link(h).perUser THEN \A u \in Users : served[h].by[u] <= Most(Link(h))
                      ELSE served[h].n <= Most(Link(h))
    BY DEF LimitHeld, Most
  <2> PICK l : l = Link(h)
    OBVIOUS
  <2>1. Counts(h) /\ TInv
    BY DEF Mine, Limited
  <2>2. l \in Links
    BY <2>1, Typed DEF Link, TInv, Basic
  <2> PICK k \in CountRecs : k = served[h]
    BY <2>1 DEF TInv, Basic
  <2>3. /\ l.n \in Nat /\ l.limit \in Nat /\ (\A u \in Users : l.by[u] \in Nat)
        /\ k.n \in Nat /\ \A u \in Users : k.by[u] \in Nat
    BY <2>2 DEF Links, CountRecs
  <2>4. \E c \in Nat : \E o, d : /\ Fits(l, c, o) /\ Backed(k, l, d)
                              /\ \A u \in Users : o[u] \in Nat /\ d[u] \in Nat /\ d[u] <= o[u]
    <3>1. CASE cache[h] = Nil
      <4>1. Fits(l, 0, None) /\ Backed(k, l, None)
        BY <2>1, <3>1 DEF Counts, Link
      <4>2. \A u \in Users : None[u] \in Nat /\ None[u] <= None[u]
        BY DEF None
      <4> QED BY <4>1, <4>2
    <3>2. CASE cache[h] # Nil
      <4>1. Fits(l, Counting(h, at), Owing(h, at)) /\ Backed(k, l, Crediting(h, at))
        BY <2>1, <3>2 DEF Counts, Link
      <4>2. /\ Counting(h, at) \in Nat
            /\ \A u \in Users : /\ Owing(h, at)[u] \in Nat /\ Crediting(h, at)[u] \in Nat
                                /\ Crediting(h, at)[u] <= Owing(h, at)[u]
        BY Numbers
      <4> QED BY <4>1, <4>2
    <3> QED BY <3>1, <3>2
  <2> PICK c \in Nat : \E o, d : /\ Fits(l, c, o) /\ Backed(k, l, d)
                               /\ \A u \in Users : o[u] \in Nat /\ d[u] \in Nat /\ d[u] <= o[u]
    BY <2>4
  <2> PICK o, d : /\ Fits(l, c, o) /\ Backed(k, l, d)
                  /\ \A u \in Users : o[u] \in Nat /\ d[u] \in Nat /\ d[u] <= o[u]
    OBVIOUS
  <2>5. Most(l) \in Int
    BY <2>3, FS_CardinalityType DEF Most, SharesAssumption
  <2>6. CASE l.perUser
    <3> SUFFICES ASSUME NEW u \in Users PROVE k.by[u] <= Most(l)
      BY <2>6
    <3>1. l.by[u] + o[u] <= Most(l) /\ k.by[u] <= l.by[u] + d[u]
      BY <2>6 DEF Fits, Backed
    <3> QED BY <2>3, <2>5, <3>1
  <2>7. CASE ~l.perUser
    <3>1. l.n + c <= Most(l) /\ k.n <= l.n
      BY <2>7 DEF Fits, Backed
    <3> QED BY <2>3, <2>5, <2>7, <3>1
  <2> QED BY <2>6, <2>7
<1> QED BY <1>1, Always, PTL
-------------------------------------------------------------------------------
(* RateLimit: the map of limiters with its clean-up implements a bucket per    *)
(* address that nobody forgets (TokenBuckets).  A limiter is dropped when it    *)
(* was last seen longer than Idle ago.  That it is full again by then, and      *)
(* that nobody holds it any more, needs that a request refers only to the      *)
(* limiter of its address in the map (Fetched), that limiters were used at      *)
(* most Slack after they were seen (Mapped), and that no two addresses have     *)
(* one limiter (Apart).                                                        *)

USE LimitsAssumption DEF R!RateAssumption

\* The limiters in the map exist, and were last used soon after they were seen.
Mapped ==
  \A a \in Addrs : limiters[a] # Nil =>
    /\ limiters[a].seen <= clock
    /\ mem[limiters[a].obj] # Nil
    /\ mem[limiters[a].obj].last <= clock
    /\ mem[limiters[a].obj].last <= limiters[a].seen + Slack

\* No two addresses have one limiter.
Apart ==
  \A a, b \in Addrs : limiters[a] # Nil /\ limiters[b] # Nil /\ limiters[a].obj = limiters[b].obj => a = b

\* Who asks a limiter asks the one in the map, and has not fetched it long ago.
Fetched ==
  \A r \in Reqs : asking[r] # Nil =>
    /\ limiters[asking[r].addr] # Nil
    /\ limiters[asking[r].addr].obj = asking[r].obj
    /\ asking[r].since <= limiters[asking[r].addr].seen
    /\ clock <= asking[r].since + Slack

Inv == R!TypeOK /\ Mapped /\ Apart /\ Fetched

-----------------------------------------------------------------------------
(* What the tokens of a limiter are.                                           *)

LEMMA TokensLeft ==
  ASSUME NEW l \in R!Limiter, NEW t \in Nat, l.last <= t
  PROVE  /\ R!AtMost(l.tokens + (t - l.last), Burst) \in 0 .. Burst
         /\ R!AtMost(l.tokens + (t + 1 - l.last), Burst)
              = R!AtMost(R!AtMost(l.tokens + (t - l.last), Burst) + 1, Burst)
         /\ t - l.last >= Burst => R!AtMost(l.tokens + (t - l.last), Burst) = Burst
  BY DEF R!AtMost, R!Limiter

LEMMA LimiterInMap ==
  ASSUME Inv, NEW a \in Addrs, limiters[a] # Nil
  PROVE  /\ limiters[a] \in R!Entry
         /\ limiters[a].obj \in Limiters
         /\ mem[limiters[a].obj] \in R!Limiter
         /\ mem[limiters[a].obj].last <= clock
         /\ clock \in Nat
  BY DEF Inv, R!TypeOK, Mapped, R!Entry

-----------------------------------------------------------------------------
(* The invariant                                                               *)

LEMMA InvInit == R!Init => Inv
  BY DEF R!Init, Inv, R!TypeOK, Mapped, Apart, Fetched

LEMMA FetchInv ==
  ASSUME Inv, NEW r \in Reqs, NEW a \in Addrs, NEW o \in Limiters, R!Fetch(r, a, o)
  PROVE  Inv'
<1> USE DEF Inv
<1>1. /\ clock' = clock
      /\ clock \in 0 .. MaxClock
      /\ [obj |-> o, seen |-> clock] \in R!Entry
      /\ [addr |-> a, obj |-> o, since |-> clock] \in R!Asked
      /\ [tokens |-> Burst, last |-> clock] \in R!Limiter
  BY DEF R!Fetch, R!TypeOK, R!Entry, R!Asked, R!Limiter
<1>2. R!TypeOK'
  BY <1>1 DEF R!Fetch, R!TypeOK
<1>3. \A b \in Addrs : b # a => limiters'[b] = limiters[b]
  BY DEF R!Fetch, R!TypeOK
<1>4. limiters'[a] = [obj |-> o, seen |-> clock]
  BY DEF R!Fetch, R!TypeOK
<1>5. \A b \in Addrs : b # a /\ limiters[b] # Nil => limiters[b].obj # o
  BY DEF R!Fetch, R!Free, Apart
<1>6. \A p \in Limiters : p # o => mem'[p] = mem[p]
  BY DEF R!Fetch, R!TypeOK
<1>7. mem'[o] # Nil /\ mem'[o].last <= clock
  <2>1. CASE limiters[a] # Nil
    BY <2>1 DEF R!Fetch, Mapped
  <2>2. CASE limiters[a] = Nil
    BY <1>1, <2>2 DEF R!Fetch, R!TypeOK
  <2> QED BY <2>1, <2>2
<1>8. Mapped'
  <2> SUFFICES ASSUME NEW b \in Addrs, limiters'[b] # Nil
               PROVE  /\ limiters'[b].seen <= clock
                      /\ mem'[limiters'[b].obj] # Nil
                      /\ mem'[limiters'[b].obj].last <= clock
                      /\ mem'[limiters'[b].obj].last <= limiters'[b].seen + Slack
    BY <1>1 DEF Mapped
  <2>1. CASE b = a
    <3>1. mem'[o].last \in Nat
      BY <1>2, <1>7 DEF R!TypeOK, R!Limiter
    <3> QED BY <1>1, <1>4, <1>7, <2>1, <3>1
  <2>2. CASE b # a
    <3>1. limiters[b].obj \in Limiters \ {o}
      BY <1>3, <1>5, <2>2 DEF R!TypeOK, R!Entry
    <3> QED BY <1>3, <1>6, <2>2, <3>1 DEF Mapped
  <2> QED BY <2>1, <2>2
<1>9. Apart'
  BY <1>3, <1>4, <1>5 DEF Apart
<1>10. Fetched'
  <2> SUFFICES ASSUME NEW q \in Reqs, asking'[q] # Nil
               PROVE  /\ limiters'[asking'[q].addr] # Nil
                      /\ limiters'[asking'[q].addr].obj = asking'[q].obj
                      /\ asking'[q].since <= limiters'[asking'[q].addr].seen
                      /\ clock <= asking'[q].since + Slack
    BY <1>1 DEF Fetched
  <2>1. CASE q = r
    <3>1. asking'[q] = [addr |-> a, obj |-> o, since |-> clock]
      BY <2>1 DEF R!Fetch, R!TypeOK
    <3> QED BY <1>1, <1>4, <3>1
  <2>2. CASE q # r
    <3>1. asking'[q] = asking[q] /\ asking[q] \in R!Asked
      BY <2>2 DEF R!Fetch, R!TypeOK
    <3>2. asking[q].addr \in Addrs /\ asking[q].since \in Nat
      BY <3>1 DEF R!Asked
    <3>3. CASE asking[q].addr = a
      <4>1. limiters[a] # Nil /\ limiters[a].obj = asking[q].obj /\ asking[q].since <= limiters[a].seen
        BY <3>1, <3>3 DEF Fetched
      <4>2. o = asking[q].obj
        BY <4>1 DEF R!Fetch
      <4>3. limiters[a].seen \in Nat /\ limiters[a].seen <= clock
        BY <4>1 DEF Mapped, R!TypeOK, R!Entry
      <4> QED BY <1>1, <1>4, <3>1, <3>2, <3>3, <4>1, <4>2, <4>3 DEF Fetched
    <3>4. CASE asking[q].addr # a
      BY <1>3, <3>1, <3>2, <3>4 DEF Fetched
    <3> QED BY <3>3, <3>4
  <2> QED BY <2>1, <2>2
<1> QED BY <1>2, <1>8, <1>9, <1>10

LEMMA AllowInv ==
  ASSUME Inv, NEW r \in Reqs, R!Allow(r)
  PROVE  Inv'
<1> DEFINE e == asking[r]
           l == mem[e.obj]
<1> USE DEF Inv
<1>1. /\ e \in R!Asked /\ e.addr \in Addrs /\ e.obj \in Limiters
      /\ limiters[e.addr] # Nil /\ limiters[e.addr].obj = e.obj
      /\ e.since <= limiters[e.addr].seen /\ clock <= e.since + Slack
  BY DEF R!Allow, R!TypeOK, R!Asked, Fetched
<1>2. l \in R!Limiter /\ l.last <= clock /\ clock \in 0 .. MaxClock /\ R!Available(l) \in 0 .. Burst
  BY <1>1, TokensLeft DEF R!TypeOK, Mapped, R!Available
<1>3. clock' = clock /\ limiters' = limiters
  BY DEF R!Allow
<1>4. R!TypeOK'
  <2>1. mem' \in [Limiters -> R!Limiter \cup {Nil}]
    <3>1. CASE R!Available(l) > 0
      <4>1. [tokens |-> R!Available(l) - 1, last |-> clock] \in R!Limiter
        BY <1>2, <3>1 DEF R!Limiter
      <4> QED BY <3>1, <4>1 DEF R!Allow, R!TypeOK
    <3>2. CASE ~(R!Available(l) > 0)
      BY <3>2 DEF R!Allow, R!TypeOK
    <3> QED BY <3>1, <3>2
  <2> QED BY <1>3, <2>1 DEF R!Allow, R!TypeOK
<1>5. \A p \in Limiters : \/ mem'[p] = mem[p]
                          \/ p = e.obj /\ mem'[p] # Nil /\ mem'[p].last = clock
  <2>1. CASE R!Available(l) > 0
    <3>1. [tokens |-> R!Available(l) - 1, last |-> clock] \in R!Limiter
      BY <1>2, <2>1 DEF R!Limiter
    <3> QED BY <2>1, <3>1 DEF R!Allow, R!TypeOK
  <2>2. CASE ~(R!Available(l) > 0)
    BY <2>2 DEF R!Allow
  <2> QED BY <2>1, <2>2
<1>6. Mapped'
  <2> SUFFICES ASSUME NEW b \in Addrs, limiters[b] # Nil
               PROVE  /\ limiters[b].seen <= clock
                      /\ mem'[limiters[b].obj] # Nil
                      /\ mem'[limiters[b].obj].last <= clock
                      /\ mem'[limiters[b].obj].last <= limiters[b].seen + Slack
    BY <1>3 DEF Mapped
  <2>1. limiters[b].obj \in Limiters /\ limiters[b].seen \in Nat
    BY DEF R!TypeOK, R!Entry
  <2>2. CASE limiters[b].obj = e.obj
    <3>1. b = e.addr
      BY <1>1, <2>2 DEF Apart
    <3>2. clock <= limiters[b].seen + Slack
      BY <1>1, <1>2, <2>1, <3>1 DEF R!Asked
    <3> QED BY <1>2, <1>5, <2>1, <2>2, <3>2 DEF Mapped
  <2>3. CASE limiters[b].obj # e.obj
    BY <1>5, <2>1, <2>3 DEF Mapped
  <2> QED BY <2>2, <2>3
<1>7. Apart'
  BY <1>3 DEF Apart
<1>8. Fetched'
  BY <1>3 DEF R!Allow, Fetched, R!TypeOK
<1> QED BY <1>4, <1>6, <1>7, <1>8

LEMMA CleanupInv ==
  ASSUME Inv, R!Cleanup
  PROVE  Inv'
<1> USE DEF Inv
<1>1. \A a \in Addrs : limiters'[a] = IF R!Stale(a) THEN Nil ELSE limiters[a]
  BY DEF R!Cleanup
<1>2. R!TypeOK'
  BY DEF R!Cleanup, R!TypeOK
<1>3. Mapped' /\ Apart'
  BY <1>1 DEF R!Cleanup, Mapped, Apart
<1>4. Fetched'
  <2> SUFFICES ASSUME NEW r \in Reqs, asking[r] # Nil
               PROVE  ~R!Stale(asking[r].addr) /\ asking[r].addr \in Addrs
    BY <1>1 DEF R!Cleanup, Fetched
  <2>1. asking[r] \in R!Asked /\ asking[r].addr \in Addrs /\ asking[r].since \in Nat /\ clock \in Nat
    BY DEF R!TypeOK, R!Asked
  <2>2. limiters[asking[r].addr] \in R!Entry /\ limiters[asking[r].addr].seen \in Nat
    BY <2>1 DEF R!TypeOK, Fetched, R!Entry
  <2> QED BY <2>1, <2>2 DEF R!Stale, Fetched
<1> QED BY <1>2, <1>3, <1>4

LEMMA TickInv ==
  ASSUME Inv, R!Tick
  PROVE  Inv'
<1> USE DEF Inv
<1>1. clock' = clock + 1 /\ clock \in Nat /\ clock' \in 0 .. MaxClock
  BY DEF R!Tick, R!TypeOK
<1>2. limiters' = limiters /\ mem' = mem /\ asking' = asking
  BY DEF R!Tick
<1>3. R!TypeOK'
  BY <1>1, <1>2 DEF R!TypeOK
<1>4. Mapped'
  <2> SUFFICES ASSUME NEW a \in Addrs, limiters[a] # Nil
               PROVE  limiters[a].seen <= clock + 1 /\ mem[limiters[a].obj].last <= clock + 1
    BY <1>1, <1>2 DEF Mapped
  <2>1. limiters[a].seen \in Nat /\ mem[limiters[a].obj].last \in Nat
    BY LimiterInMap DEF R!Entry, R!Limiter
  <2> QED BY <1>1, <2>1 DEF Mapped
<1>5. Apart'
  BY <1>2 DEF Apart
<1>6. Fetched'
  <2> SUFFICES ASSUME NEW r \in Reqs, asking[r] # Nil
               PROVE  clock + 1 <= asking[r].since + Slack
    BY <1>1, <1>2 DEF Fetched
  <2>1. clock < asking[r].since + Slack /\ asking[r].since \in Nat
    BY DEF R!Tick, R!TypeOK, R!Asked
  <2> QED BY <1>1, <2>1
<1> QED BY <1>3, <1>4, <1>5, <1>6

LEMMA InvNext == Inv /\ [R!Next]_R!vars => Inv'
<1> SUFFICES ASSUME Inv, [R!Next]_R!vars PROVE Inv'
  OBVIOUS
<1>1. ASSUME NEW r \in Reqs, NEW a \in Addrs, NEW o \in Limiters, R!Fetch(r, a, o) PROVE Inv'
  BY <1>1, FetchInv
<1>2. ASSUME NEW r \in Reqs, R!Allow(r) PROVE Inv'
  BY <1>2, AllowInv
<1>3. CASE R!Cleanup
  BY <1>3, CleanupInv
<1>4. CASE R!Tick
  BY <1>4, TickInv
<1>5. CASE UNCHANGED R!vars
  BY <1>5 DEF R!vars, Inv, R!TypeOK, Mapped, Apart, Fetched
<1> QED BY <1>1, <1>2, <1>3, <1>4, <1>5 DEF R!Next

-----------------------------------------------------------------------------
(* The refinement: a look at the limiter of an address is a bucket.            *)

Levels == [a \in Addrs |-> R!Level(a)]

LEMMA SpecInv == R!Spec => []Inv
  BY InvInit, InvNext, PTL DEF R!Spec

LEMMA LevelBound ==
  ASSUME Inv, NEW a \in Addrs
  PROVE  R!Level(a) \in 0 .. Burst
  BY LimiterInMap, TokensLeft DEF R!Level, R!Available

LEMMA BucketsInit == R!Init => R!Buckets!Init
  BY DEF R!Init, R!Buckets!Init, R!Level

LEMMA FetchStutters ==
  ASSUME Inv, NEW r \in Reqs, NEW a \in Addrs, NEW o \in Limiters, R!Fetch(r, a, o)
  PROVE  clock' = clock /\ Levels' = Levels
<1>1. clock' = clock
  BY DEF R!Fetch
<1> SUFFICES ASSUME NEW b \in Addrs PROVE R!Level(b)' = R!Level(b)
  BY <1>1 DEF Levels
<1>2. CASE b # a
  <2>1. limiters'[b] = limiters[b]
    BY <1>2 DEF R!Fetch, Inv, R!TypeOK
  <2>2. limiters[b] # Nil => limiters[b].obj \in Limiters \ {o}
    BY <1>2, LimiterInMap DEF R!Fetch, R!Free, Inv, Apart
  <2>3. limiters[b] # Nil => mem'[limiters[b].obj] = mem[limiters[b].obj]
    BY <2>2 DEF R!Fetch, Inv, R!TypeOK
  <2> QED BY <1>1, <2>1, <2>3 DEF R!Level, R!Available
<1>3. CASE b = a
  <2>1. limiters'[a] = [obj |-> o, seen |-> clock] /\ limiters'[a] # Nil
    <3>1. [obj |-> o, seen |-> clock] \in R!Entry
      BY DEF Inv, R!TypeOK, R!Entry
    <3> QED BY <3>1 DEF R!Fetch, Inv, R!TypeOK
  <2>2. CASE limiters[a] # Nil
    BY <1>1, <1>3, <2>1, <2>2 DEF R!Fetch, R!Level, R!Available
  <2>3. CASE limiters[a] = Nil
    <3>1. mem'[o] = [tokens |-> Burst, last |-> clock] /\ clock \in Nat
      BY <2>3 DEF R!Fetch, Inv, R!TypeOK
    <3> QED BY <1>1, <1>3, <2>1, <2>3, <3>1 DEF R!Level, R!Available, R!AtMost
  <2> QED BY <2>2, <2>3
<1> QED BY <1>2, <1>3

LEMMA AllowTakes ==
  ASSUME Inv, NEW r \in Reqs, R!Allow(r)
  PROVE  \/ clock' = clock /\ Levels' = Levels
         \/ \E a \in Addrs : R!Buckets!Take(a)
<1>0. PICK a \in Addrs, o \in Limiters : a = asking[r].addr /\ o = asking[r].obj
  BY DEF R!Allow, Inv, R!TypeOK, R!Asked
<1>1. limiters[a] # Nil /\ limiters[a].obj = o
  BY <1>0 DEF R!Allow, Inv, Fetched
<1>2. clock' = clock /\ limiters' = limiters /\ clock \in Nat
  BY DEF R!Allow, Inv, R!TypeOK
<1>3. R!Level(a) = R!Available(mem[o]) /\ R!Level(a) \in 0 .. Burst
  BY <1>1, LevelBound DEF R!Level
<1>4. CASE ~(R!Available(mem[o]) > 0)
  <2>1. mem' = mem
    BY <1>0, <1>4 DEF R!Allow
  <2> QED BY <1>2, <2>1 DEF Levels, R!Level, R!Available
<1>5. CASE R!Available(mem[o]) > 0
  <2>1. mem' = [mem EXCEPT ![o] = [tokens |-> R!Available(mem[o]) - 1, last |-> clock]]
    BY <1>0, <1>5 DEF R!Allow
  <2>2. R!Level(a)' = R!Level(a) - 1
    <3>1. mem'[o] = [tokens |-> R!Level(a) - 1, last |-> clock]
      BY <1>1, <1>3, <2>1 DEF Inv, R!TypeOK
    <3>2. R!Level(a)' = R!AtMost((R!Level(a) - 1) + (clock - clock), Burst)
      BY <1>1, <1>2, <3>1 DEF R!Level, R!Available, R!AtMost
    <3> QED BY <1>2, <1>3, <1>5, <3>2 DEF R!AtMost
  <2>3. ASSUME NEW b \in Addrs, b # a PROVE R!Level(b)' = R!Level(b)
    <3>1. limiters[b] # Nil => limiters[b].obj \in Limiters \ {o}
      BY <1>1, <2>3, LimiterInMap DEF Inv, Apart
    <3>2. limiters[b] # Nil => mem'[limiters[b].obj] = mem[limiters[b].obj]
      BY <2>1, <3>1 DEF Inv, R!TypeOK
    <3> QED BY <1>2, <3>2 DEF R!Level, R!Available
  <2>4. Levels' = [Levels EXCEPT ![a] = @ - 1]
    BY <1>1, <2>2, <2>3 DEF Levels
  <2>5. Levels[a] > 0
    BY <1>1, <1>3, <1>5 DEF Levels
  <2>6. R!Buckets!Take(a)
    BY <1>2, <2>4, <2>5 DEF R!Buckets!Take, Levels
  <2> QED BY <1>1, <2>6
<1> QED BY <1>4, <1>5

LEMMA CleanupStutters ==
  ASSUME Inv, R!Cleanup
  PROVE  clock' = clock /\ Levels' = Levels
<1>1. clock' = clock /\ mem' = mem
  BY DEF R!Cleanup
<1> SUFFICES ASSUME NEW a \in Addrs PROVE R!Level(a)' = R!Level(a)
  BY <1>1 DEF Levels
<1>2. CASE R!Stale(a)
  <2>1. limiters[a] # Nil /\ limiters'[a] = Nil
    BY <1>2 DEF R!Cleanup, R!Stale
  <2> DEFINE l == mem[limiters[a].obj]
  <2>2. l \in R!Limiter /\ l.last <= clock /\ clock \in Nat /\ limiters[a] \in R!Entry
    BY <2>1, LimiterInMap
  <2>3. l.last <= limiters[a].seen + Slack /\ limiters[a].seen < clock - Idle
    BY <1>2, <2>1 DEF Inv, Mapped, R!Stale
  <2>4. clock - l.last >= Burst
    BY <2>2, <2>3 DEF R!Limiter, R!Entry
  <2>5. R!Available(l) = Burst
    BY <2>2, <2>4, TokensLeft DEF R!Available
  <2> QED BY <2>1, <2>5 DEF R!Level
<1>3. CASE ~R!Stale(a)
  BY <1>1, <1>3 DEF R!Cleanup, R!Level, R!Available
<1> QED BY <1>2, <1>3

LEMMA TickGains ==
  ASSUME Inv, R!Tick
  PROVE  R!Buckets!Gain
<1>1. clock' = clock + 1 /\ limiters' = limiters /\ mem' = mem /\ clock \in Nat
  BY DEF R!Tick, Inv, R!TypeOK
<1>2. ASSUME NEW a \in Addrs PROVE R!Level(a)' = R!AtMost(R!Level(a) + 1, Burst)
  <2>1. CASE limiters[a] = Nil
    BY <1>1, <2>1 DEF R!Level, R!AtMost
  <2>2. CASE limiters[a] # Nil
    <3> DEFINE l == mem[limiters[a].obj]
    <3>1. l \in R!Limiter /\ l.last <= clock
      BY <2>2, LimiterInMap
    <3>2. R!Level(a) = R!AtMost(l.tokens + (clock - l.last), Burst)
      BY <2>2 DEF R!Level, R!Available
    <3>3. R!Level(a)' = R!AtMost(l.tokens + (clock' - l.last), Burst)
      BY <1>1, <2>2 DEF R!Level, R!Available, R!AtMost
    <3>4. R!AtMost(l.tokens + (clock' - l.last), Burst) = R!AtMost(R!AtMost(l.tokens + (clock - l.last), Burst) + 1, Burst)
      BY <1>1, <3>1, TokensLeft DEF R!AtMost, R!Limiter
    <3>5. R!Level(a)' = R!AtMost(R!AtMost(l.tokens + (clock - l.last), Burst) + 1, Burst)
      BY <3>3, <3>4, Zenon
    <3> QED BY <3>2, <3>5
  <2> QED BY <2>1, <2>2
<1>3. \A a \in Addrs : R!Buckets!AtMost(Levels[a] + 1, Burst) = R!AtMost(R!Level(a) + 1, Burst)
  BY DEF Levels, R!AtMost, R!Buckets!AtMost
<1>4. Levels' = [a \in Addrs |-> R!Buckets!AtMost(Levels[a] + 1, Burst)]
  BY <1>2, <1>3 DEF Levels
<1> QED BY <1>1, <1>4 DEF R!Buckets!Gain, Levels

(* Every step of the map is a step of the buckets, or none.                    *)
LEMMA BucketsNext == Inv /\ [R!Next]_R!vars => [R!Buckets!Next]_<<clock, Levels>>
<1> SUFFICES ASSUME Inv, [R!Next]_R!vars PROVE [R!Buckets!Next]_<<clock, Levels>>
  OBVIOUS
<1>1. ASSUME NEW r \in Reqs, NEW a \in Addrs, NEW o \in Limiters, R!Fetch(r, a, o)
      PROVE  [R!Buckets!Next]_<<clock, Levels>>
  BY <1>1, FetchStutters
<1>2. ASSUME NEW r \in Reqs, R!Allow(r) PROVE [R!Buckets!Next]_<<clock, Levels>>
  BY <1>2, AllowTakes DEF R!Buckets!Next
<1>3. CASE R!Cleanup
  BY <1>3, CleanupStutters
<1>4. CASE R!Tick
  BY <1>4, TickGains DEF R!Buckets!Next
<1>5. CASE UNCHANGED R!vars
  BY <1>5 DEF R!vars, Levels, R!Level, R!Available
<1> QED BY <1>1, <1>2, <1>3, <1>4, <1>5 DEF R!Next

(* The map with its clean-up is as good as a bucket per address that nobody    *)
(* ever forgets: dropping limiters lets nobody try more often.  This is of       *)
(* getWithRate, cleanup and the handlers that ask limiters.                    *)
THEOREM LikeBucketsAlways == LinksSpec => LikeBuckets
<1>1. LinksInit => R!Init
  BY DEF LinksInit
<1>2. [LinksNext]_linksVars => [R!Next]_R!vars
  BY DEF LinksNext, linksVars, rateVars, R!vars
<1>3. R!Init => R!Buckets!Init
  BY BucketsInit
<1>4. Inv /\ [R!Next]_R!vars => [R!Buckets!Next]_<<clock, [a \in Addrs |-> R!Level(a)]>>
  BY BucketsNext DEF Levels
<1>5. LinksSpec => R!Spec
  BY <1>1, <1>2, PTL DEF LinksSpec, R!Spec
<1>6. R!Spec => R!Buckets!Spec
  BY <1>3, <1>4, SpecInv, PTL DEF R!Spec, R!Buckets!Spec
<1> QED BY <1>5, <1>6, PTL DEF LikeBuckets, R!LikeBuckets
===============================================================================
