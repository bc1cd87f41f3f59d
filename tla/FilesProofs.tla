----------------------------- MODULE FilesProofs -----------------------------
(***************************************************************************)
(* Proofs about SsoLogin, for any number of logins, tokens and users and    *)
(* any lifetimes, as long as no login stalls longer than the sweep's grace; *)
(* and about Uploads, for any number of clients, requests at a time, paths, *)
(* chunks and mishaps, and any quota.                                       *)
(***************************************************************************)
EXTENDS Files, Sums, Sequences

\* The places of a login whose token is marked and that may still get a session.
Redeeming == {"check", "create", "update", "session"}

(* A login that is about to mark its token verified it not long ago.          *)
Verified ==
  \A l \in Logins : pc[l] = "mark" => seen[l] < exp[tok[l]] /\ now <= seen[l] + Stall

(* A token somebody redeemed is in the store, or has been too old to be       *)
(* marked by anyone for longer than a login can stall.                        *)
Recorded ==
  \A t \in Tokens :
    made[t] > 0 \/ (\E l \in Logins : pc[l] \in Redeeming /\ tok[l] = t) =>
      exp[t] # Nil /\ (used[t] = exp[t] \/ exp[t] + Grace < now)

(* What is in the store is the expiry of a token.                             *)
Entries == \A t \in Tokens : used[t] # Nil => used[t] = exp[t]

(* A token is redeemed by one login at a time, and never again after it made  *)
(* a session.                                                                 *)
OneRedeemer ==
  \A l \in Logins : pc[l] \in Redeeming =>
    /\ made[tok[l]] = 0
    /\ \A k \in Logins \ {l} : pc[k] \in Redeeming => tok[k] # tok[l]

(* OneSessionPerToken is not inductive: a second redemption is kept out only   *)
(* by Recorded, and the sweep keeps Recorded only because of Verified.            *)
IInv == TypeOK /\ Verified /\ Recorded /\ Entries /\ OneRedeemer /\ OneSessionPerToken

(* The store is empty and nobody is logging in at the start.                  *)
LEMMA InitInv == ASSUME SsoAssumption PROVE Init => IInv
  BY DEF Init, IInv, TypeOK, Verified, Recorded, Entries, OneRedeemer, OneSessionPerToken,
         SsoAssumption, Places, Redeeming

(* A token that may be marked now was never redeemed by this process.         *)
LEMMA MarkFirst ==
  ASSUME SsoAssumption, IInv, NEW l \in Logins, Mark(l)
  PROVE  /\ made[tok[l]] = 0
         /\ \A k \in Logins : pc[k] \in Redeeming => tok[k] # tok[l]
<1>1. tok[l] \in Tokens /\ exp[tok[l]] \in Nat /\ used[tok[l]] = Nil
  BY DEF Mark, IInv, TypeOK
<1>2. ~(exp[tok[l]] + Grace < now)
  <2>1. seen[l] < exp[tok[l]] /\ now <= seen[l] + Stall
    BY DEF Mark, IInv, Verified
  <2> QED BY <1>1, <2>1 DEF SsoAssumption, IInv, TypeOK
<1>3. made[tok[l]] \in Nat
  BY <1>1 DEF IInv, TypeOK
<1> QED BY <1>1, <1>2, <1>3 DEF IInv, Recorded, SsoAssumption

(* Marking a token records it and keeps every entry that still matters.       *)
LEMMA MarkInv ==
  ASSUME SsoAssumption, IInv, NEW l \in Logins, Mark(l)
  PROVE  IInv'
<1> USE DEF SsoAssumption, TypeOK, Mark, Goto, Places
<1>1. tok[l] \in Tokens /\ exp[tok[l]] \in Nat
  BY DEF IInv
<1>2. \A t \in Tokens :
        used'[t] = IF t = tok[l] THEN exp[t]
                   ELSE IF used[t] # Nil /\ used[t] + Grace < now THEN Nil ELSE used[t]
  BY DEF Swept
<1>3. TypeOK'
  <2>1. used' \in [Tokens -> Nat \cup {Nil}]
    BY <1>1 DEF IInv, Swept
  <2> QED BY <2>1 DEF IInv
<1>4. Verified'
  BY DEF IInv, Verified
<1>5. Entries'
  BY <1>2 DEF IInv, Entries
<1>6. Recorded'
  <2> SUFFICES ASSUME NEW t \in Tokens,
                      made[t] > 0 \/ (\E k \in Logins : pc'[k] \in Redeeming /\ tok[k] = t)
               PROVE  exp[t] # Nil /\ (used'[t] = exp[t] \/ exp[t] + Grace < now)
    BY DEF Recorded
  <2>1. CASE t = tok[l]
    BY <2>1, <1>1, <1>2
  <2>2. CASE t # tok[l]
    <3>1. made[t] > 0 \/ (\E k \in Logins : pc[k] \in Redeeming /\ tok[k] = t)
      BY <2>2 DEF IInv
    <3>2. exp[t] # Nil /\ (used[t] = exp[t] \/ exp[t] + Grace < now)
      BY <3>1 DEF IInv, Recorded
    <3> QED BY <2>2, <3>2, <1>2
  <2> QED BY <2>1, <2>2
<1>7. OneRedeemer' /\ OneSessionPerToken'
  BY MarkFirst DEF IInv, OneRedeemer, OneSessionPerToken, Redeeming
<1> QED BY <1>3, <1>4, <1>5, <1>6, <1>7 DEF IInv

(* A login that ends redeems nothing any more.                                *)
LEMMA EndInv ==
  ASSUME SsoAssumption, IInv, NEW l \in Logins, End(l)
  PROVE  IInv'
  BY DEF End, Goto, SsoAssumption, IInv, TypeOK, Verified, Recorded, Entries, OneRedeemer,
         OneSessionPerToken, Places, Redeeming

(* A login that goes on redeeming keeps its token.                            *)
LEMMA ProceedInv ==
  ASSUME SsoAssumption, IInv, NEW l \in Logins, NEW place \in Redeeming,
         pc[l] \in Redeeming, pc' = [pc EXCEPT ![l] = place],
         accounts' \subseteq Users,
         UNCHANGED <<now, exp, sub, used, tok, seen, made>>
  PROVE  IInv'
  BY DEF SsoAssumption, IInv, TypeOK, Verified, Recorded, Entries, OneRedeemer,
         OneSessionPerToken, Places, Redeeming

(* The one redeemer of a token makes its one session.                         *)
LEMMA SessionInv ==
  ASSUME SsoAssumption, IInv, NEW l \in Logins, Session(l)
  PROVE  IInv'
<1> USE DEF SsoAssumption, TypeOK, Session, Goto, Places
<1>1. tok[l] \in Tokens /\ made[tok[l]] = 0
  BY DEF IInv, OneRedeemer, Redeeming
<1>2. \A t \in Tokens : made'[t] = IF t = tok[l] THEN 1 ELSE made[t]
  BY <1>1 DEF IInv
<1>3. TypeOK'
  BY <1>1 DEF IInv
<1>4. Verified' /\ Entries'
  BY DEF IInv, Verified, Entries
<1>5. Recorded'
  BY <1>1, <1>2 DEF IInv, Recorded, Redeeming
<1>6. OneRedeemer' /\ OneSessionPerToken'
  BY <1>1, <1>2 DEF IInv, OneRedeemer, OneSessionPerToken, Redeeming
<1> QED BY <1>3, <1>4, <1>5, <1>6 DEF IInv

(* Every step of a login keeps the invariant.                                 *)
LEMMA LoginInv ==
  ASSUME SsoAssumption, IInv, NEW l \in Logins, Login(l)
  PROVE  IInv'
<1>1. ASSUME NEW t \in Tokens, Verify(l, t) PROVE IInv'
  BY <1>1 DEF Verify, Goto, SsoAssumption, IInv, TypeOK, Verified, Recorded, Entries, OneRedeemer,
     OneSessionPerToken, Places, Redeeming
<1>2. CASE Mark(l)
  BY <1>2, MarkInv
<1>3. CASE Replay(l) \/ CreateUserFails(l) \/ UpdateUserFails(l)
  BY <1>3, EndInv DEF Replay, CreateUserFails, UpdateUserFails
<1>4. CASE CheckAccess(l)
  <2>1. CASE End(l)
    BY <2>1, EndInv
  <2>2. CASE ~End(l)
    BY <1>4, <2>2, ProceedInv DEF CheckAccess, Goto, Redeeming, IInv, TypeOK
  <2> QED BY <2>1, <2>2
<1>5. CASE CreateUser(l)
  <2>1. accounts' \subseteq Users
    <3>1. sub[tok[l]] \in Users
      BY <1>5 DEF CreateUser, IInv, TypeOK
    <3> QED BY <1>5, <3>1 DEF CreateUser, IInv, TypeOK
  <2> QED BY <1>5, <2>1, ProceedInv DEF CreateUser, Goto, Redeeming
<1>6. CASE UpdateUser(l)
  BY <1>6, ProceedInv DEF UpdateUser, Goto, Redeeming, IInv, TypeOK
<1>7. CASE Session(l)
  BY <1>7, SessionInv
<1> QED BY <1>1, <1>2, <1>3, <1>4, <1>5, <1>6, <1>7 DEF Login

(* Every step keeps the invariant.                                            *)
LEMMA NextInv == ASSUME SsoAssumption PROVE IInv /\ [Next]_vars => IInv'
<1> SUFFICES ASSUME IInv, [Next]_vars PROVE IInv'
  OBVIOUS
<1> USE DEF SsoAssumption, IInv, TypeOK, Verified, Recorded, Entries, OneRedeemer,
            OneSessionPerToken, Places, Redeeming
<1>1. ASSUME NEW t \in Tokens, NEW u \in Users, Mint(t, u) PROVE IInv'
  BY <1>1 DEF Mint
<1>3. ASSUME NEW u \in Users, DeleteUser(u) PROVE IInv'
  BY <1>3 DEF DeleteUser
<1>4. CASE Tick
  BY <1>4 DEF Tick
<1>5. CASE Restart
  BY <1>5 DEF Restart
<1>6. CASE UNCHANGED vars
  BY <1>6 DEF vars
<1>7. ASSUME NEW l \in Logins, Login(l) PROVE IInv'
  BY <1>7, LoginInv
<1> QED BY <1>1, <1>3, <1>4, <1>5, <1>6, <1>7 DEF Next

(* The variables keep their types, and a login holds a token that was minted.   *)
THEOREM TypeCorrect == Spec => []TypeOK
<1>1. Init => IInv
  BY InitInv, SsoAssumption
<1>2. IInv /\ [Next]_vars => IInv'
  BY NextInv, SsoAssumption
<1>3. IInv => TypeOK
  BY DEF IInv
<1> QED BY <1>1, <1>2, <1>3, PTL DEF Spec

(* A signed token makes at most one session in the life of a process, for any  *)
(* number of logins: markSsoJtiUsed enforces the one-time use its comment says. *)
THEOREM OneSessionAlways == Spec => []OneSessionPerToken
<1>1. Init => IInv
  BY InitInv, SsoAssumption
<1>2. IInv /\ [Next]_vars => IInv'
  BY NextInv, SsoAssumption
<1>3. IInv => OneSessionPerToken
  BY DEF IInv
<1> QED BY <1>1, <1>2, <1>3, PTL DEF Spec

(* Only markSsoJtiUsed takes a login from verified to redeemed.                *)
LEMMA OnlyMark ==
  ASSUME SsoAssumption, IInv, [Next]_vars, NEW l \in Logins, pc[l] = "mark", pc'[l] = "check"
  PROVE  Mark(l)
<1> USE DEF IInv, TypeOK
<1>1. ASSUME NEW k \in Logins, Login(k) PROVE Mark(l)
  <2>1. CASE k # l
    BY <1>1, <2>1 DEF Login, Verify, Mark, Replay, CheckAccess, CreateUser, CreateUserFails,
       UpdateUser, UpdateUserFails, Session, End, Goto
  <2>2. CASE k = l
    BY <1>1, <2>2 DEF Login, Verify, Replay, CheckAccess, CreateUser, CreateUserFails,
       UpdateUser, UpdateUserFails, Session, End, Goto
  <2> QED BY <2>1, <2>2
<1>2. ASSUME NEW t \in Tokens, NEW u \in Users, Mint(t, u) PROVE FALSE
  BY <1>2 DEF Mint
<1>3. ASSUME NEW u \in Users, DeleteUser(u) PROVE FALSE
  BY <1>3 DEF DeleteUser
<1>4. ~Tick /\ ~Restart /\ ~UNCHANGED vars
  BY DEF Tick, Restart, vars
<1> QED BY <1>1, <1>2, <1>3, <1>4 DEF Next

(* A token is redeemed within its lifetime and the handler's delay, restarts    *)
(* or not: losing the store of redeemed tokens costs a replay no longer window. *)
THEOREM NotAfterExpiryAlways == Spec => NotAfterExpiry
<1>1. Init => IInv
  BY InitInv, SsoAssumption
<1>2. IInv /\ [Next]_vars => IInv'
  BY NextInv, SsoAssumption
<1>3. IInv /\ [Next]_vars =>
        [\A l \in Logins :
           pc[l] = "mark" /\ pc'[l] = "check" => now < exp[tok[l]] + Stall]_vars
  <2> SUFFICES ASSUME IInv, NEW l \in Logins, pc[l] = "mark"
               PROVE  now < exp[tok[l]] + Stall
    OBVIOUS
  <2>1. seen[l] < exp[tok[l]] /\ now <= seen[l] + Stall
    BY DEF IInv, Verified
  <2>2. now \in Nat /\ seen[l] \in Nat /\ exp[tok[l]] \in Nat
    BY DEF IInv, TypeOK
  <2> QED BY <2>1, <2>2, SsoAssumption DEF SsoAssumption
<1> QED BY <1>1, <1>2, <1>3, PTL DEF Spec, NotAfterExpiry

(* Every redemption sweeps the store: what stays is no older than the grace.    *)
THEOREM StoreIsSweptAlways == Spec => StoreIsSwept
<1>1. Init => IInv
  BY InitInv, SsoAssumption
<1>2. IInv /\ [Next]_vars => IInv'
  BY NextInv, SsoAssumption
<1>3. IInv /\ [Next]_vars =>
        [\A l \in Logins, t \in Tokens :
           pc[l] = "mark" /\ pc'[l] = "check" /\ used'[t] # Nil => now <= used'[t] + Grace]_vars
  <2> SUFFICES ASSUME IInv, [Next]_vars, NEW l \in Logins, NEW t \in Tokens,
                      pc[l] = "mark", pc'[l] = "check", used'[t] # Nil
               PROVE  now <= used'[t] + Grace
    OBVIOUS
  <2>1. Mark(l)
    BY OnlyMark, SsoAssumption
  <2>2. seen[l] < exp[tok[l]] /\ now <= seen[l] + Stall
    BY DEF IInv, Verified
  <2>3. now \in Nat /\ seen[l] \in Nat /\ exp[tok[l]] \in Nat /\ tok[l] \in Tokens
    BY DEF IInv, TypeOK
  <2>4. CASE t = tok[l]
    BY <2>1, <2>2, <2>3, <2>4, SsoAssumption DEF Mark, Swept, SsoAssumption
  <2>5. CASE t # tok[l]
    <3>1. used'[t] = used[t] /\ used[t] \in Nat /\ ~(used[t] + Grace < now)
      BY <2>1, <2>5 DEF Mark, Swept, IInv, TypeOK
    <3> QED BY <3>1, <2>3, SsoAssumption DEF SsoAssumption
  <2> QED BY <2>4, <2>5
<1> QED BY <1>1, <1>2, <1>3, PTL DEF Spec, StoreIsSwept

-------------------------------------------------------------------------------
(* Sums.                                                                       *)

(* The library's sum is the sum.                                                *)
LEMMA SumTotal ==
  ASSUME NEW S, IsFiniteSet(S), NEW f \in [S -> Nat]
  PROVE  U!SumFunction(f) = Total(f, S)
<1>1. f \in [S -> Int] /\ DOMAIN f = S OBVIOUS
<1>2. U!SumFunction(f)
        = (CHOOSE g : g = [s \in SUBSET S |->
                             IF s = {} THEN 0 ELSE f[Some(s)] + g[s \ {Some(s)}]])[S]
  BY <1>1 DEF U!SumFunction, U!SumFunctionOnSet, U!FoldFunctionOnSet, U!MapThenFoldSet, Some
<1> QED BY <1>1, <1>2, Folded

(* Two sums that differ in one term differ by what that term does.                 *)
LEMMA SumStep ==
  ASSUME NEW S, IsFiniteSet(S), NEW f \in [S -> Nat], NEW h \in [S -> Nat], NEW p \in S,
         \A q \in S \ {p} : f[q] = h[q]
  PROVE  /\ U!SumFunction(f) \in Nat /\ U!SumFunction(h) \in Nat
         /\ U!SumFunction(f) + h[p] = U!SumFunction(h) + f[p]
<1> DEFINE R == S \ {p}
<1>1. f \in [S -> Int] /\ h \in [S -> Int] /\ IsFiniteSet(R) /\ R \in SUBSET S BY FS_Subset
<1>2. Total(f, S) = f[p] + Total(f, R) BY <1>1, TotalElement
<1>3. Total(h, S) = h[p] + Total(h, R) BY <1>1, TotalElement
<1>4. Total(f, R) = Total(h, R) BY <1>1, TotalSame
<1>5. Total(f, S) \in Nat /\ Total(h, S) \in Nat /\ Total(h, R) \in Nat BY <1>1, TotalNat
<1>6. U!SumFunction(f) = Total(f, S) BY SumTotal
<1>7. U!SumFunction(h) = Total(h, S) BY SumTotal
<1>8. f[p] \in Nat /\ h[p] \in Nat OBVIOUS
<1> HIDE DEF R
<1> QED BY <1>2, <1>3, <1>4, <1>5, <1>6, <1>7, <1>8

-------------------------------------------------------------------------------
(* Uploads.  The invariant.                                                   *)

Going == {"arrived", "open", "write", "move", "refresh"}
Managers == [at : U!Waiting, path : Paths, kind : U!Kinds, size : Nat \ {0}, off : Nat,
             over : BOOLEAN, by : Handlers \cup {U!None}]
Requests == [at : Going, c : Clients, path : Paths, kind : U!Kinds, off : Nat,
             size : Nat \ {0}, over : BOOLEAN, fd : U!Inodes \cup {U!None}]
Pieces == Clients \cup {U!Hole}

Typed ==
  /\ up \in [Clients -> Managers]
  /\ req \in [Handlers -> Requests \cup {U!Idle}]
  /\ temp \in [Paths -> U!Inodes \cup {U!None}]
  /\ dest \in [Paths -> U!Inodes \cup {U!None, U!Folder}]
  /\ file \in [U!Inodes -> Seq(Pieces)]
  /\ removing \in [Paths -> Nat]
  /\ indexed \in Nat /\ mishaps \in Nat /\ owed \in BOOLEAN /\ oneVolume \in BOOLEAN
  /\ mixed \in [Clients -> BOOLEAN] /\ again \in [Clients -> BOOLEAN]
  /\ accepted \in [Clients -> BOOLEAN] /\ raced \in BOOLEAN

\* What a client waits for is a request of its own, for the chunk it is at.
SentOK ==
  \A c \in Clients :
    /\ up[c].off < up[c].size
    /\ up[c].kind # "chunks" => up[c].size = 1
    /\ up[c].at = "sending" =>
         /\ up[c].by \in Handlers /\ U!Busy(up[c].by)
         /\ req[up[c].by].c = c /\ req[up[c].by].off = up[c].off

\* A request has the path, kind and size of its client, and a file open where it writes.
WorkOK ==
  \A h \in Handlers : U!Busy(h) =>
    /\ req[h].path = up[req[h].c].path /\ req[h].kind = up[req[h].c].kind
    /\ req[h].size = up[req[h].c].size /\ req[h].off < req[h].size
    /\ req[h].fd # U!None <=> req[h].kind # "folder" /\ req[h].at \in {"write", "move", "refresh"}
    /\ req[h].at = "write" => req[h].kind # "folder"
    /\ req[h].at = "move" => req[h].kind = "chunks" /\ U!LastChunk(req[h])
    /\ req[h].at = "refresh" => req[h].kind # "chunks"

\* An inode is of one path, whether it lies there, is on the way or only open.
OneHome ==
  /\ \A p, q \in Paths :
       /\ temp[p] # U!None /\ temp[p] = temp[q] => p = q
       /\ dest[p] \in U!Inodes /\ dest[p] = dest[q] => p = q
       /\ dest[p] \in U!Inodes => dest[p] # temp[q]
  /\ \A h \in Handlers : U!Busy(h) /\ req[h].fd # U!None =>
       /\ \A p \in Paths : req[h].fd = temp[p] \/ req[h].fd = dest[p] => req[h].path = p
       /\ \A k \in Handlers : U!Busy(k) /\ req[k].fd = req[h].fd => req[k].path = req[h].path

UInv == Typed /\ SentOK /\ WorkOK /\ OneHome

-------------------------------------------------------------------------------
(* Numbers of things, and inodes that nobody holds.                              *)

(* The operators of an instance are those of the library.                        *)
LEMMA SameCount == \A S : U!Cardinality(S) = Cardinality(S) /\ (U!IsFiniteSet(S) <=> IsFiniteSet(S))
<1> SUFFICES ASSUME NEW S
             PROVE  U!Cardinality(S) = Cardinality(S) /\ (U!IsFiniteSet(S) <=> IsFiniteSet(S))
  OBVIOUS
<1>1. U!Cardinality(S) = Cardinality(S) BY DEF U!Cardinality, Cardinality, U!IsFiniteSet, IsFiniteSet
<1>2. U!IsFiniteSet(S) <=> IsFiniteSet(S) BY DEF U!IsFiniteSet, IsFiniteSet
<1> QED BY <1>1, <1>2

(* The assumptions, in terms of the library.                                   *)
LEMMA Given ==
  /\ IsFiniteSet(Paths) /\ IsFiniteSet(Handlers)
  /\ Cardinality(Paths) \in Nat /\ Cardinality(Handlers) \in Nat
  /\ U!Inodes = 1 .. (2 * Cardinality(Paths) + Cardinality(Handlers))
  /\ IsFiniteSet(U!Inodes)
  /\ Cardinality(U!Inodes) = 2 * Cardinality(Paths) + Cardinality(Handlers)
  /\ U!Inodes \subseteq Nat \ {0}
  /\ U!Folder \notin U!Inodes /\ U!Folder # U!None /\ U!None \notin U!Inodes
<1>1. IsFiniteSet(Paths) /\ IsFiniteSet(Handlers)
  BY FilesAssumption, SameCount DEF U!UploadsAssumption
<1>2. Cardinality(Paths) \in Nat /\ Cardinality(Handlers) \in Nat BY <1>1, FS_CardinalityType
<1>3. U!Inodes = 1 .. (2 * Cardinality(Paths) + Cardinality(Handlers)) BY SameCount DEF U!Inodes
<1> DEFINE n == 2 * Cardinality(Paths) + Cardinality(Handlers)
<1>4. n \in Nat BY <1>2
<1>5. IsFiniteSet(1 .. n) /\ Cardinality(1 .. n) = n BY <1>4, FS_Interval
<1>6. U!Folder = n + 1 BY <1>3, <1>5, SameCount DEF U!Folder
<1> QED BY <1>1, <1>2, <1>3, <1>4, <1>5, <1>6 DEF U!None

(* There are no more values of a function than arguments.                        *)
LEMMA Image ==
  ASSUME NEW S, IsFiniteSet(S), NEW f
  PROVE  IsFiniteSet({f[x] : x \in S}) /\ Cardinality({f[x] : x \in S}) <= Cardinality(S)
<1> DEFINE g == [x \in S |-> f[x]]
<1>1. g \in Surjection(S, {f[x] : x \in S}) BY DEF Surjection
<1> QED BY <1>1, FS_Surjection

(* Two sets have no more elements together than apart.                          *)
LEMMA Together ==
  ASSUME NEW S, IsFiniteSet(S), NEW T, IsFiniteSet(T)
  PROVE  IsFiniteSet(S \cup T) /\ Cardinality(S \cup T) <= Cardinality(S) + Cardinality(T)
<1>1. IsFiniteSet(S \cup T)
      /\ Cardinality(S \cup T) = Cardinality(S) + Cardinality(T) - Cardinality(S \cap T)
  BY FS_Union
<1>2. IsFiniteSet(S \cap T) BY FS_Subset
<1>3. Cardinality(S) \in Nat /\ Cardinality(T) \in Nat /\ Cardinality(S \cap T) \in Nat
  BY <1>2, FS_CardinalityType
<1> QED BY <1>1, <1>3

(* A set of naturals that has an element has a least one.                        *)
LEMMA LeastIs == ASSUME NEW S \in SUBSET Nat, S # {} PROVE U!Min(S) \in S
BY LeastIn DEF U!Min

(* While a path has no temporary file, or no file, an inode is free.              *)
LEMMA FreshIs ==
  ASSUME NEW p \in Paths, temp[p] = U!None \/ dest[p] \notin U!Inodes
  PROVE  /\ U!Fresh \in U!Inodes
         /\ \A q \in Paths : temp[q] # U!Fresh /\ dest[q] # U!Fresh
         /\ \A h \in Handlers : U!Busy(h) => req[h].fd # U!Fresh
<1> DEFINE B == {h \in Handlers : U!Busy(h)}
<1> DEFINE fd == [h \in Handlers |-> req[h].fd]
<1> DEFINE T == {temp[q] : q \in Paths}
<1> DEFINE T1 == {temp[q] : q \in Paths \ {p}}
<1> DEFINE E == {dest[q] : q \in Paths}
<1> DEFINE E1 == {dest[q] : q \in Paths \ {p}}
<1> DEFINE O == {fd[h] : h \in B}
<1>1. U!Held = (T \cup E) \cup O BY DEF U!Held
<1>2. IsFiniteSet(T) /\ Cardinality(T) <= Cardinality(Paths) BY Given, Image
<1>3. IsFiniteSet(E) /\ Cardinality(E) <= Cardinality(Paths) BY Given, Image
<1>4. IsFiniteSet(Paths \ {p}) /\ Cardinality(Paths \ {p}) = Cardinality(Paths) - 1
  BY Given, FS_RemoveElement
<1>5. IsFiniteSet(T1) /\ Cardinality(T1) <= Cardinality(Paths) - 1 BY <1>4, Image
<1>6. IsFiniteSet(E1) /\ Cardinality(E1) <= Cardinality(Paths) - 1 BY <1>4, Image
<1>7. IsFiniteSet(B) /\ Cardinality(B) <= Cardinality(Handlers) BY Given, FS_Subset
<1>8. IsFiniteSet(O) /\ Cardinality(O) <= Cardinality(Handlers)
  <2>1. IsFiniteSet(O) /\ Cardinality(O) <= Cardinality(B) BY <1>7, Image
  <2>2. Cardinality(O) \in Nat /\ Cardinality(B) \in Nat BY <2>1, <1>7, FS_CardinalityType
  <2> QED BY <2>1, <2>2, <1>7, Given
<1> HIDE DEF B, T, T1, E, E1, O
<1>9. U!Inodes \ U!Held # {}
  <2> SUFFICES ASSUME U!Inodes \subseteq U!Held PROVE FALSE OBVIOUS
  <2>1. ASSUME NEW X, NEW Y, IsFiniteSet(X), IsFiniteSet(Y),
               U!Inodes \subseteq (X \cup Y) \cup O,
               Cardinality(X) + Cardinality(Y) < 2 * Cardinality(Paths)
        PROVE  FALSE
    <3>1. IsFiniteSet(X \cup Y) /\ Cardinality(X \cup Y) <= Cardinality(X) + Cardinality(Y)
      BY <2>1, Together
    <3>2. IsFiniteSet((X \cup Y) \cup O)
          /\ Cardinality((X \cup Y) \cup O) <= Cardinality(X \cup Y) + Cardinality(O)
      BY <3>1, <1>8, Together
    <3>3. Cardinality(U!Inodes) <= Cardinality((X \cup Y) \cup O) BY <2>1, <3>2, FS_Subset
    <3>4. Cardinality(X) \in Nat /\ Cardinality(Y) \in Nat /\ Cardinality(O) \in Nat
          /\ Cardinality(X \cup Y) \in Nat /\ Cardinality((X \cup Y) \cup O) \in Nat
      BY <2>1, <3>1, <3>2, <1>8, FS_CardinalityType
    <3> QED BY <2>1, <3>1, <3>2, <3>3, <3>4, <1>8, Given
  <2>2. CASE temp[p] = U!None
    <3>1. U!Inodes \subseteq (T1 \cup E) \cup O BY <2>2, <1>1, Given DEF T, T1
    <3>2. Cardinality(T1) \in Nat /\ Cardinality(E) \in Nat BY <1>3, <1>5, FS_CardinalityType
    <3>3. Cardinality(T1) + Cardinality(E) < 2 * Cardinality(Paths) BY <3>2, <1>3, <1>5, Given
    <3> QED BY <3>1, <3>3, <1>3, <1>5, <2>1
  <2>3. CASE dest[p] \notin U!Inodes
    <3>1. U!Inodes \subseteq (T \cup E1) \cup O BY <2>3, <1>1, Given DEF E, E1
    <3>2. Cardinality(T) \in Nat /\ Cardinality(E1) \in Nat BY <1>2, <1>6, FS_CardinalityType
    <3>3. Cardinality(T) + Cardinality(E1) < 2 * Cardinality(Paths) BY <3>2, <1>2, <1>6, Given
    <3> QED BY <3>1, <3>3, <1>2, <1>6, <2>1
  <2> QED BY <2>2, <2>3
<1>10. U!Inodes \ U!Held \in SUBSET Nat BY Given
<1>11. U!Fresh \in U!Inodes \ U!Held BY <1>9, <1>10, LeastIs DEF U!Fresh
<1> QED BY <1>11, <1>1 DEF T, E, O, B

-------------------------------------------------------------------------------
(* What the operators return.                                                  *)

(* The sum of naturals is a natural.                                           *)
LEMMA SumIs ==
  ASSUME NEW S, IsFiniteSet(S), NEW f \in [S -> Nat]
  PROVE  U!SumFunction(f) \in Nat
BY SumTotal, TotalNat

(* Zeros add up to zero.                                                       *)
LEMMA SumNothing ==
  ASSUME NEW S, IsFiniteSet(S), NEW f \in [S -> Nat], \A x \in S : f[x] = 0
  PROVE  U!SumFunction(f) = 0
<1>1. f \in [S -> Int] OBVIOUS
<1> QED BY <1>1, SumTotal, TotalZero

\* A chunk has been written at its offset, with holes before it if need be.
Written(w, s, off, c) ==
  /\ w \in Seq(Pieces)
  /\ Len(w) = IF off < Len(s) THEN Len(s) ELSE off + 1
  /\ \A i \in 1 .. Len(w) :
       w[i] = IF i = off + 1 THEN c ELSE IF i <= Len(s) THEN s[i] ELSE U!Hole

(* That is what Put does.                                                      *)
LEMMA PutIs ==
  ASSUME NEW s \in Seq(Pieces), NEW off \in Nat, NEW c \in Clients
  PROVE  Written(U!Put(s, off, c), s, off, c)
<1> DEFINE n == IF off < Len(s) THEN Len(s) ELSE off + 1
<1> DEFINE w == [i \in 1 .. n |->
                   IF i = off + 1 THEN c ELSE IF i <= Len(s) THEN s[i] ELSE U!Hole]
<1>1. n \in Nat OBVIOUS
<1>2. w \in [1 .. n -> Pieces] BY <1>1 DEF Pieces
<1>3. w \in Seq(Pieces) /\ Len(w) = n BY <1>1, <1>2
<1>4. U!Put(s, off, c) = w BY DEF U!Put
<1>5. Written(w, s, off, c) BY <1>3 DEF Written
<1> QED BY <1>4, <1>5

(* A busy handler has a request.                                               *)
LEMMA BusyIs ==
  ASSUME Typed, NEW h \in Handlers, U!Busy(h)
  PROVE  req[h] \in Requests
BY DEF Typed, U!Busy, U!Idle

(* How much lies at a path.                                                    *)
LEMMA LengthIs == ASSUME Typed PROVE \A p \in Paths : U!Length(p) \in Nat
BY DEF Typed, U!Length

(* What is stored is a natural.                                                *)
LEMMA UsedIs == ASSUME Typed PROVE U!Used \in Nat
<1>1. [p \in Paths |-> U!Length(p)] \in [Paths -> Nat] BY LengthIs
<1> QED BY <1>1, SumIs, Given DEF U!Used

(* Only what lies at one path has changed: so has what is stored.                *)
LEMMA UsedMoves ==
  ASSUME Typed, Typed', NEW p \in Paths, \A q \in Paths \ {p} : U!Length(q)' = U!Length(q)
  PROVE  U!Used + U!Length(p)' = U!Used' + U!Length(p)
<1>1. \A q \in Paths : U!Length(q) \in Nat BY LengthIs
<1>2. \A q \in Paths : U!Length(q)' \in Nat BY DEF Typed, U!Length
<1> DEFINE f == [q \in Paths |-> U!Length(q)]
<1> DEFINE h == [q \in Paths |-> U!Length(q)']
<1>3. f \in [Paths -> Nat] /\ h \in [Paths -> Nat] BY <1>1, <1>2
<1>4. \A q \in Paths \ {p} : f[q] = h[q] OBVIOUS
<1>5. U!Used = U!SumFunction(f) /\ U!Used' = U!SumFunction(h) BY DEF U!Used
<1>6. f[p] = U!Length(p) /\ h[p] = U!Length(p)' OBVIOUS
<1> HIDE DEF f, h
<1>7. /\ U!SumFunction(f) \in Nat /\ U!SumFunction(h) \in Nat
      /\ U!SumFunction(f) + h[p] = U!SumFunction(h) + f[p]
  BY <1>3, <1>4, SumStep, Given
<1> QED BY <1>5, <1>6, <1>7

(* What lies at the paths is as long as it was: so is what is stored.             *)
LEMMA UsedStays ==
  ASSUME \A q \in Paths : U!Length(q)' = U!Length(q)
  PROVE  U!Used' = U!Used
<1> DEFINE h == [q \in Paths |-> U!Length(q)']
<1>1. h = [q \in Paths |-> U!Length(q)] OBVIOUS
<1>2. U!Used' = U!SumFunction(h) BY DEF U!Used
<1> QED BY <1>1, <1>2 DEF U!Used

-------------------------------------------------------------------------------
(* Types and homes.                                                           *)

\* Clients do not change what they send.
Steady == \A c \in Clients : /\ up'[c].path = up[c].path /\ up'[c].kind = up[c].kind
                             /\ up'[c].size = up[c].size

\* Handler h is done with its request, or has gone on with it.
Ended(h) == req' = [req EXCEPT ![h] = U!Idle]
Moved(h, at, fd) == req' = [req EXCEPT ![h].at = at, ![h].fd = fd]

(* The answer: the request is over, and its client knows if it still waited.      *)
LEMMA Replies ==
  ASSUME Typed, SentOK, WorkOK, NEW h \in Handlers, U!Busy(h),
         NEW code \in {"conflict", "error", "ok"}, U!Answer(h, code)
  PROVE  /\ up' \in [Clients -> Managers] /\ Steady /\ SentOK' /\ Ended(h)
         /\ \A d \in Clients \ {req[h].c} : up'[d] = up[d]
         /\ LET c == req[h].c IN
            IF up[c].at = "sending" /\ up[c].by = h
              THEN /\ code # "ok" => up'[c].at = code /\ up'[c].off = up[c].off
                   /\ code = "ok" => IF up[c].kind = "chunks" /\ up[c].off + 1 < up[c].size
                        THEN up'[c].at = "between" /\ up'[c].off = up[c].off + 1
                        ELSE up'[c].at = "done"
              ELSE up'[c] = up[c]
<1> DEFINE c == req[h].c
<1> DEFINE u == up[c]
<1>1. c \in Clients /\ u \in Managers BY BusyIs DEF Requests, Typed
<1>2. \A v \in Managers : v.off \in Nat /\ v.by \in Handlers \cup {U!None} BY DEF Managers
<1>9. PICK next :
        next = CASE code = "conflict" -> [u EXCEPT !.at = "conflict", !.by = U!None]
                 [] code = "error"    -> [u EXCEPT !.at = "error", !.by = U!None]
                 [] code = "ok"       ->
                      IF u.kind = "chunks" /\ u.off + 1 < u.size
                        THEN [u EXCEPT !.off = @ + 1, !.at = "between", !.by = U!None]
                        ELSE [u EXCEPT !.at = "done", !.by = U!None]
  OBVIOUS
<1>3. /\ req' = [req EXCEPT ![h] = U!Idle]
      /\ up' = [up EXCEPT ![c] = IF u.at = "sending" /\ u.by = h THEN next ELSE u]
  BY <1>9 DEF U!Answer
<1>4. /\ next \in Managers /\ next.path = u.path /\ next.kind = u.kind /\ next.size = u.size
      /\ next.at # "sending" /\ next.off < next.size
      /\ code # "ok" => next.at = code /\ next.off = u.off
      /\ code = "ok" => IF u.kind = "chunks" /\ u.off + 1 < u.size
           THEN next.at = "between" /\ next.off = u.off + 1 ELSE next.at = "done"
  <2>1. u.off \in Nat /\ u.off < u.size BY <1>1, <1>2 DEF SentOK
  <2>2. CASE code # "ok"
    <3>1. next = [u EXCEPT !.at = code, !.by = U!None] BY <1>9, <2>2
    <3>2. code \in U!Waiting /\ code # "sending" BY <2>2 DEF U!Waiting
    <3>3. /\ [u EXCEPT !.at = code, !.by = U!None] \in Managers
          /\ [u EXCEPT !.at = code, !.by = U!None].at = code
          /\ \A x \in {"path", "kind", "size", "off"} :
               [u EXCEPT !.at = code, !.by = U!None][x] = u[x]
      BY <3>2, <1>1 DEF Managers
    <3>4. next \in Managers /\ next.at = code /\ next.path = u.path /\ next.kind = u.kind
          /\ next.size = u.size /\ next.off = u.off
      BY <3>1, <3>3
    <3>5. next.at # "sending" BY <3>2, <3>4
    <3>6. next.off < next.size BY <3>4, <2>1
    <3> QED BY <3>4, <3>5, <3>6, <2>2
  <2>4. CASE code = "ok" /\ u.kind = "chunks" /\ u.off + 1 < u.size
    <3>1. next = [u EXCEPT !.off = u.off + 1, !.at = "between", !.by = U!None] BY <1>9, <2>4
    <3>2. u.off + 1 \in Nat BY <2>1
    <3>3. "between" \in U!Waiting BY DEF U!Waiting
    <3> QED BY <3>1, <3>2, <3>3, <2>4, <1>1 DEF Managers
  <2>5. CASE code = "ok" /\ ~(u.kind = "chunks" /\ u.off + 1 < u.size)
    <3>1. next = [u EXCEPT !.at = "done", !.by = U!None] BY <1>9, <2>5
    <3>2. "done" \in U!Waiting BY DEF U!Waiting
    <3> QED BY <3>1, <3>2, <2>1, <2>5, <1>1 DEF Managers
  <2> QED BY <2>2, <2>4, <2>5
<1>5. up' \in [Clients -> Managers] BY <1>1, <1>3, <1>4 DEF Typed
<1>6. up'[c] = (IF u.at = "sending" /\ u.by = h THEN next ELSE u)
      /\ \A d \in Clients \ {c} : up'[d] = up[d]
  BY <1>1, <1>3 DEF Typed
<1>7. Steady BY <1>4, <1>6 DEF Steady
<1>8. SentOK'
  <2> SUFFICES ASSUME NEW d \in Clients
               PROVE  /\ up'[d].off < up'[d].size
                      /\ up'[d].kind # "chunks" => up'[d].size = 1
                      /\ up'[d].at = "sending" =>
                           /\ up'[d].by \in Handlers /\ req'[up'[d].by].at # "idle"
                           /\ req'[up'[d].by].c = d /\ req'[up'[d].by].off = up'[d].off
    BY DEF SentOK, U!Busy
  <2>1. CASE d = c /\ u.at = "sending" /\ u.by = h BY <2>1, <1>4, <1>6 DEF SentOK
  <2>2. CASE ~(d = c /\ u.at = "sending" /\ u.by = h)
    <3>1. up'[d] = up[d] BY <2>2, <1>6
    <3>2. up[d].at = "sending" => up[d].by # h BY <2>2 DEF SentOK
    <3> QED BY <3>1, <3>2, <1>3 DEF SentOK, Typed, U!Busy
  <2> QED BY <2>1, <2>2
<1> QED BY <1>3, <1>4, <1>5, <1>6, <1>7, <1>8 DEF Ended

(* A request that ends leaves the others as they were.                           *)
LEMMA EndsWork ==
  ASSUME Typed, WorkOK, Steady, NEW h \in Handlers, Ended(h)
  PROVE  req' \in [Handlers -> Requests \cup {U!Idle}] /\ WorkOK'
<1>1. req' \in [Handlers -> Requests \cup {U!Idle}] BY DEF Ended, Typed
<1>2. ASSUME NEW k \in Handlers, U!Busy(k)'
      PROVE  k # h /\ U!Busy(k) /\ req'[k] = req[k] /\ req[k].c \in Clients
  <2>1. k # h /\ req'[k] = req[k] BY <1>2 DEF Ended, Typed, U!Busy, U!Idle
  <2>2. U!Busy(k) BY <1>2, <2>1 DEF U!Busy
  <2> QED BY <2>1, <2>2, BusyIs DEF Requests
<1> QED BY <1>1, <1>2 DEF WorkOK, Steady, U!LastChunk

(* What a request becomes that goes on.                                        *)
LEMMA Goes ==
  ASSUME Typed, NEW h \in Handlers, U!Busy(h), NEW at \in Going,
         NEW fd \in U!Inodes \cup {U!None}, Moved(h, at, fd)
  PROVE  /\ req' \in [Handlers -> Requests \cup {U!Idle}]
         /\ \A k \in Handlers \ {h} : req'[k] = req[k]
         /\ req'[h] \in Requests /\ U!Busy(h)' /\ req'[h].at = at /\ req'[h].fd = fd
         /\ req'[h].c = req[h].c /\ req'[h].path = req[h].path /\ req'[h].kind = req[h].kind
         /\ req'[h].off = req[h].off /\ req'[h].size = req[h].size
<1>1. req[h] \in Requests BY BusyIs
<1>2. req'[h] = [req[h] EXCEPT !.at = at, !.fd = fd] BY DEF Moved, Typed
<1>3. req'[h] \in Requests /\ req'[h].at = at BY <1>1, <1>2 DEF Requests
<1>4. U!Busy(h)' BY <1>3 DEF U!Busy, Going
<1> QED BY <1>1, <1>2, <1>3, <1>4 DEF Moved, Typed, Requests

(* Places, and what has been opened there, are as they were.                      *)
LEMMA HomesKept ==
  ASSUME OneHome, UNCHANGED <<temp, dest>>,
         \A k \in Handlers : U!Busy(k)' /\ req'[k].fd # U!None =>
           U!Busy(k) /\ req'[k].fd = req[k].fd /\ req'[k].path = req[k].path
  PROVE  OneHome'
BY DEF OneHome

(* A handler that is free takes the request of a client that waits for none.      *)
LEMMA Asks ==
  ASSUME UInv, NEW c \in Clients, NEW h \in Handlers, NEW off \in Nat, off < up[c].size,
         NEW over \in BOOLEAN, up[c].at # "sending", U!Request(c, h, off, over),
         UNCHANGED <<temp, dest>>
  PROVE  /\ up' \in [Clients -> Managers] /\ req' \in [Handlers -> Requests \cup {U!Idle}]
         /\ Steady /\ SentOK' /\ WorkOK' /\ OneHome'
         /\ \A k \in Handlers \ {h} : req'[k] = req[k]
         /\ \A d \in Clients \ {c} : up'[d] = up[d]
         /\ req'[h].c = c /\ req'[h].at = "arrived" /\ req'[h].off = off /\ ~U!Busy(h)
         /\ req'[h].size = up[c].size /\ req'[h].kind = up[c].kind /\ req'[h].path = up[c].path
         /\ up'[c].at = "sending" /\ up'[c].by = h /\ up'[c].off = off
<1>1. up[c] \in Managers BY DEF UInv, Typed
<1>2. up'[c] = [up[c] EXCEPT !.at = "sending", !.off = off, !.over = over, !.by = h]
      /\ \A d \in Clients \ {c} : up'[d] = up[d]
  BY <1>1 DEF U!Request, UInv, Typed
<1>3. "sending" \in U!Waiting BY DEF U!Waiting
<1>4. /\ up'[c] \in Managers /\ up'[c].at = "sending" /\ up'[c].by = h /\ up'[c].off = off
      /\ up'[c].path = up[c].path /\ up'[c].kind = up[c].kind /\ up'[c].size = up[c].size
  BY <1>1, <1>2, <1>3 DEF Managers
<1>5. up' \in [Clients -> Managers] BY <1>2, <1>4 DEF UInv, Typed, U!Request
<1>6. Steady BY <1>2, <1>4 DEF Steady
<1>7. /\ ~U!Busy(h)
      /\ req'[h] = [at |-> "arrived", c |-> c, path |-> up[c].path, kind |-> up[c].kind,
                    off |-> off, size |-> up[c].size, over |-> over, fd |-> U!None]
      /\ \A k \in Handlers \ {h} : req'[k] = req[k]
  BY DEF U!Request, UInv, Typed
<1>8. req'[h] \in Requests BY <1>1, <1>7 DEF Requests, Managers, Going
<1>9. req' \in [Handlers -> Requests \cup {U!Idle}]
  BY <1>7, <1>8 DEF UInv, Typed, U!Request
<1>10. SentOK'
  <2> SUFFICES ASSUME NEW d \in Clients
               PROVE  /\ up'[d].off < up'[d].size
                      /\ up'[d].kind # "chunks" => up'[d].size = 1
                      /\ up'[d].at = "sending" =>
                           /\ up'[d].by \in Handlers /\ req'[up'[d].by].at # "idle"
                           /\ req'[up'[d].by].c = d /\ req'[up'[d].by].off = up'[d].off
    BY DEF SentOK, U!Busy
  <2>1. CASE d = c BY <2>1, <1>4, <1>7 DEF SentOK, UInv
  <2>2. CASE d # c
    <3>1. up'[d] = up[d] BY <2>2, <1>2
    <3>2. up[d].at = "sending" => up[d].by # h BY <1>7 DEF SentOK, UInv
    <3> QED BY <3>1, <3>2, <1>7 DEF SentOK, UInv, U!Busy
  <2> QED BY <2>1, <2>2
<1>11. ASSUME NEW k \in Handlers, k # h, U!Busy(k)'
       PROVE  U!Busy(k) /\ req'[k] = req[k] /\ req[k] \in Requests /\ req[k].c \in Clients
  <2>1. U!Busy(k) /\ req'[k] = req[k] BY <1>7, <1>11 DEF U!Busy
  <2> QED BY <2>1, BusyIs DEF UInv, Requests
<1>12. WorkOK'
  <2> SUFFICES ASSUME NEW k \in Handlers, U!Busy(k)'
               PROVE  /\ req'[k].path = up'[req'[k].c].path /\ req'[k].kind = up'[req'[k].c].kind
                      /\ req'[k].size = up'[req'[k].c].size /\ req'[k].off < req'[k].size
                      /\ req'[k].fd # U!None <=> req'[k].kind # "folder"
                                             /\ req'[k].at \in {"write", "move", "refresh"}
                      /\ req'[k].at = "write" => req'[k].kind # "folder"
                      /\ req'[k].at = "move" => req'[k].kind = "chunks" /\ U!LastChunk(req'[k])
                      /\ req'[k].at = "refresh" => req'[k].kind # "chunks"
    BY DEF WorkOK, U!LastChunk
  <2>1. CASE k = h BY <2>1, <1>4, <1>7
  <2>2. CASE k # h BY <2>2, <1>6, <1>11 DEF UInv, WorkOK, Steady
  <2> QED BY <2>1, <2>2
<1>13. OneHome'
  <2>1. ASSUME NEW k \in Handlers, U!Busy(k)', req'[k].fd # U!None
        PROVE  U!Busy(k) /\ req'[k].fd = req[k].fd /\ req'[k].path = req[k].path
    BY <2>1, <1>7, <1>11
  <2> QED BY <2>1, HomesKept DEF UInv
<1> QED BY <1>2, <1>4, <1>5, <1>6, <1>7, <1>9, <1>10, <1>12, <1>13

\* Where an upload is when the browser sends a request for it.
Sends(c, h) == U!Start(c, h) \/ U!Continue(c, h) \/ U!Resume(c, h) \/ U!Retry(c, h)

(* Each of the four sends a request, and changes nothing of what lies where.       *)
LEMMA SendsIs ==
  ASSUME UInv, NEW c \in Clients, NEW h \in Handlers, Sends(c, h)
  PROVE  /\ up[c].at \in {"pending", "between", "paused", "error", "conflict"}
         /\ \E off \in Nat, over \in BOOLEAN :
              /\ off < up[c].size /\ U!Request(c, h, off, over)
              /\ up[c].at \in {"between", "paused"} => off = up[c].off
              /\ up[c].at \in {"pending", "error", "conflict"} => off = 0
         /\ UNCHANGED <<temp, dest, file, removing, indexed, owed, oneVolume, mishaps, accepted, raced>>
         /\ mixed' \in [Clients -> BOOLEAN] /\ again' \in [Clients -> BOOLEAN]
         /\ \A d \in Clients : (mixed[d] => mixed'[d]) /\ (again[d] => again'[d])
<1>1. /\ up[c] \in Managers /\ up[c].off \in Nat /\ up[c].off < up[c].size
      /\ up[c].size \in Nat \ {0} /\ up[c].over \in BOOLEAN
  BY DEF UInv, Typed, SentOK, Managers
<1>2. /\ mixed \in [Clients -> BOOLEAN] /\ again \in [Clients -> BOOLEAN]
  BY DEF UInv, Typed
<1>3. U!Crowded(c) \in BOOLEAN /\ U!Twin(c) \in BOOLEAN BY DEF U!Crowded, U!Twin
<1>4. CASE U!Start(c, h)
  <2>1. U!Request(c, h, 0, up[c].over) /\ up[c].at = "pending" BY <1>4 DEF U!Start
  <2>2. mixed' = [mixed EXCEPT ![c] = @ \/ U!Crowded(c)] BY <1>4 DEF U!Start
  <2>3. mixed' \in [Clients -> BOOLEAN] /\ \A d \in Clients : mixed[d] => mixed'[d]
    BY <1>2, <1>3, <2>2
  <2> QED BY <1>1, <1>2, <1>4, <2>1, <2>3 DEF U!Start
<1>5. CASE U!Continue(c, h)
  <2>1. U!Request(c, h, up[c].off, up[c].over) /\ up[c].at = "between" BY <1>5 DEF U!Continue
  <2> QED BY <1>1, <1>2, <1>5, <2>1 DEF U!Continue, U!history
<1>6. CASE U!Resume(c, h)
  <2>1. U!Request(c, h, up[c].off, up[c].over) /\ up[c].at = "paused" BY <1>6 DEF U!Resume
  <2>2. again' = [again EXCEPT ![c] = @ \/ U!Twin(c) \/ (up[c].kind = "chunks" /\ U!LastChunk(up[c]))]
    BY <1>6 DEF U!Resume
  <2>3. (U!Twin(c) \/ (up[c].kind = "chunks" /\ U!LastChunk(up[c]))) \in BOOLEAN OBVIOUS
  <2>4. again' \in [Clients -> BOOLEAN] /\ \A d \in Clients : again[d] => again'[d]
    BY <1>2, <2>3, <2>2
  <2> QED BY <1>1, <1>2, <1>6, <2>1, <2>4 DEF U!Resume
<1>7. CASE U!Retry(c, h)
  <2>1. up[c].at \in {"error", "conflict"} /\ \E over \in BOOLEAN : U!Request(c, h, 0, over)
    BY <1>7 DEF U!Retry
  <2>2. again' = [again EXCEPT ![c] = @ \/ U!Twin(c)] BY <1>7 DEF U!Retry
  <2>3. again' \in [Clients -> BOOLEAN] /\ \A d \in Clients : again[d] => again'[d]
    BY <1>2, <1>3, <2>2
  <2> QED BY <1>1, <1>2, <1>7, <2>1, <2>3 DEF U!Retry
<1> QED BY <1>4, <1>5, <1>6, <1>7 DEF Sends

(* What a browser does keeps types and homes.                                    *)
LEMMA SendsTypes ==
  ASSUME UInv, NEW c \in Clients, NEW h \in Handlers, Sends(c, h)
  PROVE  UInv'
<1>1. PICK off \in Nat, over \in BOOLEAN : off < up[c].size /\ U!Request(c, h, off, over)
  BY SendsIs
<1>2. up[c].at # "sending" /\ UNCHANGED <<temp, dest>> BY SendsIs
<1>3. /\ up' \in [Clients -> Managers] /\ req' \in [Handlers -> Requests \cup {U!Idle}]
      /\ SentOK' /\ WorkOK' /\ OneHome'
  BY <1>1, <1>2, Asks
<1>4. Typed' BY <1>3, SendsIs DEF UInv, Typed
<1> QED BY <1>3, <1>4 DEF UInv

(* A browser that turns away from its request.                                   *)
LEMMA LeaveIs ==
  ASSUME UInv, NEW c \in Clients, U!Leave(c)
  PROVE  /\ UInv' /\ Steady
         /\ up[c].at = "sending" /\ up'[c].at \in {"paused", "error", "gone"}
         /\ up'[c].off = up[c].off
         /\ \A d \in Clients \ {c} : up'[d] = up[d]
         /\ UNCHANGED <<req, temp, dest, file, removing, indexed, owed, oneVolume,
                        mixed, again, accepted, raced>>
<1>1. PICK at \in {"paused", "error", "gone"} :
        up' = [up EXCEPT ![c].at = at, ![c].by = U!None]
  BY DEF U!Leave
<1>2. /\ up[c].at = "sending" /\ mishaps' = mishaps + 1
      /\ UNCHANGED <<req, temp, dest, file, removing, indexed, owed, oneVolume,
                     mixed, again, accepted, raced>>
  BY DEF U!Leave, U!Mishap, U!history
<1>3. up[c] \in Managers /\ up'[c] = [up[c] EXCEPT !.at = at, !.by = U!None]
      /\ \A d \in Clients \ {c} : up'[d] = up[d]
  BY <1>1 DEF UInv, Typed
<1>4. at \in U!Waiting BY DEF U!Waiting
<1>5. /\ up'[c] \in Managers /\ up'[c].at = at /\ up'[c].off = up[c].off
      /\ up'[c].path = up[c].path /\ up'[c].kind = up[c].kind /\ up'[c].size = up[c].size
  BY <1>3, <1>4 DEF Managers
<1>6. up' \in [Clients -> Managers] BY <1>1, <1>3, <1>5 DEF UInv, Typed
<1>7. Steady BY <1>3, <1>5 DEF Steady
<1>8. SentOK'
  <2> SUFFICES ASSUME NEW d \in Clients
               PROVE  /\ up'[d].off < up'[d].size
                      /\ up'[d].kind # "chunks" => up'[d].size = 1
                      /\ up'[d].at = "sending" =>
                           /\ up'[d].by \in Handlers /\ req[up'[d].by].at # "idle"
                           /\ req[up'[d].by].c = d /\ req[up'[d].by].off = up'[d].off
    BY <1>2 DEF SentOK, U!Busy
  <2>1. CASE d = c BY <2>1, <1>5 DEF UInv, SentOK
  <2>2. CASE d # c BY <2>2, <1>3 DEF UInv, SentOK, U!Busy
  <2> QED BY <2>1, <2>2
<1>9. WorkOK'
  <2>1. \A k \in Handlers : U!Busy(k) => req[k].c \in Clients BY BusyIs DEF UInv, Requests
  <2> QED BY <1>2, <1>7, <2>1 DEF UInv, WorkOK, Steady, U!Busy, U!LastChunk
<1>10. OneHome' BY <1>2, HomesKept DEF UInv, U!Busy
<1>11. Typed' BY <1>2, <1>6 DEF UInv, Typed
<1> QED BY <1>2, <1>3, <1>5, <1>7, <1>8, <1>9, <1>10, <1>11 DEF UInv

\* An inode that is of this path, if of any.
Own(i, p) ==
  /\ \A q \in Paths \ {p} : temp[q] # i /\ dest[q] # i
  /\ \A k \in Handlers : U!Busy(k) /\ req[k].fd = i => req[k].path = p

(* Inodes are own where they lie, where they are open, and before they are used.     *)
LEMMA Owned ==
  ASSUME UInv, NEW p \in Paths
  PROVE  /\ temp[p] # U!None => Own(temp[p], p)
         /\ dest[p] \in U!Inodes => Own(dest[p], p)
         /\ temp[p] = U!None \/ dest[p] \notin U!Inodes => U!Fresh \in U!Inodes /\ Own(U!Fresh, p)
         /\ \A h \in Handlers : U!Busy(h) /\ req[h].fd # U!None /\ req[h].path = p
              => Own(req[h].fd, p)
<1>1. temp[p] # U!None => Own(temp[p], p)
  <2> SUFFICES ASSUME temp[p] # U!None PROVE Own(temp[p], p) OBVIOUS
  <2>1. \A q \in Paths \ {p} : temp[q] # temp[p] BY DEF UInv, OneHome
  <2>2. temp[p] \in U!Inodes BY DEF UInv, Typed
  <2>3. \A q \in Paths \ {p} : dest[q] # temp[p] BY <2>2 DEF UInv, OneHome
  <2>4. \A k \in Handlers : U!Busy(k) /\ req[k].fd = temp[p] => req[k].path = p
    BY DEF UInv, OneHome
  <2> QED BY <2>1, <2>3, <2>4 DEF Own
<1>2. dest[p] \in U!Inodes => Own(dest[p], p)
  <2> SUFFICES ASSUME dest[p] \in U!Inodes PROVE Own(dest[p], p) OBVIOUS
  <2>1. dest[p] # U!None BY Given
  <2> QED BY <2>1 DEF UInv, OneHome, Own
<1>3. temp[p] = U!None \/ dest[p] \notin U!Inodes => U!Fresh \in U!Inodes /\ Own(U!Fresh, p)
  BY FreshIs DEF Own
<1>4. ASSUME NEW h \in Handlers, U!Busy(h), req[h].fd # U!None, req[h].path = p
      PROVE  Own(req[h].fd, p)
  BY <1>4 DEF UInv, OneHome, Own
<1> QED BY <1>1, <1>2, <1>3, <1>4

(* A step at one path, with inodes of its own, leaves every inode at home.           *)
LEMMA HomesMove ==
  ASSUME UInv, NEW p \in Paths,
         \A q \in Paths \ {p} : temp'[q] = temp[q] /\ dest'[q] = dest[q],
         temp'[p] = U!None \/ Own(temp'[p], p),
         dest'[p] \notin U!Inodes \/ (Own(dest'[p], p) /\ dest'[p] # temp'[p]),
         \A k \in Handlers : U!Busy(k)' /\ req'[k].fd # U!None =>
           \/ U!Busy(k) /\ req'[k].fd = req[k].fd /\ req'[k].path = req[k].path
           \/ req'[k].path = p /\ Own(req'[k].fd, p)
  PROVE  OneHome'
<1>1. ASSUME NEW q1 \in Paths, NEW q2 \in Paths
      PROVE  /\ temp'[q1] # U!None /\ temp'[q1] = temp'[q2] => q1 = q2
             /\ dest'[q1] \in U!Inodes /\ dest'[q1] = dest'[q2] => q1 = q2
             /\ dest'[q1] \in U!Inodes => dest'[q1] # temp'[q2]
  <2>1. U!None \notin U!Inodes BY Given
  <2>2. CASE q1 # p /\ q2 # p BY <2>2 DEF UInv, OneHome
  <2>3. CASE q1 = p /\ q2 = p BY <2>1, <2>3
  <2>4. CASE q1 = p /\ q2 # p BY <2>1, <2>4 DEF Own
  <2>5. CASE q1 # p /\ q2 = p BY <2>1, <2>5 DEF Own
  <2> QED BY <2>2, <2>3, <2>4, <2>5
<1>2. ASSUME NEW h \in Handlers, U!Busy(h)', req'[h].fd # U!None
      PROVE  /\ \A q \in Paths : req'[h].fd = temp'[q] \/ req'[h].fd = dest'[q] => req'[h].path = q
             /\ \A k \in Handlers : U!Busy(k)' /\ req'[k].fd = req'[h].fd => req'[k].path = req'[h].path
  <2>1. req'[h].fd \in U!Inodes
     \/ req'[h].fd \notin U!Inodes OBVIOUS
  <2>2. CASE req'[h].path = p /\ Own(req'[h].fd, p)
    <3>1. \A k \in Handlers : U!Busy(k)' /\ req'[k].fd = req'[h].fd => req'[k].path = p
      BY <1>2, <2>2 DEF Own
    <3> QED BY <1>2, <2>2, <3>1 DEF Own
  <2>3. CASE U!Busy(h) /\ req'[h].fd = req[h].fd /\ req'[h].path = req[h].path
    <3>1. \A k \in Handlers : U!Busy(k)' /\ req'[k].fd = req'[h].fd => req'[k].path = req'[h].path
      <4> SUFFICES ASSUME NEW k \in Handlers, U!Busy(k)', req'[k].fd = req'[h].fd
                   PROVE  req'[k].path = req'[h].path
        OBVIOUS
      <4>1. CASE U!Busy(k) /\ req'[k].fd = req[k].fd /\ req'[k].path = req[k].path
        BY <1>2, <2>3, <4>1 DEF UInv, OneHome
      <4>2. CASE req'[k].path = p /\ Own(req'[k].fd, p) BY <2>3, <4>2 DEF Own
      <4> QED BY <1>2, <4>1, <4>2
    <3>2. ASSUME NEW q \in Paths, q # p, req'[h].fd = temp'[q] \/ req'[h].fd = dest'[q]
          PROVE  req'[h].path = q
      BY <1>2, <2>3, <3>2 DEF UInv, OneHome
    <3>3. ASSUME req'[h].fd = temp'[p] \/ req'[h].fd = dest'[p]
          PROVE  req'[h].path = p
      <4>1. req[h] \in Requests BY <2>3, BusyIs DEF UInv
      <4>2. req[h].fd \in U!Inodes BY <4>1, <1>2, <2>3 DEF Requests
      <4> QED BY <1>2, <2>3, <3>3, <4>2 DEF Own
    <3> QED BY <3>1, <3>2, <3>3
  <2> QED BY <1>2, <2>2, <2>3
<1> QED BY <1>1, <1>2 DEF OneHome

(* A request that is answered: what is left of requests and clients.                *)
LEMMA Over ==
  ASSUME UInv, NEW h \in Handlers, U!Busy(h),
         NEW code \in {"conflict", "error", "ok"}, U!Answer(h, code)
  PROVE  /\ up' \in [Clients -> Managers] /\ req' \in [Handlers -> Requests \cup {U!Idle}]
         /\ Steady /\ SentOK' /\ WorkOK'
         /\ \A d \in Clients \ {req[h].c} : up'[d] = up[d]
         /\ ~U!Busy(h)' /\ \A k \in Handlers \ {h} : req'[k] = req[k]
<1>1. /\ up' \in [Clients -> Managers] /\ Steady /\ SentOK' /\ Ended(h)
      /\ \A d \in Clients \ {req[h].c} : up'[d] = up[d]
  BY Replies DEF UInv
<1>2. req' \in [Handlers -> Requests \cup {U!Idle}] /\ WorkOK' BY <1>1, EndsWork DEF UInv
<1>3. ~U!Busy(h)' /\ \A k \in Handlers \ {h} : req'[k] = req[k]
  BY <1>1 DEF Ended, U!Busy, U!Idle, UInv, Typed
<1> QED BY <1>1, <1>2, <1>3

(* A request that goes on, in the order of the handlers.                           *)
LEMMA Onward ==
  ASSUME UInv, NEW h \in Handlers, U!Busy(h), NEW at \in Going,
         NEW fd \in U!Inodes \cup {U!None}, Moved(h, at, fd), up' = up,
         fd # U!None <=> req[h].kind # "folder" /\ at \in {"write", "move", "refresh"},
         at = "write" => req[h].kind # "folder",
         at = "move" => req[h].kind = "chunks" /\ U!LastChunk(req[h]),
         at = "refresh" => req[h].kind # "chunks"
  PROVE  /\ up' \in [Clients -> Managers] /\ req' \in [Handlers -> Requests \cup {U!Idle}]
         /\ Steady /\ SentOK' /\ WorkOK'
         /\ \A k \in Handlers \ {h} : req'[k] = req[k]
         /\ U!Busy(h)' /\ req'[h].at = at /\ req'[h].fd = fd
         /\ req'[h].c = req[h].c /\ req'[h].path = req[h].path /\ req'[h].kind = req[h].kind
         /\ req'[h].off = req[h].off /\ req'[h].size = req[h].size
<1>1. /\ req' \in [Handlers -> Requests \cup {U!Idle}]
      /\ \A k \in Handlers \ {h} : req'[k] = req[k]
      /\ req'[h] \in Requests /\ U!Busy(h)' /\ req'[h].at = at /\ req'[h].fd = fd
      /\ req'[h].c = req[h].c /\ req'[h].path = req[h].path /\ req'[h].kind = req[h].kind
      /\ req'[h].off = req[h].off /\ req'[h].size = req[h].size
  BY Goes DEF UInv
<1>2. SentOK' 
  <2> SUFFICES ASSUME NEW d \in Clients
               PROVE  /\ up[d].off < up[d].size
                      /\ up[d].kind # "chunks" => up[d].size = 1
                      /\ up[d].at = "sending" =>
                           /\ up[d].by \in Handlers /\ U!Busy(up[d].by)'
                           /\ req'[up[d].by].c = d /\ req'[up[d].by].off = up[d].off
    BY DEF SentOK
  <2>1. CASE up[d].at = "sending" /\ up[d].by # h
    <3>1. up[d].by \in Handlers /\ U!Busy(up[d].by) BY <2>1 DEF UInv, SentOK
    <3>2. U!Busy(up[d].by)' BY <3>1, <2>1, <1>1 DEF U!Busy
    <3> QED BY <2>1, <3>1, <3>2, <1>1 DEF UInv, SentOK
  <2>2. CASE up[d].at # "sending" \/ up[d].by = h BY <2>2, <1>1 DEF UInv, SentOK
  <2> QED BY <2>1, <2>2
<1>3. WorkOK'
  <2> SUFFICES ASSUME NEW k \in Handlers, U!Busy(k)'
               PROVE  /\ req'[k].path = up[req'[k].c].path /\ req'[k].kind = up[req'[k].c].kind
                      /\ req'[k].size = up[req'[k].c].size /\ req'[k].off < req'[k].size
                      /\ req'[k].fd # U!None <=> req'[k].kind # "folder"
                                             /\ req'[k].at \in {"write", "move", "refresh"}
                      /\ req'[k].at = "write" => req'[k].kind # "folder"
                      /\ req'[k].at = "move" => req'[k].kind = "chunks" /\ U!LastChunk(req'[k])
                      /\ req'[k].at = "refresh" => req'[k].kind # "chunks"
    BY DEF WorkOK, U!LastChunk
  <2>1. CASE k = h
    <3>1. U!LastChunk(req[h]) => U!LastChunk(req'[h]) BY <1>1 DEF U!LastChunk
    <3> QED BY <2>1, <3>1, <1>1 DEF UInv, WorkOK
  <2>2. CASE k # h
    <3>1. U!Busy(k) /\ req'[k] = req[k] BY <2>2, <1>1 DEF U!Busy
    <3> QED BY <3>1 DEF UInv, WorkOK
  <2> QED BY <2>1, <2>2
<1>4. up' \in [Clients -> Managers] /\ Steady BY DEF UInv, Typed, Steady
<1> QED BY <1>1, <1>2, <1>3, <1>4

-------------------------------------------------------------------------------
(* The steps of the server.                                                    *)

\* What a step of handler h may touch: its request, that request's client, and
\* what is at that request's path.
Touches(h) ==
  /\ UInv'
  /\ \A k \in Handlers \ {h} : req'[k] = req[k]
  /\ U!Busy(h)' => req'[h].c = req[h].c
  /\ Steady /\ \A d \in Clients \ {req[h].c} : up'[d] = up[d]
  /\ \A q \in Paths \ {req[h].path} :
       /\ temp'[q] = temp[q] /\ dest'[q] = dest[q] /\ removing'[q] = removing[q]
       /\ temp[q] # U!None => file'[temp[q]] = file[temp[q]]
       /\ dest[q] \in U!Inodes => file'[dest[q]] = file[dest[q]]
  /\ U!Meets(req[h]) \/ UNCHANGED <<temp, dest, file, removing, mixed>>
  /\ again' = again

(* Everybody else's upload to the path has been met, and nothing is forgotten.       *)
LEMMA MeetsIs ==
  ASSUME UInv, NEW r, U!Meets(r)
  PROVE  /\ mixed' \in [Clients -> BOOLEAN]
         /\ \A d \in Clients : /\ mixed[d] => mixed'[d]
                               /\ d # r.c /\ up[d].path = r.path => mixed'[d]
         /\ r.c \in Clients => mixed'[r.c] = mixed[r.c]
<1>1. mixed \in [Clients -> BOOLEAN] BY DEF UInv, Typed
<1>2. mixed' = [d \in Clients |-> mixed[d] \/ (d # r.c /\ up[d].path = r.path)] BY DEF U!Meets
<1> QED BY <1>1, <1>2

(* What a busy handler works on.                                               *)
LEMMA WorksOn ==
  ASSUME UInv, NEW h \in Handlers, U!Busy(h)
  PROVE  /\ req[h] \in Requests /\ req[h].c \in Clients /\ req[h].path \in Paths
         /\ req[h].kind \in U!Kinds /\ req[h].off \in Nat /\ req[h].size \in Nat \ {0}
         /\ req[h].path = up[req[h].c].path /\ req[h].kind = up[req[h].c].kind
         /\ req[h].size = up[req[h].c].size
         /\ req[h].at \in {"write", "move", "refresh"} /\ req[h].kind # "folder"
              => req[h].fd \in U!Inodes
         /\ up[req[h].c] \in Managers
<1>1. req[h] \in Requests BY BusyIs DEF UInv
<1> QED BY <1>1 DEF UInv, WorkOK, Typed, Requests, Managers

(* The check before the first write.                                            *)
LEMMA TouchCheck ==
  ASSUME UInv, NEW h \in Handlers, U!Check(h)
  PROVE  Touches(h)
<1>1. U!Busy(h) /\ req[h].at = "arrived" BY DEF U!Check, U!Busy
<1>2. req[h].c \in Clients /\ req[h] \in Requests BY <1>1, WorksOn
<1>3. UNCHANGED <<temp, dest, file, removing, indexed, owed, oneVolume, mishaps, mixed, again>>
  BY DEF U!Check
<1>4. accepted' \in [Clients -> BOOLEAN] /\ raced' \in BOOLEAN
  <2>1. accepted \in [Clients -> BOOLEAN] /\ raced \in BOOLEAN BY DEF UInv, Typed
  <2>2. CASE UNCHANGED <<accepted, raced>> BY <2>1, <2>2
  <2>3. CASE /\ accepted' = [accepted EXCEPT ![req[h].c] = @ \/ U!Counted(req[h])]
             /\ raced' = (raced \/ (U!Counted(req[h]) /\ U!Uncounted(req[h].c)))
    <3>1. U!Counted(req[h]) \in BOOLEAN BY DEF U!Counted
    <3>2. (raced \/ (U!Counted(req[h]) /\ U!Uncounted(req[h].c))) \in BOOLEAN OBVIOUS
    <3> QED BY <2>1, <2>3, <3>1, <3>2
  <2> QED BY <2>2, <2>3 DEF U!Check
<1>5. /\ up' \in [Clients -> Managers] /\ req' \in [Handlers -> Requests \cup {U!Idle}]
      /\ Steady /\ SentOK' /\ WorkOK'
      /\ \A d \in Clients \ {req[h].c} : up'[d] = up[d]
      /\ \A k \in Handlers \ {h} : req'[k] = req[k]
      /\ U!Busy(h)' => req'[h].c = req[h].c /\ req'[h].fd = req[h].fd /\ req'[h].path = req[h].path
  <2>1. CASE U!Answer(h, "conflict") \/ U!Answer(h, "error") BY <2>1, <1>1, Over
  <2>2. CASE U!Goes(h, "open") /\ up' = up
    <3>1. req[h].fd = U!None BY <1>1 DEF UInv, WorkOK
    <3>2. req' = [req EXCEPT ![h].at = "open"] BY <2>2 DEF U!Goes
    <3>3. [req[h] EXCEPT !.at = "open"] = [req[h] EXCEPT !.at = "open", !.fd = U!None]
      BY <3>1, <1>2 DEF Requests
    <3>4. Moved(h, "open", U!None) BY <3>2, <3>3 DEF Moved, UInv, Typed
    <3>5. "open" \in Going BY DEF Going
    <3> QED BY <3>1, <3>4, <3>5, <2>2, <1>1, Onward
  <2> QED BY <2>1, <2>2 DEF U!Check
<1>6. OneHome'
  <2>1. ASSUME NEW k \in Handlers, U!Busy(k)', req'[k].fd # U!None
        PROVE  U!Busy(k) /\ req'[k].fd = req[k].fd /\ req'[k].path = req[k].path
    BY <2>1, <1>1, <1>5 DEF U!Busy
  <2> QED BY <2>1, <1>3, HomesKept DEF UInv
<1>7. Typed' BY <1>3, <1>4, <1>5 DEF UInv, Typed
<1> QED BY <1>3, <1>5, <1>6, <1>7 DEF UInv, Touches

(* Opening the temporary file.                                                 *)
LEMMA TouchOpen ==
  ASSUME UInv, NEW h \in Handlers, U!OpenTemp(h)
  PROVE  /\ Touches(h)
         /\ up' = up /\ UNCHANGED <<dest, removing, indexed, owed, accepted, raced>>
         /\ U!Busy(h)' /\ req'[h].at = "write" /\ req'[h].fd = temp'[req[h].path]
         /\ req'[h].off = req[h].off /\ req'[h].size = req[h].size
         /\ \A q \in Paths : dest[q] \in U!Inodes => file'[dest[q]] = file[dest[q]]
         /\ IF temp[req[h].path] # U!None THEN UNCHANGED <<temp, file>>
            ELSE /\ temp'[req[h].path] \in U!Inodes
                 /\ file'[temp'[req[h].path]] = << >>
<1> DEFINE p == req[h].path
<1>1. /\ U!Busy(h) /\ req[h].at = "open" /\ req[h].kind = "chunks"
      /\ UNCHANGED <<up, dest, removing, indexed, owed, oneVolume, mishaps, again, accepted, raced>>
      /\ U!Meets(req[h])
  BY DEF U!OpenTemp, U!Busy
<1>2. /\ req[h].c \in Clients /\ req[h] \in Requests /\ p \in Paths
  BY <1>1, WorksOn
<1>3. PICK i \in U!Inodes :
        /\ Own(i, p) /\ (dest[p] \in U!Inodes => dest[p] # i)
        /\ req' = [req EXCEPT ![h].at = "write", ![h].fd = i]
        /\ temp' = [temp EXCEPT ![p] = i]
        /\ \/ temp[p] = i /\ UNCHANGED <<temp, file>>
           \/ /\ temp[p] = U!None /\ file' = [file EXCEPT ![i] = << >>]
              /\ \A q \in Paths : temp[q] # i /\ dest[q] # i
  <2>1. CASE temp[p] # U!None
    <3>1. temp[p] \in U!Inodes /\ Own(temp[p], p) BY <2>1, <1>2, Owned DEF UInv, Typed
    <3>2. temp = [temp EXCEPT ![p] = temp[p]] BY DEF UInv, Typed
    <3>3. /\ req' = [req EXCEPT ![h].at = "write", ![h].fd = temp[p]]
          /\ UNCHANGED <<temp, file>>
      BY <2>1 DEF U!OpenTemp
    <3>4. dest[p] \in U!Inodes => dest[p] # temp[p] BY <1>2 DEF UInv, OneHome
    <3>5. temp' = [temp EXCEPT ![p] = temp[p]] BY <3>2, <3>3
    <3> QED BY <3>1, <3>3, <3>4, <3>5
  <2>2. CASE temp[p] = U!None
    <3>1. U!Fresh \in U!Inodes /\ Own(U!Fresh, p)
          /\ \A q \in Paths : temp[q] # U!Fresh /\ dest[q] # U!Fresh
      BY <2>2, <1>2, Owned, FreshIs
    <3>2. /\ req' = [req EXCEPT ![h].at = "write", ![h].fd = U!Fresh]
          /\ temp' = [temp EXCEPT ![p] = U!Fresh]
          /\ file' = [file EXCEPT ![U!Fresh] = << >>]
      BY <2>2 DEF U!OpenTemp
    <3> QED BY <3>1, <3>2, <2>2, <1>2
  <2> QED BY <2>1, <2>2
<1>4. Moved(h, "write", i) BY <1>3 DEF Moved
<1>5. /\ up' \in [Clients -> Managers] /\ req' \in [Handlers -> Requests \cup {U!Idle}]
      /\ Steady /\ SentOK' /\ WorkOK'
      /\ \A k \in Handlers \ {h} : req'[k] = req[k]
      /\ U!Busy(h)' /\ req'[h].at = "write" /\ req'[h].fd = i
      /\ req'[h].c = req[h].c /\ req'[h].path = req[h].path
      /\ req'[h].off = req[h].off /\ req'[h].size = req[h].size
  <2>1. "write" \in Going BY DEF Going
  <2>2. i # U!None BY Given
  <2> QED BY <1>1, <1>4, <2>1, <2>2, Onward
<1>6. temp' \in [Paths -> U!Inodes \cup {U!None}] BY <1>3 DEF UInv, Typed
<1>7. file' \in [U!Inodes -> Seq(Pieces)]
  <2>1. << >> \in Seq(Pieces) /\ file \in [U!Inodes -> Seq(Pieces)] BY DEF UInv, Typed
  <2> QED BY <1>3, <2>1
<1>8. mixed' \in [Clients -> BOOLEAN] BY <1>1, MeetsIs
<1>9. Typed' BY <1>1, <1>5, <1>6, <1>7, <1>8 DEF UInv, Typed
<1>10. OneHome'
  <2>1. temp'[p] = i /\ \A q \in Paths \ {p} : temp'[q] = temp[q]
    BY <1>2, <1>3 DEF UInv, Typed
  <2>2. \A k \in Handlers : U!Busy(k)' /\ req'[k].fd # U!None =>
           \/ U!Busy(k) /\ req'[k].fd = req[k].fd /\ req'[k].path = req[k].path
           \/ req'[k].path = p /\ Own(req'[k].fd, p)
    <3> SUFFICES ASSUME NEW k \in Handlers, U!Busy(k)', req'[k].fd # U!None
                 PROVE  \/ U!Busy(k) /\ req'[k].fd = req[k].fd /\ req'[k].path = req[k].path
                        \/ req'[k].path = p /\ Own(req'[k].fd, p)
      OBVIOUS
    <3>1. CASE k = h BY <3>1, <1>3, <1>5
    <3>2. CASE k # h BY <3>2, <1>5 DEF U!Busy
    <3> QED BY <3>1, <3>2
  <2>3. dest[p] \in U!Inodes => Own(dest[p], p) BY <1>2, Owned
  <2> QED BY <1>1, <1>2, <1>3, <2>1, <2>2, <2>3, HomesMove
<1>11. \A q \in Paths : dest[q] \in U!Inodes => file'[dest[q]] = file[dest[q]]
  BY <1>3 DEF UInv, Typed
<1>12. \A q \in Paths \ {p} :
         temp'[q] = temp[q] /\ (temp[q] # U!None => file'[temp[q]] = file[temp[q]])
  BY <1>3 DEF UInv, Typed
<1>13. temp'[p] = i BY <1>2, <1>3 DEF UInv, Typed
<1>14. Touches(h) BY <1>1, <1>5, <1>9, <1>10, <1>11, <1>12 DEF UInv, Touches
<1>15. temp[p] = U!None => file'[i] = << >>
  <2>1. temp[p] = U!None => file' = [file EXCEPT ![i] = << >>] BY <1>3, Given
  <2> QED BY <2>1 DEF UInv, Typed
<1>16. temp[p] # U!None => UNCHANGED <<temp, file>> BY <1>3
<1> QED BY <1>1, <1>3, <1>5, <1>11, <1>13, <1>14, <1>15, <1>16

\* A handler that goes on without opening anything.
GoesOn(h, at) == Moved(h, at, req[h].fd)

(* Going on is a step of the request.                                          *)
LEMMA GoesIs ==
  ASSUME UInv, NEW h \in Handlers, U!Busy(h), NEW at, U!Goes(h, at)
  PROVE  GoesOn(h, at)
<1>1. req[h] \in Requests BY BusyIs DEF UInv
<1>2. [req[h] EXCEPT !.at = at] = [req[h] EXCEPT !.at = at, !.fd = req[h].fd]
  BY <1>1 DEF Requests
<1> QED BY <1>2 DEF U!Goes, GoesOn, Moved, UInv, Typed

(* The inode a handler has open is of its path only.                               *)
LEMMA OpenIs ==
  ASSUME UInv, NEW h \in Handlers, U!Busy(h), req[h].fd \in U!Inodes
  PROVE  \A q \in Paths \ {req[h].path} : temp[q] # req[h].fd /\ dest[q] # req[h].fd
<1>1. req[h].fd # U!None BY Given
<1> QED BY <1>1, WorksOn, Owned DEF Own

(* A chunk written, or an interrupted one.                                        *)
LEMMA TouchWrite ==
  ASSUME UInv, NEW h \in Handlers, U!WriteChunk(h)
  PROVE  /\ Touches(h)
         /\ UNCHANGED <<temp, dest, removing, indexed, owed, accepted>>
         /\ U!Busy(h) /\ req[h].at = "write" /\ req[h].kind = "chunks" /\ req[h].fd \in U!Inodes
         /\ \/ /\ file' = [file EXCEPT ![req[h].fd] = U!Put(@, req[h].off, req[h].c)]
               /\ raced' = (raced \/ U!Grows(req[h]))
               /\ IF U!LastChunk(req[h]) THEN GoesOn(h, "move") /\ up' = up ELSE U!Answer(h, "ok")
            \/ /\ up[req[h].c].by # h /\ UNCHANGED <<file, raced>> /\ U!Answer(h, "error")
<1> DEFINE p == req[h].path
<1> DEFINE i == req[h].fd
<1>1. /\ U!Busy(h) /\ req[h].at = "write" /\ req[h].kind = "chunks"
      /\ UNCHANGED <<temp, dest, removing, indexed, owed, oneVolume, mishaps, again, accepted>>
      /\ U!Meets(req[h])
  BY DEF U!WriteChunk, U!Busy
<1>2. /\ req[h].c \in Clients /\ req[h] \in Requests /\ p \in Paths /\ i \in U!Inodes
      /\ req[h].off \in Nat
  BY <1>1, WorksOn
<1>3. \/ /\ file' = [file EXCEPT ![i] = U!Put(@, req[h].off, req[h].c)]
         /\ raced' = (raced \/ U!Grows(req[h]))
         /\ IF U!LastChunk(req[h]) THEN GoesOn(h, "move") /\ up' = up ELSE U!Answer(h, "ok")
      \/ /\ up[req[h].c].by # h /\ UNCHANGED <<file, raced>> /\ U!Answer(h, "error")
  BY <1>1, GoesIs DEF U!WriteChunk, U!Offset
<1>4. /\ up' \in [Clients -> Managers] /\ req' \in [Handlers -> Requests \cup {U!Idle}]
      /\ Steady /\ SentOK' /\ WorkOK'
      /\ \A d \in Clients \ {req[h].c} : up'[d] = up[d]
      /\ \A k \in Handlers \ {h} : req'[k] = req[k]
      /\ U!Busy(h)' => req'[h].c = req[h].c /\ req'[h].fd = req[h].fd /\ req'[h].path = req[h].path
  <2>1. CASE U!Answer(h, "ok") \/ U!Answer(h, "error") BY <2>1, <1>1, Over
  <2>2. CASE GoesOn(h, "move") /\ up' = up /\ U!LastChunk(req[h])
    <3>1. "move" \in Going BY DEF Going
    <3>2. i # U!None BY <1>2, Given
    <3> QED BY <3>1, <3>2, <2>2, <1>1, <1>2, Onward DEF GoesOn
  <2> QED BY <2>1, <2>2, <1>3
<1>5. file' \in [U!Inodes -> Seq(Pieces)]
      /\ \A j \in U!Inodes \ {i} : file'[j] = file[j]
  <2>1. file \in [U!Inodes -> Seq(Pieces)] BY DEF UInv, Typed
  <2>2. U!Put(file[i], req[h].off, req[h].c) \in Seq(Pieces)
    BY <2>1, <1>2, PutIs DEF Written
  <2> QED BY <1>3, <2>1, <2>2
<1>6. mixed' \in [Clients -> BOOLEAN] BY <1>1, MeetsIs
<1>7. raced' \in BOOLEAN
  <2>1. raced \in BOOLEAN BY DEF UInv, Typed
  <2>2. (raced \/ U!Grows(req[h])) \in BOOLEAN OBVIOUS
  <2> QED BY <1>3, <2>1, <2>2
<1>8. Typed' BY <1>1, <1>4, <1>5, <1>6, <1>7 DEF UInv, Typed
<1>9. OneHome'
  <2>1. ASSUME NEW k \in Handlers, U!Busy(k)', req'[k].fd # U!None
        PROVE  U!Busy(k) /\ req'[k].fd = req[k].fd /\ req'[k].path = req[k].path
    BY <2>1, <1>1, <1>4 DEF U!Busy
  <2> QED BY <2>1, <1>1, HomesKept DEF UInv
<1>10. \A q \in Paths \ {p} :
         /\ temp[q] # U!None => file'[temp[q]] = file[temp[q]]
         /\ dest[q] \in U!Inodes => file'[dest[q]] = file[dest[q]]
  <2>1. \A q \in Paths \ {p} : temp[q] # i /\ dest[q] # i BY <1>1, <1>2, OpenIs
  <2> QED BY <2>1, <1>5 DEF UInv, Typed
<1>11. Touches(h) BY <1>1, <1>4, <1>8, <1>9, <1>10 DEF UInv, Touches
<1> QED BY <1>1, <1>2, <1>3, <1>11

(* The last chunk is written: the temporary file goes to the path.                   *)
LEMMA TouchMove ==
  ASSUME UInv, NEW h \in Handlers, U!MoveFile(h)
  PROVE  /\ Touches(h)
         /\ UNCHANGED indexed
         /\ U!Busy(h) /\ req[h].at = "move" /\ req[h].kind = "chunks" /\ U!LastChunk(req[h])
         /\ \A q \in Paths : temp'[q] \in {temp[q], U!None}
         /\ \A q \in Paths : temp'[q] # U!None => file'[temp[q]] = file[temp[q]]
         /\ \/ /\ temp[req[h].path] = U!None \/ dest[req[h].path] = U!Folder
               /\ UNCHANGED <<temp, dest, file, removing, owed, accepted, raced>>
               /\ U!Answer(h, "error")
            \/ /\ temp[req[h].path] # U!None /\ dest'[req[h].path] \in U!Inodes
               /\ file'[dest'[req[h].path]] = file[temp[req[h].path]]
               /\ U!Answer(h, "ok") /\ owed' = TRUE /\ U!Lands(req[h])
<1> DEFINE p == req[h].path
<1> DEFINE t == temp[p]
<1>1. /\ U!Busy(h) /\ req[h].at = "move"
      /\ UNCHANGED <<indexed, oneVolume, mishaps, again>>
      /\ U!Meets(req[h])
  BY DEF U!MoveFile, U!Busy
<1>2. /\ req[h].c \in Clients /\ req[h] \in Requests /\ p \in Paths
      /\ req[h].kind = "chunks" /\ U!LastChunk(req[h])
  BY <1>1, WorksOn DEF UInv, WorkOK
<1>3. PICK code \in {"ok", "error"} : U!Answer(h, code)
  BY DEF U!MoveFile
<1>4. /\ up' \in [Clients -> Managers] /\ req' \in [Handlers -> Requests \cup {U!Idle}]
      /\ Steady /\ SentOK' /\ WorkOK'
      /\ \A d \in Clients \ {req[h].c} : up'[d] = up[d]
      /\ \A k \in Handlers \ {h} : req'[k] = req[k] /\ ~U!Busy(h)'
  BY <1>1, <1>3, Over
<1>5. ~U!Busy(h)' BY <1>1, <1>3, Over
<1>6. mixed' \in [Clients -> BOOLEAN] BY <1>1, MeetsIs
<1>7. \A k \in Handlers : U!Busy(k)' => U!Busy(k) /\ req'[k] = req[k]
  BY <1>4, <1>5 DEF U!Busy
<1>8. CASE t = U!None \/ dest[p] = U!Folder
  <2>1. /\ U!Answer(h, "error")
        /\ UNCHANGED <<temp, dest, file, removing, owed, accepted, raced>>
    BY <1>8 DEF U!MoveFile
  <2>2. Typed' BY <1>1, <1>4, <1>6, <2>1 DEF UInv, Typed
  <2>3. OneHome' BY <2>1, <1>7, HomesKept DEF UInv
  <2>4. Touches(h) BY <2>1, <2>2, <2>3, <1>1, <1>4, <1>5 DEF UInv, Touches
  <2> QED BY <2>1, <2>4, <1>1, <1>2, <1>8
<1>9. CASE t # U!None /\ dest[p] # U!Folder
  <2>1. t \in U!Inodes /\ Own(t, p) BY <1>2, <1>9, Owned DEF UInv, Typed
  <2>2. U!Answer(h, "ok") /\ owed' = TRUE /\ U!Lands(req[h]) BY <1>9 DEF U!MoveFile
  <2>3. PICK i \in U!Inodes :
          /\ Own(i, p)
          /\ dest' = [dest EXCEPT ![p] = i]
          /\ \A q \in Paths : q # p => dest[q] # i /\ temp[q] # i
          /\ \/ /\ i = t /\ temp' = [temp EXCEPT ![p] = U!None] /\ UNCHANGED <<file, removing>>
             \/ /\ i # t /\ file' = [file EXCEPT ![i] = file[t]]
                /\ removing' = [removing EXCEPT ![p] = @ + 1] /\ UNCHANGED temp
    <3>1. CASE oneVolume
      <4>1. /\ dest' = [dest EXCEPT ![p] = t] /\ temp' = [temp EXCEPT ![p] = U!None]
            /\ UNCHANGED <<file, removing>>
        BY <1>9, <3>1 DEF U!MoveFile
      <4> QED BY <4>1, <2>1 DEF Own
    <3>2. CASE ~oneVolume
      <4>1. PICK i : /\ i = IF dest[p] = U!None THEN U!Fresh ELSE dest[p]
                     /\ dest' = [dest EXCEPT ![p] = i] /\ file' = [file EXCEPT ![i] = file[t]]
        BY <1>9, <3>2 DEF U!MoveFile
      <4>2. removing' = [removing EXCEPT ![p] = @ + 1] /\ UNCHANGED temp
        BY <1>9, <3>2 DEF U!MoveFile
      <4>3. i \in U!Inodes /\ Own(i, p) /\ i # t
        <5>1. CASE dest[p] = U!None
          <6>1. dest[p] \notin U!Inodes BY <5>1, Given
          <6> QED BY <6>1, <5>1, <4>1, <1>2, Owned, FreshIs
        <5>2. CASE dest[p] # U!None
          <6>1. dest[p] \in U!Inodes BY <5>2, <1>2, <1>9 DEF UInv, Typed
          <6>2. dest[p] # t BY <6>1, <1>2 DEF UInv, OneHome
          <6> QED BY <6>1, <6>2, <5>2, <4>1, <1>2, Owned
        <5> QED BY <5>1, <5>2
      <4> QED BY <4>1, <4>2, <4>3 DEF Own
    <3> QED BY <3>1, <3>2 DEF UInv, Typed
  <2>4. temp' \in [Paths -> U!Inodes \cup {U!None}]
        /\ dest' \in [Paths -> U!Inodes \cup {U!None, U!Folder}]
        /\ removing' \in [Paths -> Nat]
    <3>1. /\ temp \in [Paths -> U!Inodes \cup {U!None}]
          /\ dest \in [Paths -> U!Inodes \cup {U!None, U!Folder}]
          /\ removing \in [Paths -> Nat]
      BY DEF UInv, Typed
    <3>2. dest' \in [Paths -> U!Inodes \cup {U!None, U!Folder}] BY <3>1, <2>3
    <3>3. temp' \in [Paths -> U!Inodes \cup {U!None}] BY <3>1, <2>3
    <3>4. removing[p] + 1 \in Nat BY <3>1, <1>2
    <3>5. removing' \in [Paths -> Nat] BY <3>1, <3>4, <2>3
    <3> QED BY <3>2, <3>3, <3>5
  <2>5. file' \in [U!Inodes -> Seq(Pieces)] /\ file'[i] = file[t]
        /\ \A j \in U!Inodes \ {i} : file'[j] = file[j]
    BY <2>1, <2>3 DEF UInv, Typed
  <2>6. accepted' \in [Clients -> BOOLEAN] /\ raced' \in BOOLEAN
    <3>1. (raced \/ mixed[req[h].c] \/ ~accepted[req[h].c]) \in BOOLEAN OBVIOUS
    <3> QED BY <3>1, <2>2 DEF U!Lands, UInv, Typed
  <2>7. Typed' BY <2>2, <2>4, <2>5, <2>6, <1>1, <1>4, <1>6 DEF UInv, Typed
  <2>8. dest'[p] = i /\ temp'[p] \in {temp[p], U!None} /\ temp'[p] # i
        /\ \A q \in Paths \ {p} : dest'[q] = dest[q] /\ temp'[q] = temp[q] /\ removing'[q] = removing[q]
    BY <2>3, <1>2, Given DEF UInv, Typed
  <2>9. OneHome'
    <3>1. temp'[p] = U!None \/ Own(temp'[p], p) BY <2>8, <2>1
    <3> QED BY <2>3, <2>8, <3>1, <1>2, <1>7, HomesMove
  <2>10. \A q \in Paths \ {p} :
         /\ temp[q] # U!None => file'[temp[q]] = file[temp[q]]
         /\ dest[q] \in U!Inodes => file'[dest[q]] = file[dest[q]]
    BY <2>3, <2>5 DEF UInv, Typed
  <2>11. Touches(h) BY <2>7, <2>8, <2>9, <2>10, <1>1, <1>4, <1>5 DEF UInv, Touches
  <2>12. temp'[p] # U!None => file'[temp[p]] = file[temp[p]]
    BY <2>1, <2>3, <2>5, <2>8
  <2>13. \A q \in Paths : temp'[q] # U!None => file'[temp[q]] = file[temp[q]]
    BY <2>8, <2>10, <2>12
  <2> QED BY <2>2, <2>5, <2>8, <2>11, <2>13, <1>1, <1>2, <1>9
<1> QED BY <1>8, <1>9

(* A file sent in one piece is opened empty.                                     *)
LEMMA TouchTruncate ==
  ASSUME UInv, NEW h \in Handlers, U!Truncate(h)
  PROVE  /\ Touches(h)
         /\ up' = up /\ UNCHANGED <<temp, removing, indexed, owed, accepted, raced>>
         /\ U!Busy(h) /\ req[h].kind \in {"plain", "save"}
         /\ U!Busy(h)' /\ req'[h].at = "write" /\ req'[h].fd = dest'[req[h].path]
         /\ dest'[req[h].path] \in U!Inodes /\ file'[dest'[req[h].path]] = << >>
<1> DEFINE p == req[h].path
<1>1. /\ U!Busy(h) /\ req[h].at = "open" /\ req[h].kind \in {"plain", "save"}
      /\ UNCHANGED <<up, temp, removing, indexed, owed, oneVolume, mishaps, again, accepted, raced>>
      /\ U!Meets(req[h])
  BY DEF U!Truncate, U!Busy
<1>2. /\ req[h].c \in Clients /\ req[h] \in Requests /\ p \in Paths
  BY <1>1, WorksOn
<1>3. PICK i : /\ i = IF dest[p] \in U!Inodes THEN dest[p] ELSE U!Fresh
               /\ dest' = [dest EXCEPT ![p] = i]
               /\ file' = [file EXCEPT ![i] = << >>]
               /\ req' = [req EXCEPT ![h].at = "write", ![h].fd = i]
  BY DEF U!Truncate
<1>4. i \in U!Inodes /\ Own(i, p) /\ i # U!None /\ temp[p] # i
  <2>1. CASE dest[p] \in U!Inodes
    <3>1. dest[p] # temp[p] BY <2>1, <1>2 DEF UInv, OneHome
    <3> QED BY <2>1, <3>1, <1>2, <1>3, Owned, Given
  <2>2. CASE dest[p] \notin U!Inodes BY <2>2, <1>2, <1>3, Owned, FreshIs, Given
  <2> QED BY <2>1, <2>2
<1>5. /\ up' \in [Clients -> Managers] /\ req' \in [Handlers -> Requests \cup {U!Idle}]
      /\ Steady /\ SentOK' /\ WorkOK'
      /\ \A k \in Handlers \ {h} : req'[k] = req[k]
      /\ U!Busy(h)' /\ req'[h].at = "write" /\ req'[h].fd = i
      /\ req'[h].c = req[h].c /\ req'[h].path = req[h].path
  <2>1. "write" \in Going BY DEF Going
  <2>2. Moved(h, "write", i) BY <1>3 DEF Moved
  <2> QED BY <1>1, <1>4, <2>1, <2>2, Onward
<1>6. /\ dest' \in [Paths -> U!Inodes \cup {U!None, U!Folder}] /\ dest'[p] = i
      /\ \A q \in Paths \ {p} : dest'[q] = dest[q]
  <2>1. dest \in [Paths -> U!Inodes \cup {U!None, U!Folder}] BY DEF UInv, Typed
  <2> QED BY <2>1, <1>2, <1>3, <1>4
<1>7. /\ file' \in [U!Inodes -> Seq(Pieces)] /\ file'[i] = << >>
      /\ \A j \in U!Inodes \ {i} : file'[j] = file[j]
  <2>1. << >> \in Seq(Pieces) /\ file \in [U!Inodes -> Seq(Pieces)] BY DEF UInv, Typed
  <2> QED BY <1>3, <1>4, <2>1
<1>8. mixed' \in [Clients -> BOOLEAN] BY <1>1, MeetsIs
<1>9. Typed' BY <1>1, <1>5, <1>6, <1>7, <1>8 DEF UInv, Typed
<1>10. OneHome'
  <2>1. \A k \in Handlers : U!Busy(k)' /\ req'[k].fd # U!None =>
           \/ U!Busy(k) /\ req'[k].fd = req[k].fd /\ req'[k].path = req[k].path
           \/ req'[k].path = p /\ Own(req'[k].fd, p)
    <3> SUFFICES ASSUME NEW k \in Handlers, U!Busy(k)', req'[k].fd # U!None
                 PROVE  \/ U!Busy(k) /\ req'[k].fd = req[k].fd /\ req'[k].path = req[k].path
                        \/ req'[k].path = p /\ Own(req'[k].fd, p)
      OBVIOUS
    <3>1. CASE k = h BY <3>1, <1>4, <1>5
    <3>2. CASE k # h BY <3>2, <1>5 DEF U!Busy
    <3> QED BY <3>1, <3>2
  <2>2. temp'[p] = U!None \/ Own(temp'[p], p) BY <1>1, <1>2, Owned
  <2> QED BY <1>1, <1>2, <1>4, <1>6, <2>1, <2>2, HomesMove
<1>11. \A q \in Paths \ {p} :
         /\ temp[q] # U!None => file'[temp[q]] = file[temp[q]]
         /\ dest[q] \in U!Inodes => file'[dest[q]] = file[dest[q]]
  BY <1>4, <1>7 DEF UInv, Typed, Own
<1>12. Touches(h) BY <1>1, <1>5, <1>6, <1>9, <1>10, <1>11 DEF UInv, Touches
<1> QED BY <1>1, <1>4, <1>5, <1>6, <1>7, <1>12

(* ... and filled.                                                            *)
LEMMA TouchFill ==
  ASSUME UInv, NEW h \in Handlers, U!Fill(h)
  PROVE  /\ Touches(h)
         /\ UNCHANGED <<temp, dest, removing, indexed, owed>>
         /\ U!Busy(h) /\ req[h].at = "write" /\ req[h].kind \in {"plain", "save"}
         /\ req[h].fd \in U!Inodes
         /\ \/ /\ file' = [file EXCEPT ![req[h].fd] = U!Put(@, 0, req[h].c)]
               /\ GoesOn(h, "refresh") /\ up' = up /\ U!Lands(req[h])
               /\ U!Busy(h)' /\ req'[h].at = "refresh" /\ req'[h].kind = req[h].kind
               /\ req'[h].path = req[h].path
            \/ /\ up[req[h].c].by # h /\ UNCHANGED <<file, accepted, raced>>
               /\ U!Answer(h, "error")
<1> DEFINE p == req[h].path
<1> DEFINE i == req[h].fd
<1>1. /\ U!Busy(h) /\ req[h].at = "write" /\ req[h].kind \in {"plain", "save"}
      /\ UNCHANGED <<temp, dest, removing, indexed, owed, oneVolume, mishaps, again>>
      /\ U!Meets(req[h])
  BY DEF U!Fill, U!Busy
<1>2. /\ req[h].c \in Clients /\ req[h] \in Requests /\ p \in Paths /\ i \in U!Inodes
  BY <1>1, WorksOn
<1>3. \/ /\ file' = [file EXCEPT ![i] = U!Put(@, 0, req[h].c)]
         /\ GoesOn(h, "refresh") /\ up' = up /\ U!Lands(req[h])
      \/ /\ up[req[h].c].by # h /\ UNCHANGED <<file, accepted, raced>> /\ U!Answer(h, "error")
  BY <1>1, GoesIs DEF U!Fill
<1>4. /\ up' \in [Clients -> Managers] /\ req' \in [Handlers -> Requests \cup {U!Idle}]
      /\ Steady /\ SentOK' /\ WorkOK'
      /\ \A d \in Clients \ {req[h].c} : up'[d] = up[d]
      /\ \A k \in Handlers \ {h} : req'[k] = req[k]
      /\ U!Busy(h)' => req'[h].c = req[h].c /\ req'[h].fd = req[h].fd /\ req'[h].path = req[h].path
      /\ GoesOn(h, "refresh") /\ up' = up =>
           U!Busy(h)' /\ req'[h].at = "refresh" /\ req'[h].kind = req[h].kind
  <2>1. CASE U!Answer(h, "error") /\ ~(GoesOn(h, "refresh") /\ up' = up) BY <2>1, <1>1, Over
  <2>2. CASE GoesOn(h, "refresh") /\ up' = up
    <3>1. "refresh" \in Going BY DEF Going
    <3>2. i # U!None BY <1>2, Given
    <3> QED BY <3>1, <3>2, <2>2, <1>1, <1>2, Onward DEF GoesOn
  <2> QED BY <2>1, <2>2, <1>3
<1>5. file' \in [U!Inodes -> Seq(Pieces)]
      /\ \A j \in U!Inodes \ {i} : file'[j] = file[j]
  <2>1. file \in [U!Inodes -> Seq(Pieces)] BY DEF UInv, Typed
  <2>2. U!Put(file[i], 0, req[h].c) \in Seq(Pieces)
    BY <2>1, <1>2, PutIs DEF Written
  <2> QED BY <1>3, <2>1, <2>2
<1>6. mixed' \in [Clients -> BOOLEAN] BY <1>1, MeetsIs
<1>7. accepted' \in [Clients -> BOOLEAN] /\ raced' \in BOOLEAN
  <2>1. (raced \/ mixed[req[h].c] \/ ~accepted[req[h].c]) \in BOOLEAN OBVIOUS
  <2>2. accepted \in [Clients -> BOOLEAN] /\ raced \in BOOLEAN BY DEF UInv, Typed
  <2> QED BY <2>1, <2>2, <1>3 DEF U!Lands
<1>8. Typed' BY <1>1, <1>4, <1>5, <1>6, <1>7 DEF UInv, Typed
<1>9. OneHome'
  <2>1. ASSUME NEW k \in Handlers, U!Busy(k)', req'[k].fd # U!None
        PROVE  U!Busy(k) /\ req'[k].fd = req[k].fd /\ req'[k].path = req[k].path
    BY <2>1, <1>1, <1>4 DEF U!Busy
  <2> QED BY <2>1, <1>1, HomesKept DEF UInv
<1>10. \A q \in Paths \ {p} :
         /\ temp[q] # U!None => file'[temp[q]] = file[temp[q]]
         /\ dest[q] \in U!Inodes => file'[dest[q]] = file[dest[q]]
  <2>1. \A q \in Paths \ {p} : temp[q] # i /\ dest[q] # i BY <1>1, <1>2, OpenIs
  <2> QED BY <2>1, <1>5 DEF UInv, Typed
<1>11. Touches(h) BY <1>1, <1>4, <1>8, <1>9, <1>10 DEF UInv, Touches
<1> QED BY <1>1, <1>2, <1>3, <1>4, <1>11

(* A folder is made.                                                           *)
LEMMA TouchFolder ==
  ASSUME UInv, NEW h \in Handlers, U!WriteDirectory(h)
  PROVE  /\ Touches(h)
         /\ up' = up /\ UNCHANGED <<temp, file, removing, indexed, owed, accepted, raced>>
         /\ U!Busy(h) /\ req[h].kind = "folder" /\ dest'[req[h].path] = U!Folder
         /\ U!Busy(h)' /\ req'[h].kind = "folder" /\ req'[h].at = "refresh"
<1> DEFINE p == req[h].path
<1>1. /\ U!Busy(h) /\ req[h].at = "open" /\ req[h].kind = "folder"
      /\ UNCHANGED <<up, temp, file, removing, indexed, owed, oneVolume, mishaps, again, accepted, raced>>
      /\ U!Meets(req[h]) /\ dest' = [dest EXCEPT ![p] = U!Folder]
  BY DEF U!WriteDirectory, U!Busy
<1>2. /\ req[h].c \in Clients /\ req[h] \in Requests /\ p \in Paths
  BY <1>1, WorksOn
<1>3. GoesOn(h, "refresh") BY <1>1, GoesIs DEF U!WriteDirectory
<1>4. /\ up' \in [Clients -> Managers] /\ req' \in [Handlers -> Requests \cup {U!Idle}]
      /\ Steady /\ SentOK' /\ WorkOK'
      /\ \A k \in Handlers \ {h} : req'[k] = req[k]
      /\ U!Busy(h)' /\ req'[h].at = "refresh" /\ req'[h].kind = "folder"
      /\ req'[h].c = req[h].c /\ req'[h].fd = req[h].fd /\ req'[h].path = req[h].path
  <2>1. "refresh" \in Going BY DEF Going
  <2>2. req[h].fd = U!None BY <1>1 DEF UInv, WorkOK
  <2> QED BY <1>1, <1>3, <2>1, <2>2, Onward DEF GoesOn
<1>5. /\ dest' \in [Paths -> U!Inodes \cup {U!None, U!Folder}] /\ dest'[p] = U!Folder
      /\ \A q \in Paths \ {p} : dest'[q] = dest[q]
  BY <1>1, <1>2 DEF UInv, Typed
<1>6. mixed' \in [Clients -> BOOLEAN] BY <1>1, MeetsIs
<1>7. Typed' BY <1>1, <1>4, <1>5, <1>6 DEF UInv, Typed
<1>8. OneHome'
  <2>1. ASSUME NEW k \in Handlers, U!Busy(k)', req'[k].fd # U!None
        PROVE  U!Busy(k) /\ req'[k].fd = req[k].fd /\ req'[k].path = req[k].path
    BY <2>1, <1>1, <1>4 DEF U!Busy
  <2>2. temp'[p] = U!None \/ Own(temp'[p], p) BY <1>1, <1>2, Owned
  <2>3. dest'[p] \notin U!Inodes BY <1>5, Given
  <2> QED BY <1>1, <1>2, <1>5, <2>1, <2>2, <2>3, HomesMove
<1>9. Touches(h) BY <1>1, <1>4, <1>5, <1>7, <1>8 DEF UInv, Touches
<1> QED BY <1>1, <1>4, <1>5, <1>9

(* The index is refreshed, and the request answered.                               *)
LEMMA TouchRefresh ==
  ASSUME UInv, NEW h \in Handlers, U!RefreshAndAnswer(h)
  PROVE  /\ Touches(h)
         /\ UNCHANGED <<temp, dest, file, removing, owed, mixed, accepted, raced>>
         /\ U!Busy(h) /\ req[h].at = "refresh" /\ U!Answer(h, "ok") /\ indexed' = U!Used
<1>1. /\ U!Busy(h) /\ req[h].at = "refresh" /\ U!Answer(h, "ok") /\ indexed' = U!Used
      /\ UNCHANGED <<temp, dest, file, removing, owed, oneVolume, mishaps, mixed, again, accepted, raced>>
  BY DEF U!RefreshAndAnswer, U!Busy, U!history
<1>2. /\ up' \in [Clients -> Managers] /\ req' \in [Handlers -> Requests \cup {U!Idle}]
      /\ Steady /\ SentOK' /\ WorkOK'
      /\ \A d \in Clients \ {req[h].c} : up'[d] = up[d]
      /\ ~U!Busy(h)' /\ \A k \in Handlers \ {h} : req'[k] = req[k]
  BY <1>1, Over
<1>3. OneHome'
  <2>1. ASSUME NEW k \in Handlers, U!Busy(k)', req'[k].fd # U!None
        PROVE  U!Busy(k) /\ req'[k].fd = req[k].fd /\ req'[k].path = req[k].path
    BY <2>1, <1>2 DEF U!Busy
  <2> QED BY <2>1, <1>1, HomesKept DEF UInv
<1>4. indexed' \in Nat BY <1>1, UsedIs DEF UInv
<1>5. Typed' BY <1>1, <1>2, <1>4 DEF UInv, Typed
<1> QED BY <1>1, <1>2, <1>3, <1>5 DEF UInv, Touches

(* Each step of the server touches no more.                                        *)
LEMMA ServeTouches ==
  ASSUME UInv, NEW h \in Handlers, U!Serve(h)
  PROVE  Touches(h)
<1>1. \/ U!Check(h) \/ U!OpenTemp(h) \/ U!WriteChunk(h) \/ U!MoveFile(h)
      \/ U!Truncate(h) \/ U!Fill(h) \/ U!WriteDirectory(h) \/ U!RefreshAndAnswer(h)
  BY DEF U!Serve
<1> QED BY <1>1, TouchCheck, TouchOpen, TouchWrite, TouchMove, TouchTruncate, TouchFill, TouchFolder,
           TouchRefresh

(* The goroutine of MoveFile removes the temporary file.                            *)
LEMMA RemoveIs ==
  ASSUME UInv, NEW p \in Paths, U!RemoveTemp(p)
  PROVE  /\ UInv' /\ removing[p] > 0
         /\ temp'[p] = U!None /\ \A q \in Paths \ {p} : temp'[q] = temp[q] /\ removing'[q] = removing[q]
         /\ UNCHANGED <<up, req, dest, file, indexed, owed, mixed, again, accepted, raced>>
<1>1. /\ removing[p] > 0
      /\ removing' = [removing EXCEPT ![p] = @ - 1] /\ temp' = [temp EXCEPT ![p] = U!None]
      /\ UNCHANGED <<up, req, dest, file, indexed, owed, oneVolume, mishaps, mixed, again, accepted, raced>>
  BY DEF U!RemoveTemp, U!history
<1>2. temp'[p] = U!None /\ \A q \in Paths \ {p} : temp'[q] = temp[q] /\ removing'[q] = removing[q]
  BY <1>1 DEF UInv, Typed
<1>3. temp' \in [Paths -> U!Inodes \cup {U!None}]
  <2>1. temp \in [Paths -> U!Inodes \cup {U!None}] BY DEF UInv, Typed
  <2> QED BY <1>1, <2>1
<1>4. removing' \in [Paths -> Nat]
  <2>1. removing \in [Paths -> Nat] BY DEF UInv, Typed
  <2>2. removing[p] - 1 \in Nat BY <1>1, <2>1
  <2> QED BY <1>1, <2>1, <2>2
<1>5. Typed' BY <1>1, <1>3, <1>4 DEF UInv, Typed
<1>6. SentOK' /\ WorkOK'
  BY <1>1 DEF UInv, SentOK, WorkOK, U!Busy, U!LastChunk
<1>7. OneHome'
  <2>1. dest'[p] \notin U!Inodes \/ (Own(dest'[p], p) /\ dest'[p] # temp'[p])
    BY <1>1, <1>2, Owned, Given
  <2> QED BY <1>1, <1>2, <2>1, HomesMove DEF U!Busy
<1> QED BY <1>1, <1>2, <1>5, <1>6, <1>7 DEF UInv

(* What is at a path is deleted.                                                  *)
LEMMA DeleteIs ==
  ASSUME UInv, NEW p \in Paths, U!DeleteFiles(p)
  PROVE  /\ UInv'
         /\ dest'[p] = U!None /\ \A q \in Paths \ {p} : dest'[q] = dest[q]
         /\ mixed' = [c \in Clients |-> mixed[c] \/ up[c].path = p] /\ owed' = TRUE
         /\ UNCHANGED <<up, req, temp, file, removing, again, accepted, raced>>
<1>1. /\ mishaps' = mishaps + 1 /\ dest' = [dest EXCEPT ![p] = U!None] /\ owed' = TRUE
      /\ indexed' = indexed - (IF indexed < U!Length(p) THEN indexed ELSE U!Length(p))
      /\ mixed' = [c \in Clients |-> mixed[c] \/ up[c].path = p]
      /\ UNCHANGED <<up, req, temp, file, removing, oneVolume, again, accepted, raced>>
  BY DEF U!DeleteFiles, U!Mishap
<1>2. dest' \in [Paths -> U!Inodes \cup {U!None, U!Folder}] /\ dest'[p] = U!None
      /\ \A q \in Paths \ {p} : dest'[q] = dest[q]
  BY <1>1 DEF UInv, Typed
<1>3. indexed' \in Nat /\ mishaps' \in Nat
  <2>1. indexed \in Nat /\ mishaps \in Nat /\ U!Length(p) \in Nat
    BY LengthIs DEF UInv, Typed
  <2> QED BY <2>1, <1>1
<1>4. mixed' \in [Clients -> BOOLEAN]
  <2>1. \A c \in Clients : (mixed[c] \/ up[c].path = p) \in BOOLEAN OBVIOUS
  <2> QED BY <2>1, <1>1
<1>5. Typed' BY <1>1, <1>2, <1>3, <1>4 DEF UInv, Typed
<1>6. SentOK' /\ WorkOK'
  BY <1>1 DEF UInv, SentOK, WorkOK, U!Busy, U!LastChunk
<1>7. OneHome'
  <2>1. dest'[p] \notin U!Inodes BY <1>2, Given
  <2>2. temp'[p] = U!None \/ Own(temp'[p], p) BY <1>1, Owned
  <2> QED BY <1>1, <1>2, <2>1, <2>2, HomesMove DEF U!Busy
<1> QED BY <1>1, <1>2, <1>5, <1>6, <1>7 DEF UInv

(* The server starts anew.                                                       *)
LEMMA RestartIs ==
  ASSUME UInv, U!Restart
  PROVE  /\ UInv'
         /\ \A h \in Handlers : ~U!Busy(h)' /\ req'[h] = U!Idle
         /\ \A c \in Clients :
              /\ up'[c].path = up[c].path /\ up'[c].kind = up[c].kind /\ up'[c].size = up[c].size
              /\ up'[c].off = up[c].off
              /\ up'[c].at = IF up[c].at = "sending" THEN "error" ELSE up[c].at
         /\ \A p \in Paths : removing'[p] = 0
         /\ indexed' = U!Used /\ owed' = FALSE
         /\ UNCHANGED <<temp, dest, file, mixed, again, accepted, raced>>
<1>1. /\ mishaps' = mishaps + 1 /\ req' = [h \in Handlers |-> U!Idle]
      /\ up' = [c \in Clients |-> IF up[c].at = "sending"
              THEN [up[c] EXCEPT !.at = "error", !.by = U!None] ELSE up[c]]
      /\ removing' = [p \in Paths |-> 0]
      /\ indexed' = U!Used /\ owed' = FALSE
      /\ UNCHANGED <<temp, dest, file, oneVolume, mixed, again, accepted, raced>>
  BY DEF U!Restart, U!Mishap, U!history
<1>2. \A h \in Handlers : ~U!Busy(h)' /\ req'[h] = U!Idle BY <1>1 DEF U!Busy, U!Idle
<1>3. ASSUME NEW c \in Clients
      PROVE  /\ up'[c] \in Managers /\ up'[c].at # "sending"
             /\ up'[c].path = up[c].path /\ up'[c].kind = up[c].kind /\ up'[c].size = up[c].size
             /\ up'[c].off = up[c].off
             /\ up'[c].at = IF up[c].at = "sending" THEN "error" ELSE up[c].at
  <2>1. up[c] \in Managers BY DEF UInv, Typed
  <2>2. CASE up[c].at = "sending"
    <3>1. up'[c] = [up[c] EXCEPT !.at = "error", !.by = U!None] BY <1>1, <2>2
    <3>2. "error" \in U!Waiting BY DEF U!Waiting
    <3> QED BY <2>1, <2>2, <3>1, <3>2 DEF Managers
  <2>3. CASE up[c].at # "sending"
    <3>1. up'[c] = up[c] BY <1>1, <2>3
    <3> QED BY <2>1, <2>3, <3>1
  <2> QED BY <2>2, <2>3
<1>4. up' \in [Clients -> Managers] BY <1>1, <1>3
<1>5. req' \in [Handlers -> Requests \cup {U!Idle}] /\ removing' \in [Paths -> Nat] BY <1>1
<1>6. indexed' \in Nat /\ mishaps' \in Nat
  <2>1. mishaps \in Nat BY DEF UInv, Typed
  <2>2. mishaps' = mishaps + 1 /\ indexed' = U!Used BY <1>1
  <2>3. mishaps' \in Nat BY <2>1, <2>2
  <2>4. indexed' \in Nat BY <2>2, UsedIs, Zenon DEF UInv
  <2> QED BY <2>3, <2>4
<1>7. Typed' BY <1>1, <1>4, <1>5, <1>6 DEF UInv, Typed
<1>8. SentOK' BY <1>3 DEF UInv, SentOK
<1>9. WorkOK' BY <1>2 DEF WorkOK
<1>10. OneHome' BY <1>1, <1>2, HomesKept DEF UInv
<1>11. \A p \in Paths : removing'[p] = 0 BY <1>1
<1> QED BY <1>1, <1>2, <1>3, <1>7, <1>8, <1>9, <1>10, <1>11 DEF UInv

(* The goroutine that refreshes the index.                                        *)
LEMMA RefreshIs ==
  ASSUME UInv, U!RefreshIndex
  PROVE  /\ UInv' /\ indexed' = U!Used
         /\ UNCHANGED <<up, req, temp, dest, file, removing, mixed, again, accepted, raced>>
<1>1. /\ indexed' = U!Used /\ owed' = FALSE
      /\ UNCHANGED <<up, req, temp, dest, file, removing, oneVolume, mishaps, mixed, again, accepted, raced>>
  BY DEF U!RefreshIndex, U!history
<1>2. indexed' \in Nat BY <1>1, UsedIs DEF UInv
<1>3. Typed' BY <1>1, <1>2 DEF UInv, Typed
<1>4. SentOK' /\ WorkOK' /\ OneHome'
  BY <1>1 DEF UInv, SentOK, WorkOK, OneHome, U!Busy, U!LastChunk
<1> QED BY <1>1, <1>3, <1>4 DEF UInv

(* Before the first request.                                                    *)
LEMMA UploadsStart == U!Init => UInv
<1> SUFFICES ASSUME U!Init PROVE UInv OBVIOUS
<1>1. PICK plan \in Plans :
        up = [c \in Clients |-> [at |-> "pending", path |-> plan[c].path,
               kind |-> plan[c].kind, size |-> plan[c].size, off |-> 0,
               over |-> FALSE, by |-> U!None]]
  BY DEF U!Init
<1>2. /\ req = [h \in Handlers |-> U!Idle] /\ temp = [p \in Paths |-> U!None]
      /\ dest = [p \in Paths |-> U!None] /\ file = [i \in U!Inodes |-> << >>]
      /\ removing = [p \in Paths |-> 0] /\ indexed = 0 /\ owed = FALSE /\ mishaps = 0
      /\ oneVolume \in Volumes
      /\ mixed = [c \in Clients |-> FALSE] /\ again = [c \in Clients |-> FALSE]
      /\ accepted = [c \in Clients |-> FALSE] /\ raced = FALSE
  BY DEF U!Init
<1>3. /\ plan \in [Clients -> [path : Paths, kind : U!Kinds, size : Nat \ {0}]]
      /\ \A c \in Clients : plan[c].kind # "chunks" => plan[c].size = 1
      /\ Volumes \subseteq BOOLEAN
  BY FilesAssumption DEF U!UploadsAssumption
<1>4. ASSUME NEW c \in Clients
      PROVE  /\ up[c] \in Managers /\ up[c].at = "pending" /\ up[c].off = 0
             /\ up[c].kind = plan[c].kind /\ up[c].size = plan[c].size /\ plan[c].size \in Nat \ {0}
  <2>1. up[c] = [at |-> "pending", path |-> plan[c].path, kind |-> plan[c].kind,
                 size |-> plan[c].size, off |-> 0, over |-> FALSE, by |-> U!None]
    BY <1>1
  <2>2. plan[c] \in [path : Paths, kind : U!Kinds, size : Nat \ {0}] BY <1>3
  <2>3. "pending" \in U!Waiting BY DEF U!Waiting
  <2> QED BY <2>1, <2>2, <2>3 DEF Managers
<1>5. up \in [Clients -> Managers] BY <1>1, <1>4
<1>6. file \in [U!Inodes -> Seq(Pieces)]
  <2>1. << >> \in Seq(Pieces) OBVIOUS
  <2> QED BY <2>1, <1>2
<1>7. Typed BY <1>2, <1>3, <1>5, <1>6 DEF Typed
<1>8. SentOK BY <1>3, <1>4 DEF SentOK
<1>9. \A h \in Handlers : ~U!Busy(h) BY <1>2 DEF U!Busy, U!Idle
<1>10. WorkOK BY <1>9 DEF WorkOK
<1>11. OneHome
  <2>1. \A p \in Paths : temp[p] = U!None /\ dest[p] \notin U!Inodes BY <1>2, Given
  <2> QED BY <2>1, <1>9 DEF OneHome
<1> QED BY <1>7, <1>8, <1>10, <1>11 DEF UInv

-------------------------------------------------------------------------------
(* What is whole.                                                              *)

Path(c) == up[c].path
Lone(c) == ~mixed[c] /\ ~again[c]
AtLast(c) == up[c].off + 1 >= up[c].size

\* The temporary file is no longer than what is sent, as long as nobody else
\* works on the path.
Within(c) ==
  ~mixed[c] /\ temp[Path(c)] # U!None => Len(file[temp[Path(c)]]) <= up[c].size

\* The first n chunks are in the temporary file.
Holds(c, n) ==
  /\ temp[Path(c)] # U!None /\ n <= Len(file[temp[Path(c)]])
  /\ \A i \in 1 .. n : file[temp[Path(c)]][i] = c

\* All of it is at its path.
Arrived(c) == dest[Path(c)] \in U!Inodes /\ file[dest[Path(c)]] = U!Sent(c)

\* An upload in chunks: what was answered is in the temporary file; only one
\* request may be about to move it, and none while the browser waits for another.
Chunked(c) ==
  /\ (up[c].at \in {"between", "sending", "paused"} /\ ~(up[c].at = "paused" /\ AtLast(c))
      /\ up[c].off > 0) => Holds(c, up[c].off)
  /\ up[c].at = "sending" =>
       /\ req[up[c].by].at = "write" => req[up[c].by].fd = temp[Path(c)]
       /\ req[up[c].by].at = "move" => Holds(c, up[c].size)
  /\ \A h \in Handlers : U!Busy(h) /\ req[h].c = c /\ U!LastChunk(req[h]) =>
       \/ up[c].at = "sending" /\ up[c].by = h
       \/ up[c].at \in {"error", "gone"}
       \/ up[c].at = "paused" /\ AtLast(c)
  /\ removing[Path(c)] > 0 =>
       up[c].at \in {"error", "gone", "done"} \/ (up[c].at = "paused" /\ AtLast(c))
  /\ up[c].at = "done" => Arrived(c)

\* A file in one piece: nothing but the request the browser waits for may write.
Single(c) ==
  /\ \A h \in Handlers : U!Busy(h) /\ req[h].c = c =>
       \/ up[c].at = "sending" /\ up[c].by = h
       \/ up[c].at \in {"error", "gone", "paused"}
  /\ up[c].at = "sending" =>
       /\ req[up[c].by].at = "write" =>
            dest[Path(c)] = req[up[c].by].fd /\ file[req[up[c].by].fd] = << >>
       /\ req[up[c].by].at = "refresh" => Arrived(c)
  /\ up[c].at = "done" => Arrived(c)

Each(c) ==
  /\ Within(c)
  /\ Lone(c) /\ up[c].kind = "chunks" => Chunked(c)
  /\ Lone(c) /\ up[c].kind \in {"plain", "save"} => Single(c)

WholeInv == \A c \in Clients : Each(c)

\* A step that leaves a client, its requests and its path alone.
Spared(d) ==
  /\ up'[d] = up[d] /\ (mixed[d] => mixed'[d]) /\ (again[d] => again'[d])
  /\ \A k \in Handlers : /\ U!Busy(k)' /\ req'[k].c = d => U!Busy(k)
                         /\ U!Busy(k) /\ req[k].c = d => req'[k] = req[k]
                         /\ U!Busy(k)' /\ req'[k].c = d => req'[k] = req[k]
  /\ temp'[Path(d)] = temp[Path(d)] /\ dest'[Path(d)] = dest[Path(d)]
  /\ removing'[Path(d)] = removing[Path(d)]
  /\ temp[Path(d)] # U!None => file'[temp[Path(d)]] = file[temp[Path(d)]]
  /\ dest[Path(d)] \in U!Inodes => file'[dest[Path(d)]] = file[dest[Path(d)]]

(* What is spared is as whole as it was.                                          *)
LEMMA SparedIs ==
  ASSUME UInv, NEW d \in Clients, Spared(d), Each(d)
  PROVE  Each(d)'
<1>1. Path(d)' = Path(d) /\ Path(d) \in Paths /\ up'[d] = up[d]
  BY DEF Path, Spared, UInv, Typed, Managers
<1>2. /\ temp'[Path(d)] = temp[Path(d)] /\ dest'[Path(d)] = dest[Path(d)]
      /\ removing'[Path(d)] = removing[Path(d)]
      /\ temp[Path(d)] # U!None => file'[temp[Path(d)]] = file[temp[Path(d)]]
      /\ dest[Path(d)] \in U!Inodes => file'[dest[Path(d)]] = file[dest[Path(d)]]
      /\ (mixed[d] => mixed'[d]) /\ (again[d] => again'[d])
  BY DEF Spared
<1>3. Lone(d)' => Lone(d) BY <1>2 DEF Lone
<1>4. Within(d)' BY <1>1, <1>2 DEF Each, Within
<1>5. \A n \in Nat : Holds(d, n) => Holds(d, n)'
  BY <1>1, <1>2 DEF Holds
<1>6. U!Sent(d)' = U!Sent(d) BY <1>1 DEF U!Sent
<1>7. Arrived(d) => Arrived(d)' BY <1>1, <1>2, <1>6 DEF Arrived
<1>8. AtLast(d)' = AtLast(d) BY <1>1 DEF AtLast
<1>9. up[d].at = "sending" =>
        /\ up[d].by \in Handlers /\ U!Busy(up[d].by) /\ req'[up[d].by] = req[up[d].by]
  BY DEF UInv, SentOK, Spared
<1>10. up[d].off \in Nat /\ up[d].size \in Nat BY DEF UInv, Typed, Managers
<1>11. ASSUME NEW k \in Handlers, U!Busy(k)', req'[k].c = d
       PROVE  U!Busy(k) /\ req'[k] = req[k]
  BY <1>11 DEF Spared
<1>12. Lone(d)' /\ up'[d].kind = "chunks" => Chunked(d)'
  <2> SUFFICES ASSUME Lone(d)', up'[d].kind = "chunks" PROVE Chunked(d)' OBVIOUS
  <2>1. Chunked(d) BY <1>1, <1>3 DEF Each
  <2>2. (up'[d].at \in {"between", "sending", "paused"} /\ ~(up'[d].at = "paused" /\ AtLast(d)')
         /\ up'[d].off > 0) => Holds(d, up[d].off)'
    BY <2>1, <1>1, <1>5, <1>8, <1>10 DEF Chunked
  <2>3. up[d].at = "sending" =>
       /\ req'[up[d].by].at = "write" => req'[up[d].by].fd = temp'[Path(d)]
       /\ req'[up[d].by].at = "move" => Holds(d, up[d].size)'
    BY <2>1, <1>1, <1>2, <1>5, <1>9, <1>10 DEF Chunked
  <2>4. \A h \in Handlers : U!Busy(h)' /\ req'[h].c = d /\ U!LastChunk(req[h]) =>
       \/ up[d].at = "sending" /\ up[d].by = h
       \/ up[d].at \in {"error", "gone"}
       \/ up[d].at = "paused" /\ AtLast(d)
    BY <2>1, <1>11 DEF Chunked
  <2>5. removing'[Path(d)] > 0 =>
       up[d].at \in {"error", "gone", "done"} \/ (up[d].at = "paused" /\ AtLast(d))
    BY <2>1, <1>2 DEF Chunked
  <2>6. up[d].at = "done" => Arrived(d)' BY <2>1, <1>7 DEF Chunked
  <2>7. \A h \in Handlers : U!Busy(h)' /\ req'[h].c = d /\ U!LastChunk(req'[h]) =>
       U!LastChunk(req[h])
    BY <1>11
  <2> QED BY <2>2, <2>3, <2>4, <2>5, <2>6, <2>7, <1>1, <1>8 DEF Chunked
<1>13. Lone(d)' /\ up'[d].kind \in {"plain", "save"} => Single(d)'
  <2> SUFFICES ASSUME Lone(d)', up'[d].kind \in {"plain", "save"} PROVE Single(d)' OBVIOUS
  <2>1. Single(d) BY <1>1, <1>3 DEF Each
  <2>2. \A h \in Handlers : U!Busy(h)' /\ req'[h].c = d =>
       \/ up[d].at = "sending" /\ up[d].by = h
       \/ up[d].at \in {"error", "gone", "paused"}
    BY <2>1, <1>11 DEF Single
  <2>3. up[d].at = "sending" => up[d].by \in Handlers /\ U!Busy(up[d].by) /\ req[up[d].by].c = d
    BY DEF UInv, SentOK
  <2>4. up[d].at = "sending" =>
       /\ req'[up[d].by].at = "write" =>
            dest'[Path(d)] = req'[up[d].by].fd /\ file'[req'[up[d].by].fd] = << >>
       /\ req'[up[d].by].at = "refresh" => Arrived(d)'
    <3> SUFFICES ASSUME up[d].at = "sending"
                 PROVE  /\ req[up[d].by].at = "write" =>
                             dest'[Path(d)] = req[up[d].by].fd /\ file'[req[up[d].by].fd] = << >>
                        /\ req[up[d].by].at = "refresh" => Arrived(d)'
      BY <1>9
    <3>1. req[up[d].by].at = "write" => req[up[d].by].fd \in U!Inodes
      BY <2>3, <1>1, WorksOn
    <3> QED BY <2>1, <3>1, <1>2, <1>7 DEF Single
  <2>5. up[d].at = "done" => Arrived(d)' BY <2>1, <1>7 DEF Single
  <2> QED BY <2>2, <2>4, <2>5, <1>1 DEF Single
<1> QED BY <1>4, <1>12, <1>13 DEF Each

(* A step of the server spares the other clients, or has met them.                  *)
LEMMA OthersSpared ==
  ASSUME UInv, NEW h \in Handlers, U!Busy(h), Touches(h), NEW d \in Clients, d # req[h].c, Each(d)
  PROVE  Each(d)'
<1>1. up'[d] = up[d] /\ Path(d) \in Paths /\ Path(d)' = Path(d)
  BY DEF Touches, Path, UInv, Typed, Managers
<1>2. CASE mixed'[d] 
  BY <1>1, <1>2 DEF Each, Within, Lone
<1>3. CASE ~mixed'[d]
  <2>1. CASE Path(d) # req[h].path
    <3>1. mixed[d] => mixed'[d] BY MeetsIs DEF Touches
    <3>2. Spared(d)
      <4>1. /\ temp'[Path(d)] = temp[Path(d)] /\ dest'[Path(d)] = dest[Path(d)]
            /\ removing'[Path(d)] = removing[Path(d)]
            /\ temp[Path(d)] # U!None => file'[temp[Path(d)]] = file[temp[Path(d)]]
            /\ dest[Path(d)] \in U!Inodes => file'[dest[Path(d)]] = file[dest[Path(d)]]
        BY <1>1, <2>1 DEF Touches
      <4>2. \A k \in Handlers : U!Busy(k) /\ req[k].c = d => req'[k] = req[k]
        BY DEF Touches
      <4>3. \A k \in Handlers : U!Busy(k)' /\ req'[k].c = d => U!Busy(k) /\ req'[k] = req[k]
        BY DEF Touches, U!Busy
      <4> QED BY <1>1, <3>1, <4>1, <4>2, <4>3 DEF Spared, Touches
    <3> QED BY <3>2, SparedIs
  <2>2. CASE Path(d) = req[h].path
    <3>1. ~U!Meets(req[h]) BY <2>2, <1>3, MeetsIs DEF Path
    <3>2. UNCHANGED <<temp, dest, file, removing, mixed>> BY <3>1 DEF Touches
    <3>3. Spared(d)
      <4>2. \A k \in Handlers : U!Busy(k) /\ req[k].c = d => req'[k] = req[k]
        BY DEF Touches
      <4>3. \A k \in Handlers : U!Busy(k)' /\ req'[k].c = d => U!Busy(k) /\ req'[k] = req[k]
        BY DEF Touches, U!Busy
      <4> QED BY <1>1, <3>2, <4>2, <4>3 DEF Spared, Touches
    <3> QED BY <3>3, SparedIs
  <2> QED BY <2>1, <2>2
<1> QED BY <1>2, <1>3

(* A browser sends a request: an upload that counts as alone has none on the way      *)
(* that could end it, and what was answered is still there.                        *)
LEMMA SendsAlone ==
  ASSUME UInv, NEW c \in Clients, NEW h \in Handlers, Sends(c, h), Each(c), Lone(c)',
         up[c].kind # "folder"
  PROVE  /\ Lone(c)
         /\ up[c].kind = "chunks" => /\ ~(removing[Path(c)] > 0)
                                     /\ up'[c].off > 0 => Holds(c, up[c].off) /\ up'[c].off = up[c].off
         /\ \A k \in Handlers : U!Busy(k) /\ req[k].c = c =>
              up[c].kind = "chunks" /\ ~U!LastChunk(req[k])
<1>1. Lone(c) /\ up[c].at \in {"pending", "between", "paused", "error", "conflict"}
  BY SendsIs DEF Lone
<1>2. PICK off \in Nat, over \in BOOLEAN :
        /\ off < up[c].size /\ U!Request(c, h, off, over)
        /\ up[c].at \in {"between", "paused"} => off = up[c].off
        /\ up[c].at \in {"pending", "error", "conflict"} => off = 0
  BY SendsIs
<1>3. up'[c].off = off
  <2>1. UNCHANGED <<temp, dest>> BY SendsIs
  <2> QED BY <1>1, <1>2, <2>1, Asks
<1>4. up[c].kind \in {"chunks", "plain", "save"}
  BY DEF UInv, Typed, Managers, U!Kinds
<1>5. CASE up[c].at \in {"pending", "between"}
  <2>1. CASE up[c].kind = "chunks"
    <3>1. Chunked(c) BY <2>1, <1>1 DEF Each
    <3>2. ~(removing[Path(c)] > 0) /\ \A k \in Handlers : U!Busy(k) /\ req[k].c = c => ~U!LastChunk(req[k])
      BY <1>5, <3>1 DEF Chunked
    <3>3. off > 0 => Holds(c, up[c].off) /\ off = up[c].off BY <1>2, <1>5, <3>1 DEF Chunked
    <3> QED BY <3>2, <3>3, <2>1, <1>1, <1>3
  <2>2. CASE up[c].kind \in {"plain", "save"}
    <3>1. Single(c) BY <2>2, <1>1 DEF Each
    <3> QED BY <3>1, <1>1, <1>5, <2>2 DEF Single
  <2> QED BY <2>1, <2>2, <1>4
<1>6. CASE up[c].at \in {"paused", "error", "conflict"}
  <2>1. U!Resume(c, h) \/ U!Retry(c, h)
    BY <1>6 DEF Sends, U!Start, U!Continue
  <2>2. ~U!Twin(c) /\ (up[c].at = "paused" => ~(up[c].kind = "chunks" /\ U!LastChunk(up[c])))
    <3>1. ~again'[c] /\ again \in [Clients -> BOOLEAN] BY DEF Lone, UInv, Typed
    <3>2. CASE U!Resume(c, h)
      <4>1. again' = [again EXCEPT ![c] = @ \/ U!Twin(c) \/ (up[c].kind = "chunks" /\ U!LastChunk(up[c]))]
        BY <3>2 DEF U!Resume
      <4> QED BY <4>1, <3>1
    <3>3. CASE U!Retry(c, h)
      <4>1. again' = [again EXCEPT ![c] = @ \/ U!Twin(c)] /\ up[c].at # "paused"
        BY <3>3 DEF U!Retry
      <4> QED BY <4>1, <3>1
    <3> QED BY <3>2, <3>3, <2>1
  <2>3. ~(removing[Path(c)] > 0)
        /\ \A k \in Handlers : U!Busy(k) /\ req[k].c = c =>
             up[c].kind = "chunks" /\ ~U!LastChunk(req[k])
    BY <2>2 DEF U!Twin, Path
  <2>4. up[c].kind = "chunks" /\ off > 0 => Holds(c, up[c].off) /\ off = up[c].off
    <3> SUFFICES ASSUME up[c].kind = "chunks", off > 0
                 PROVE  Holds(c, up[c].off) /\ off = up[c].off
      OBVIOUS
    <3>1. up[c].at = "paused" /\ off = up[c].off BY <1>2, <1>6
    <3>2. ~AtLast(c) BY <2>2, <3>1 DEF AtLast, U!LastChunk
    <3>3. Chunked(c) BY <1>1 DEF Each
    <3> QED BY <3>1, <3>2, <3>3 DEF Chunked
  <2> QED BY <2>3, <2>4, <1>1, <1>3
<1> QED BY <1>1, <1>5, <1>6

(* What a browser sends leaves every upload as whole as it was.                     *)
LEMMA SendsWhole ==
  ASSUME UInv, WholeInv, NEW c \in Clients, NEW h \in Handlers, Sends(c, h)
  PROVE  WholeInv'
<1>1. /\ UNCHANGED <<temp, dest, file, removing>>
      /\ \A d \in Clients : (mixed[d] => mixed'[d]) /\ (again[d] => again'[d])
  BY SendsIs
<1>2. /\ \A k \in Handlers \ {h} : req'[k] = req[k]
      /\ \A d \in Clients \ {c} : up'[d] = up[d]
      /\ Steady /\ req'[h].c = c /\ req'[h].at = "arrived" /\ ~U!Busy(h)
      /\ up'[c].at = "sending" /\ up'[c].by = h
      /\ req'[h].off = up'[c].off /\ up'[c].off < up[c].size
  <2>1. PICK off \in Nat, over \in BOOLEAN : off < up[c].size /\ U!Request(c, h, off, over)
    BY SendsIs
  <2>2. up[c].at # "sending" BY SendsIs
  <2> QED BY <2>1, <2>2, <1>1, Asks
<1>3. ASSUME NEW d \in Clients, d # c
      PROVE  Each(d)'
  <2>1. \A k \in Handlers : (U!Busy(k) /\ req[k].c = d => req'[k] = req[k])
                         /\ (U!Busy(k)' /\ req'[k].c = d => U!Busy(k) /\ req'[k] = req[k])
    BY <1>2, <1>3 DEF U!Busy
  <2>2. Spared(d) BY <1>1, <1>2, <1>3, <2>1 DEF Spared
  <2> QED BY <2>2, SparedIs DEF WholeInv
<1>4. Each(c)'
  <2>1. /\ Path(c)' = Path(c) /\ up'[c].size = up[c].size /\ up'[c].kind = up[c].kind
    BY <1>2 DEF Path, Steady
  <2>2. Within(c)' BY <2>1, <1>1 DEF Within, WholeInv, Each
  <2>3. ASSUME Lone(c)', up'[c].kind = "chunks" PROVE Chunked(c)'
    <3>1. /\ ~(removing[Path(c)] > 0)
          /\ up'[c].off > 0 => Holds(c, up[c].off) /\ up'[c].off = up[c].off
          /\ \A k \in Handlers : U!Busy(k) /\ req[k].c = c => ~U!LastChunk(req[k])
      BY <2>1, <2>3, SendsAlone DEF WholeInv
    <3>2. up'[c].off > 0 => Holds(c, up[c].off)' BY <3>1, <2>1, <1>1 DEF Holds
    <3>3. \A k \in Handlers : U!Busy(k)' /\ req'[k].c = c /\ U!LastChunk(req'[k]) => k = h
      BY <3>1, <1>2 DEF U!Busy
    <3> QED BY <3>1, <3>2, <3>3, <1>1, <1>2, <2>1 DEF Chunked
  <2>4. ASSUME Lone(c)', up'[c].kind \in {"plain", "save"} PROVE Single(c)'
    <3>1. \A k \in Handlers : ~(U!Busy(k) /\ req[k].c = c)
      BY <2>1, <2>4, SendsAlone DEF WholeInv
    <3>2. \A k \in Handlers : U!Busy(k)' /\ req'[k].c = c => k = h
      BY <3>1, <1>2 DEF U!Busy
    <3> QED BY <3>2, <1>2 DEF Single
  <2> QED BY <2>2, <2>3, <2>4 DEF Each
<1> QED BY <1>3, <1>4 DEF WholeInv

(* A browser that turns away does too.                                            *)
LEMMA LeaveWhole ==
  ASSUME UInv, WholeInv, NEW c \in Clients, U!Leave(c)
  PROVE  WholeInv'
<1>1. /\ Steady /\ up[c].at = "sending" /\ up'[c].at \in {"paused", "error", "gone"}
      /\ up'[c].off = up[c].off /\ \A d \in Clients \ {c} : up'[d] = up[d]
      /\ UNCHANGED <<req, temp, dest, file, removing, mixed, again>>
  BY LeaveIs
<1>2. ASSUME NEW d \in Clients, d # c
      PROVE  Each(d)'
  <2>1. Spared(d) BY <1>1, <1>2 DEF Spared, U!Busy
  <2> QED BY <2>1, SparedIs DEF WholeInv
<1>3. Each(c)'
  <2>1. /\ Path(c)' = Path(c) /\ up'[c].size = up[c].size /\ up'[c].kind = up[c].kind
        /\ up'[c].off = up[c].off
    BY <1>1 DEF Path, Steady
  <2>2. Within(c)' BY <2>1, <1>1 DEF Within, WholeInv, Each
  <2>3. ASSUME Lone(c)', up'[c].kind = "chunks" PROVE Chunked(c)'
    <3>1. Chunked(c) BY <2>1, <2>3, <1>1 DEF Lone, WholeInv, Each
    <3>2. up[c].off > 0 => Holds(c, up[c].off)' BY <3>1, <2>1, <1>1 DEF Chunked, Holds
    <3>3. \A k \in Handlers : U!Busy(k)' /\ req'[k].c = c /\ U!LastChunk(req'[k]) =>
            up[c].by = k /\ U!LastChunk(req[k])
      BY <3>1, <1>1 DEF Chunked, U!Busy
    <3>4. \A k \in Handlers : up[c].by = k /\ U!LastChunk(req[k]) => AtLast(c)'
      <4>1. req[up[c].by].off = up[c].off /\ req[up[c].by].size = up[c].size
        <5>1. up[c].by \in Handlers /\ U!Busy(up[c].by) /\ req[up[c].by].c = c
              /\ req[up[c].by].off = up[c].off
          BY <1>1 DEF UInv, SentOK
        <5> QED BY <5>1, WorksOn
      <4> QED BY <4>1, <2>1 DEF AtLast, U!LastChunk
    <3>5. ~(removing[Path(c)] > 0) BY <3>1, <1>1 DEF Chunked
    <3>6. up'[c].at # "sending" /\ up'[c].at # "done" /\ up'[c].at # "between" BY <1>1
    <3> QED BY <3>2, <3>3, <3>4, <3>5, <3>6, <2>1, <1>1 DEF Chunked
  <2>4. ASSUME Lone(c)', up'[c].kind \in {"plain", "save"} PROVE Single(c)'
    BY <1>1 DEF Single
  <2> QED BY <2>2, <2>3, <2>4 DEF Each
<1> QED BY <1>2, <1>3 DEF WholeInv

\* The browser waits for the answer of this handler.
Awaited(h) == up[req[h].c].at = "sending" /\ up[req[h].c].by = h

(* What the client of a request is about, before and after a step of its handler.     *)
LEMMA OwnIs ==
  ASSUME UInv, NEW h \in Handlers, U!Busy(h), Touches(h), NEW c, c = req[h].c
  PROVE  /\ c \in Clients /\ Path(c) = req[h].path /\ Path(c) \in Paths /\ Path(c)' = Path(c)
         /\ up'[c].kind = up[c].kind /\ up'[c].size = up[c].size /\ up[c].size = req[h].size
         /\ req[h].kind = up[c].kind /\ up[c].size \in Nat \ {0} /\ up[c].off \in Nat
         /\ U!Sent(c)' = U!Sent(c)
         /\ Lone(c)' => Lone(c)
         /\ ~mixed'[c] => ~mixed[c]
         /\ Awaited(h) => req[h].off = up[c].off /\ up[c].at = "sending" /\ up[c].by = h
<1>1. /\ c \in Clients /\ Path(c) = req[h].path /\ Path(c) \in Paths
      /\ up[c].size = req[h].size /\ req[h].kind = up[c].kind
      /\ up[c].size \in Nat \ {0} /\ up[c].off \in Nat
  BY WorksOn DEF Path, Managers
<1>2. up'[c].path = up[c].path /\ up'[c].kind = up[c].kind /\ up'[c].size = up[c].size
  BY <1>1 DEF Touches, Steady
<1>3. U!Sent(c)' = U!Sent(c) BY <1>2 DEF U!Sent
<1>4. Lone(c)' => Lone(c) BY <1>1, MeetsIs DEF Touches, Lone
<1>5. ~mixed'[c] => ~mixed[c] BY <1>1, MeetsIs DEF Touches
<1>6. Awaited(h) => req[h].off = up[c].off /\ up[c].at = "sending" /\ up[c].by = h
  BY <1>1 DEF Awaited, UInv, SentOK
<1>7. Path(c)' = Path(c) BY <1>2 DEF Path
<1> QED BY <1>1, <1>2, <1>3, <1>4, <1>5, <1>6, <1>7

\* The request of a handler is over, or still the same one.
SameRequest(h) ==
  U!Busy(h)' => req'[h].off = req[h].off /\ req'[h].size = req[h].size

\* What is in the temporary file stays there.
Stays(c) ==
  /\ \A n \in Nat \ {0} : Holds(c, n) => Holds(c, n)'
  /\ temp[Path(c)] # U!None => temp'[Path(c)] = temp[Path(c)]
  /\ removing'[Path(c)] = removing[Path(c)]

(* A request nobody waits for: the upload is as whole as it was if what was answered   *)
(* stays, or if nothing will be made of it.                                      *)
LEMMA StaleChunk ==
  ASSUME UInv, NEW h \in Handlers, U!Busy(h), Touches(h), SameRequest(h), ~Awaited(h),
         NEW c \in Clients, c = req[h].c, Chunked(c), up'[c] = up[c],
         Stays(c) \/ up[c].at \in {"error", "gone"} \/ (up[c].at = "paused" /\ AtLast(c)),
         Arrived(c) => Arrived(c)'
  PROVE  Chunked(c)'
<1>1. /\ Path(c)' = Path(c) /\ up[c].size \in Nat \ {0} /\ up[c].off \in Nat /\ AtLast(c)' = AtLast(c)
  BY OwnIs DEF AtLast
<1> DEFINE Lost == up[c].at \in {"error", "gone"} \/ (up[c].at = "paused" /\ AtLast(c))
<1>2. (up[c].at \in {"between", "sending", "paused"} /\ ~(up[c].at = "paused" /\ AtLast(c))
      /\ up[c].off > 0) => Holds(c, up[c].off)'
  <2> SUFFICES ASSUME up[c].at \in {"between", "sending", "paused"},
                      ~(up[c].at = "paused" /\ AtLast(c)), up[c].off > 0
               PROVE  Holds(c, up[c].off)'
    OBVIOUS
  <2>1. Holds(c, up[c].off) /\ up[c].off \in Nat \ {0} BY <1>1 DEF Chunked
  <2>2. Stays(c) OBVIOUS
  <2>3. PICK n : n = up[c].off OBVIOUS
  <2>4. Holds(c, n)' BY <2>1, <2>2, <2>3 DEF Stays
  <2> QED BY <2>3, <2>4 DEF Holds
<1>3. up[c].at = "sending" =>
        /\ req'[up[c].by].at = "write" => req'[up[c].by].fd = temp'[Path(c)]
        /\ req'[up[c].by].at = "move" => Holds(c, up[c].size)'
  <2> SUFFICES ASSUME up[c].at = "sending"
               PROVE  /\ req'[up[c].by].at = "write" => req'[up[c].by].fd = temp'[Path(c)]
                      /\ req'[up[c].by].at = "move" => Holds(c, up[c].size)'
    OBVIOUS
  <2>1. up[c].by \in Handlers /\ up[c].by # h /\ U!Busy(up[c].by) /\ req[up[c].by].c = c
    BY DEF UInv, SentOK, Awaited
  <2>2. req'[up[c].by] = req[up[c].by] /\ Stays(c) BY <2>1 DEF Touches
  <2>3. req[up[c].by].at = "write" => req[up[c].by].fd \in U!Inodes BY <2>1, WorksOn DEF UInv, WorkOK
  <2>4. req[up[c].by].at = "write" => req[up[c].by].fd = temp[Path(c)] /\ temp[Path(c)] # U!None
    BY <2>3, Given DEF Chunked
  <2>5. req[up[c].by].at = "move" => Holds(c, up[c].size)'
    <3>1. PICK n : n = up[c].size OBVIOUS
    <3>2. req[up[c].by].at = "move" => Holds(c, n)' BY <3>1, <2>2, <1>1 DEF Chunked, Stays
    <3> QED BY <3>1, <3>2 DEF Holds
  <2> QED BY <2>2, <2>4, <2>5 DEF Stays
<1>4. \A k \in Handlers : U!Busy(k)' /\ req'[k].c = c /\ U!LastChunk(req'[k]) =>
        (up[c].at = "sending" /\ up[c].by = k) \/ Lost
  <2> SUFFICES ASSUME NEW k \in Handlers, U!Busy(k)', req'[k].c = c, U!LastChunk(req'[k])
               PROVE  (up[c].at = "sending" /\ up[c].by = k) \/ Lost
    OBVIOUS
  <2>1. CASE k = h
    <3>1. U!LastChunk(req[h]) BY <2>1 DEF SameRequest, U!LastChunk
    <3> QED BY <2>1, <3>1 DEF Chunked
  <2>2. CASE k # h
    <3>1. req'[k] = req[k] /\ U!Busy(k) BY <2>2 DEF Touches, U!Busy
    <3> QED BY <3>1 DEF Chunked
  <2> QED BY <2>1, <2>2
<1>5. removing'[Path(c)] > 0 => up[c].at = "done" \/ Lost
  BY DEF Chunked, Stays
<1>6. up[c].at = "done" => Arrived(c)' BY DEF Chunked
<1> QED BY <1>1, <1>2, <1>3, <1>4, <1>5, <1>6 DEF Chunked

(* The request the browser waits for goes on.                                     *)
LEMMA ChunkGoesOn ==
  ASSUME UInv, NEW h \in Handlers, U!Busy(h), Touches(h), SameRequest(h), Awaited(h),
         NEW c \in Clients, c = req[h].c, Chunked(c), up'[c] = up[c], Stays(c),
         req'[h].at = "write" => req'[h].fd = temp'[Path(c)],
         req'[h].at = "move" => Holds(c, up[c].size)'
  PROVE  Chunked(c)'
<1>1. /\ Path(c)' = Path(c) /\ up[c].size \in Nat \ {0} /\ up[c].off \in Nat
      /\ up[c].at = "sending" /\ up[c].by = h
  BY OwnIs DEF Awaited
<1>2. up[c].off > 0 => Holds(c, up[c].off)'
  <2>1. PICK n : n = up[c].off OBVIOUS
  <2>2. n > 0 => Holds(c, n)' BY <2>1, <1>1 DEF Chunked, Stays
  <2> QED BY <2>1, <2>2 DEF Holds
<1>3. ASSUME NEW k \in Handlers, U!Busy(k)', req'[k].c = c, U!LastChunk(req'[k]), k # h
      PROVE  FALSE
  <2>1. req'[k] = req[k] /\ U!Busy(k) BY <1>3 DEF Touches, U!Busy
  <2> QED BY <2>1, <1>1, <1>3 DEF Chunked
<1>4. ~(removing'[Path(c)] > 0) BY <1>1 DEF Chunked, Stays
<1> QED BY <1>1, <1>2, <1>3, <1>4 DEF Chunked

(* The request the browser waits for is refused, or fails.                          *)
LEMMA ChunkFails ==
  ASSUME UInv, NEW h \in Handlers, U!Busy(h), Touches(h), ~U!Busy(h)', Awaited(h),
         NEW c \in Clients, c = req[h].c, Chunked(c), up'[c].at \in {"error", "conflict"},
         removing'[Path(c)] = removing[Path(c)]
  PROVE  Chunked(c)'
<1>1. /\ Path(c)' = Path(c) /\ up[c].at = "sending" /\ up[c].by = h
  BY OwnIs DEF Awaited
<1>3. ASSUME NEW k \in Handlers, U!Busy(k)', req'[k].c = c, U!LastChunk(req'[k])
      PROVE  FALSE
  <2>1. k # h /\ req'[k] = req[k] /\ U!Busy(k) BY <1>3 DEF Touches, U!Busy
  <2> QED BY <2>1, <1>1, <1>3 DEF Chunked
<1>4. ~(removing'[Path(c)] > 0) BY <1>1 DEF Chunked
<1> QED BY <1>1, <1>3, <1>4 DEF Chunked

(* A request nobody waits for, of a file in one piece.                             *)
LEMMA StaleSingle ==
  ASSUME UInv, NEW h \in Handlers, U!Busy(h), ~Awaited(h),
         NEW c \in Clients, c = req[h].c, Single(c), up'[c] = up[c]
  PROVE  Single(c)'
<1>1. up[c].at \in {"error", "gone", "paused"} BY DEF Single, Awaited
<1> QED BY <1>1 DEF Single

(* The one the browser waits for, which goes on or is answered.                       *)
LEMMA AwaitedSingle ==
  ASSUME UInv, NEW h \in Handlers, U!Busy(h), Touches(h), Awaited(h),
         NEW c \in Clients, c = req[h].c, Single(c),
         \/ /\ up'[c] = up[c]
            /\ req'[h].at = "write" =>
                 dest'[Path(c)] = req'[h].fd /\ file'[req'[h].fd] = << >>
            /\ req'[h].at = "refresh" => Arrived(c)'
         \/ ~U!Busy(h)' /\ up'[c].at \in {"error", "conflict"}
         \/ ~U!Busy(h)' /\ up'[c].at = "done" /\ Arrived(c)'
  PROVE  Single(c)'
<1>1. /\ Path(c)' = Path(c) /\ up[c].at = "sending" /\ up[c].by = h
  BY OwnIs DEF Awaited
<1>2. ASSUME NEW k \in Handlers, U!Busy(k)', req'[k].c = c, k # h
      PROVE  FALSE
  <2>1. req'[k] = req[k] /\ U!Busy(k) BY <1>2 DEF Touches, U!Busy
  <2> QED BY <2>1, <1>1, <1>2 DEF Single
<1> QED BY <1>1, <1>2 DEF Single

(* What the answer does to the request and its client.                              *)
LEMMA AnswerIs ==
  ASSUME UInv, NEW h \in Handlers, U!Busy(h), NEW c, c = req[h].c,
         NEW code \in {"conflict", "error", "ok"}, U!Answer(h, code)
  PROVE  /\ ~U!Busy(h)' /\ SameRequest(h)
         /\ ~Awaited(h) => up'[c] = up[c]
         /\ Awaited(h) =>
              /\ code # "ok" => up'[c].at = code
              /\ code = "ok" => IF up[c].kind = "chunks" /\ up[c].off + 1 < up[c].size
                   THEN up'[c].at = "between" /\ up'[c].off = up[c].off + 1
                   ELSE up'[c].at = "done"
<1>1. ~U!Busy(h)' BY Over
<1>2. IF up[c].at = "sending" /\ up[c].by = h
        THEN /\ code # "ok" => up'[c].at = code /\ up'[c].off = up[c].off
             /\ code = "ok" => IF up[c].kind = "chunks" /\ up[c].off + 1 < up[c].size
                  THEN up'[c].at = "between" /\ up'[c].off = up[c].off + 1
                  ELSE up'[c].at = "done"
        ELSE up'[c] = up[c]
  BY Replies DEF UInv
<1> QED BY <1>1, <1>2 DEF SameRequest, Awaited

(* What going on does.                                                         *)
LEMMA GoesOnIs ==
  ASSUME UInv, NEW h \in Handlers, U!Busy(h), NEW at \in Going, NEW fd \in U!Inodes \cup {U!None},
         Moved(h, at, fd)
  PROVE  SameRequest(h) /\ U!Busy(h)' /\ req'[h].at = at /\ req'[h].fd = fd
BY Goes DEF UInv, SameRequest

(* The check.                                                                  *)
LEMMA WholeCheck ==
  ASSUME UInv, WholeInv, NEW h \in Handlers, U!Check(h), NEW c, c = req[h].c
  PROVE  Each(c)'
<1>1. Touches(h) /\ U!Busy(h) BY TouchCheck DEF U!Check, U!Busy
<1>2. UNCHANGED <<temp, dest, file, removing, mixed>> BY DEF U!Check
<1>3. /\ c \in Clients /\ Path(c)' = Path(c) /\ up'[c].size = up[c].size
      /\ up'[c].kind = up[c].kind /\ (Lone(c)' => Lone(c)) /\ U!Sent(c)' = U!Sent(c)
  BY <1>1, OwnIs
<1>4. Each(c) BY <1>3 DEF WholeInv
<1>5. Within(c)' BY <1>2, <1>3, <1>4 DEF Within, Each
<1>6. Stays(c) BY <1>2, <1>3 DEF Stays, Holds
<1>7. Arrived(c) => Arrived(c)' BY <1>2, <1>3 DEF Arrived
<1>8. \/ ~U!Busy(h)' /\ SameRequest(h) /\ (Awaited(h) => up'[c].at \in {"error", "conflict"})
         /\ (~Awaited(h) => up'[c] = up[c])
      \/ up' = up /\ SameRequest(h) /\ req'[h].at = "open"
  <2>1. CASE U!Answer(h, "conflict") BY <2>1, <1>1, AnswerIs
  <2>2. CASE U!Answer(h, "error") BY <2>2, <1>1, AnswerIs
  <2>3. CASE U!Goes(h, "open") /\ up' = up
    <3>1. GoesOn(h, "open") BY <2>3, <1>1, GoesIs
    <3>2. req[h].fd \in U!Inodes \cup {U!None} BY <1>1, WorksOn DEF Requests
    <3>3. "open" \in Going BY DEF Going
    <3> QED BY <3>1, <3>2, <3>3, <2>3, <1>1, GoesOnIs DEF GoesOn
  <2> QED BY <2>1, <2>2, <2>3 DEF U!Check
<1>9. ASSUME Lone(c)', up'[c].kind = "chunks" PROVE Chunked(c)'
  <2>1. Chunked(c) BY <1>3, <1>4, <1>9 DEF Each
  <2>2. CASE ~Awaited(h) BY <2>1, <2>2, <1>1, <1>3, <1>6, <1>7, <1>8, StaleChunk
  <2>3. CASE Awaited(h) /\ ~U!Busy(h)' /\ up'[c].at \in {"error", "conflict"}
    BY <2>1, <2>3, <1>1, <1>2, <1>3, ChunkFails
  <2>4. CASE Awaited(h) /\ up' = up /\ SameRequest(h) /\ req'[h].at = "open"
    BY <2>1, <2>4, <1>1, <1>3, <1>6, ChunkGoesOn
  <2> QED BY <2>2, <2>3, <2>4, <1>8
<1>10. ASSUME Lone(c)', up'[c].kind \in {"plain", "save"} PROVE Single(c)'
  <2>1. Single(c) BY <1>3, <1>4, <1>10 DEF Each
  <2>2. CASE ~Awaited(h) BY <2>1, <2>2, <1>1, <1>3, <1>8, StaleSingle
  <2>3. CASE Awaited(h) BY <2>1, <2>3, <1>1, <1>3, <1>8, AwaitedSingle
  <2> QED BY <2>2, <2>3
<1> QED BY <1>5, <1>9, <1>10 DEF Each

(* Opening the temporary file.                                                 *)
LEMMA WholeOpen ==
  ASSUME UInv, WholeInv, NEW h \in Handlers, U!OpenTemp(h), NEW c, c = req[h].c
  PROVE  Each(c)'
<1>1. U!Busy(h) /\ req[h].kind = "chunks" BY DEF U!OpenTemp, U!Busy
<1>2. /\ Touches(h) /\ up' = up /\ UNCHANGED <<dest, removing>>
      /\ req'[h].at = "write" /\ req'[h].fd = temp'[req[h].path]
      /\ \A q \in Paths : dest[q] \in U!Inodes => file'[dest[q]] = file[dest[q]]
      /\ IF temp[req[h].path] # U!None THEN UNCHANGED <<temp, file>>
         ELSE /\ temp'[req[h].path] \in U!Inodes
              /\ file'[temp'[req[h].path]] = << >>
      /\ SameRequest(h)
  BY TouchOpen DEF SameRequest
<1>3. /\ c \in Clients /\ Path(c) = req[h].path /\ Path(c) \in Paths /\ Path(c)' = Path(c)
      /\ up[c].kind = "chunks" /\ up[c].size \in Nat \ {0}
      /\ (Lone(c)' => Lone(c)) /\ U!Sent(c)' = U!Sent(c) /\ (~mixed'[c] => ~mixed[c])
  BY <1>1, <1>2, OwnIs
<1>4. Each(c) BY <1>3 DEF WholeInv
<1>5. Within(c)'
  <2>1. CASE temp[Path(c)] # U!None BY <2>1, <1>2, <1>3, <1>4 DEF Within, Each
  <2>2. CASE temp[Path(c)] = U!None
    <3>1. Len(file'[temp'[Path(c)]]) = 0 BY <2>2, <1>2, <1>3
    <3> QED BY <3>1, <1>2, <1>3 DEF Within
  <2> QED BY <2>1, <2>2
<1>6. Stays(c)
  <2>1. CASE temp[Path(c)] # U!None BY <2>1, <1>2, <1>3 DEF Stays, Holds
  <2>2. CASE temp[Path(c)] = U!None BY <2>2, <1>2 DEF Stays, Holds
  <2> QED BY <2>1, <2>2
<1>7. Arrived(c) => Arrived(c)' BY <1>2, <1>3 DEF Arrived
<1>8. ASSUME Lone(c)' PROVE Chunked(c)'
  <2>1. Chunked(c) BY <1>3, <1>4, <1>8 DEF Each
  <2>2. CASE ~Awaited(h) BY <2>1, <2>2, <1>1, <1>2, <1>3, <1>6, <1>7, StaleChunk
  <2>3. CASE Awaited(h) BY <2>1, <2>3, <1>1, <1>2, <1>3, <1>6, ChunkGoesOn
  <2> QED BY <2>2, <2>3
<1> QED BY <1>2, <1>3, <1>5, <1>8 DEF Each

(* A chunk written to a file leaves those of the same client as they are, and the      *)
(* whole file whole.                                                           *)
LEMMA WrittenKeeps ==
  ASSUME NEW s \in Seq(Pieces), NEW off \in Nat, NEW size \in Nat, off < size, NEW c \in Clients,
         NEW w, Written(w, s, off, c)
  PROVE  /\ Len(s) <= size => Len(w) <= size
         /\ Len(s) <= Len(w) /\ off + 1 <= Len(w) /\ w[off + 1] = c
         /\ \A i \in 1 .. Len(s) : s[i] = c => w[i] = c
         /\ s = [i \in 1 .. size |-> c] => w = [i \in 1 .. size |-> c]
         /\ Len(w) \in Nat
<1>1. /\ w \in Seq(Pieces) /\ Len(w) = IF off < Len(s) THEN Len(s) ELSE off + 1
      /\ \A i \in 1 .. Len(w) :
           w[i] = IF i = off + 1 THEN c ELSE IF i <= Len(s) THEN s[i] ELSE U!Hole
  BY DEF Written
<1>2. Len(s) \in Nat /\ Len(w) \in Nat BY <1>1
<1>3. /\ Len(s) <= size => Len(w) <= size
      /\ Len(s) <= Len(w) /\ off + 1 <= Len(w) /\ w[off + 1] = c
      /\ \A i \in 1 .. Len(s) : s[i] = c => w[i] = c
  BY <1>1, <1>2
<1>4. ASSUME s = [i \in 1 .. size |-> c] PROVE w = [i \in 1 .. size |-> c]
  <2>1. Len(s) = size /\ \A i \in 1 .. size : s[i] = c BY <1>4
  <2>2. Len(w) = size BY <2>1, <1>1
  <2>3. \A i \in 1 .. size : w[i] = c BY <2>1, <2>2, <1>1
  <2>4. w = [i \in 1 .. size |-> w[i]] BY <2>2, <1>1
  <2> QED BY <2>3, <2>4
<1> QED BY <1>2, <1>3, <1>4

(* Writing a chunk.                                                            *)
LEMMA WholeWrite ==
  ASSUME UInv, WholeInv, NEW h \in Handlers, U!WriteChunk(h), NEW c, c = req[h].c
  PROVE  Each(c)'
<1>1. /\ Touches(h) /\ UNCHANGED <<temp, dest, removing>>
      /\ U!Busy(h) /\ req[h].at = "write" /\ req[h].kind = "chunks" /\ req[h].fd \in U!Inodes
      /\ \/ /\ file' = [file EXCEPT ![req[h].fd] = U!Put(@, req[h].off, req[h].c)]
            /\ IF U!LastChunk(req[h]) THEN GoesOn(h, "move") /\ up' = up ELSE U!Answer(h, "ok")
         \/ /\ up[req[h].c].by # h /\ UNCHANGED file /\ U!Answer(h, "error")
  BY TouchWrite
<1>2. /\ c \in Clients /\ Path(c) = req[h].path /\ Path(c) \in Paths /\ Path(c)' = Path(c)
      /\ up[c].kind = "chunks" /\ up[c].size \in Nat \ {0} /\ up[c].off \in Nat
      /\ up'[c].kind = "chunks" /\ up'[c].size = up[c].size /\ up[c].size = req[h].size
      /\ (Lone(c)' => Lone(c)) /\ U!Sent(c)' = U!Sent(c) /\ (~mixed'[c] => ~mixed[c])
      /\ Awaited(h) => req[h].off = up[c].off /\ up[c].at = "sending" /\ up[c].by = h
  BY <1>1, OwnIs
<1>3. Each(c) BY <1>2 DEF WholeInv
<1>4. req[h].off \in Nat /\ req[h].off < up[c].size BY <1>1, <1>2, WorksOn DEF UInv, WorkOK
<1>5. file \in [U!Inodes -> Seq(Pieces)] /\ temp[Path(c)] \in U!Inodes \cup {U!None}
  BY <1>2 DEF UInv, Typed
<1>6. CASE up[req[h].c].by # h /\ UNCHANGED file /\ U!Answer(h, "error")
  <2>1. ~Awaited(h) /\ up'[c] = up[c] /\ SameRequest(h)
    <3>1. ~Awaited(h) BY <1>6 DEF Awaited
    <3> QED BY <3>1, <1>1, <1>6, AnswerIs
  <2>2. Within(c)' BY <1>1, <1>2, <1>3, <1>6 DEF Within, Each
  <2>3. Stays(c) BY <1>1, <1>2, <1>6 DEF Stays, Holds
  <2>4. Arrived(c) => Arrived(c)' BY <1>1, <1>2, <1>6 DEF Arrived
  <2>5. ASSUME Lone(c)' PROVE Chunked(c)'
    <3>1. Chunked(c) BY <1>2, <1>3, <2>5 DEF Each
    <3> QED BY <3>1, <2>1, <2>3, <2>4, <1>1, <1>2, StaleChunk
  <2> QED BY <1>2, <2>2, <2>5 DEF Each
<1>7. CASE /\ file' = [file EXCEPT ![req[h].fd] = U!Put(@, req[h].off, req[h].c)]
           /\ IF U!LastChunk(req[h]) THEN GoesOn(h, "move") /\ up' = up ELSE U!Answer(h, "ok")
  <2>a. PICK i \in U!Inodes, s \in Seq(Pieces) : i = req[h].fd /\ s = file[i]
    BY <1>1, <1>2, <1>5, <1>7
  <2>b. PICK w : w = U!Put(s, req[h].off, c) OBVIOUS
  <2>1. /\ i = req[h].fd /\ s = file[i] /\ w = U!Put(s, req[h].off, c)
        /\ file'[i] = w /\ \A j \in U!Inodes \ {i} : file'[j] = file[j]
    BY <2>a, <2>b, <1>1, <1>2, <1>5, <1>7
  <2>2. /\ Len(s) <= up[c].size => Len(w) <= up[c].size
        /\ Len(s) <= Len(w) /\ req[h].off + 1 <= Len(w) /\ w[req[h].off + 1] = c
        /\ \A j \in 1 .. Len(s) : s[j] = c => w[j] = c
        /\ s = U!Sent(c) => w = U!Sent(c)
        /\ Len(w) \in Nat
    <3>1. PICK off \in Nat, size \in Nat : off = req[h].off /\ size = up[c].size /\ off < size
      BY <1>2, <1>4
    <3>2. Written(w, s, off, c) BY <2>1, <3>1, <1>2, PutIs
    <3>3. U!Sent(c) = [j \in 1 .. size |-> c] BY <3>1 DEF U!Sent
    <3>4. /\ Len(s) <= size => Len(w) <= size
          /\ Len(s) <= Len(w) /\ off + 1 <= Len(w) /\ w[off + 1] = c
      BY <3>1, <3>2, <1>2, WrittenKeeps
    <3>5. \A j \in 1 .. Len(s) : s[j] = c => w[j] = c BY <3>1, <3>2, <1>2, WrittenKeeps
    <3>6. s = [j \in 1 .. size |-> c] => w = [j \in 1 .. size |-> c]
      BY <3>1, <3>2, <1>2, WrittenKeeps
    <3>7. Len(w) \in Nat BY <3>1, <3>2, <1>2, WrittenKeeps
    <3> QED BY <3>1, <3>3, <3>4, <3>5, <3>6, <3>7
  <2>3. Len(s) \in Nat /\ Len(w) \in Nat BY <2>2
  <2>4. Within(c)'
    <3>1. CASE temp[Path(c)] = i BY <3>1, <2>1, <2>2, <1>1, <1>2, <1>3, Given DEF Within, Each
    <3>2. CASE temp[Path(c)] # i
      BY <3>2, <2>1, <1>1, <1>2, <1>3, <1>5 DEF Within, Each
    <3> QED BY <3>1, <3>2
  <2>5. ASSUME NEW n \in Nat \ {0}, Holds(c, n) PROVE Holds(c, n)'
    <3>1. CASE temp[Path(c)] = i
      <4>1. n <= Len(s) /\ \A j \in 1 .. n : s[j] = c BY <3>1, <2>1, <2>5 DEF Holds
      <4>2. n <= Len(w) /\ \A j \in 1 .. n : w[j] = c
        <5>1. n <= Len(w) BY <4>1, <2>2, <2>3
        <5>2. \A j \in 1 .. n : j \in 1 .. Len(s) BY <4>1, <2>3
        <5> QED BY <5>1, <5>2, <4>1, <2>2
      <4>3. temp'[Path(c)'] = i /\ i # U!None BY <3>1, <1>1, <1>2, Given
      <4> QED BY <4>2, <4>3, <2>1 DEF Holds
    <3>2. CASE temp[Path(c)] # i
      <4>1. temp[Path(c)] \in U!Inodes BY <2>5, <1>5 DEF Holds
      <4>2. file'[temp[Path(c)]] = file[temp[Path(c)]] BY <4>1, <3>2, <2>1
      <4> QED BY <4>2, <2>5, <1>1, <1>2 DEF Holds
    <3> QED BY <3>1, <3>2
  <2>6. Stays(c) BY <2>5, <1>1 DEF Stays
  <2>7. Arrived(c) => Arrived(c)' BY <2>1, <2>2, <1>1, <1>2 DEF Arrived
  <2>8. SameRequest(h) /\ (U!LastChunk(req[h]) => U!Busy(h)' /\ req'[h].at = "move")
    <3>1. CASE U!LastChunk(req[h])
      <4>1. "move" \in Going BY DEF Going
      <4> QED BY <4>1, <3>1, <1>1, <1>7, GoesOnIs DEF GoesOn
    <3>2. CASE ~U!LastChunk(req[h]) BY <3>2, <1>1, <1>7, AnswerIs
    <3> QED BY <3>1, <3>2
  <2>9. ASSUME Lone(c)' PROVE Chunked(c)'
    <3>1. Chunked(c) BY <1>2, <1>3, <2>9 DEF Each
    <3>2. CASE ~Awaited(h)
      <4>1. up'[c] = up[c] BY <3>2, <1>1, <1>7, AnswerIs
      <4> QED BY <4>1, <3>1, <3>2, <2>6, <2>7, <2>8, <1>1, <1>2, StaleChunk
    <3>3. CASE Awaited(h)
      <4>1. /\ req[h].off = up[c].off /\ up[c].at = "sending" /\ up[c].by = h
            /\ temp[Path(c)] = i
        BY <3>1, <3>3, <2>1, <1>1, <1>2 DEF Chunked
      <4>2. PICK m \in Nat \ {0} : m = up[c].off + 1 BY <1>2
      <4>3. Holds(c, m)'
        <5>1. m <= Len(w) BY <4>1, <4>2, <2>2
        <5>2. \A j \in 1 .. m : w[j] = c
          <6>1. w[m] = c BY <4>1, <4>2, <2>2
          <6>2. ASSUME NEW j \in 1 .. up[c].off PROVE w[j] = c
            <7>1. Holds(c, up[c].off) BY <6>2, <4>1, <1>2, <3>1 DEF Chunked
            <7>2. j \in 1 .. Len(s) /\ s[j] = c BY <7>1, <6>2, <4>1, <2>1, <2>3, <1>2 DEF Holds
            <7> QED BY <7>2, <2>2
          <6> QED BY <6>1, <6>2, <4>2, <1>2
        <5>3. temp'[Path(c)'] = i /\ i # U!None BY <4>1, <1>1, <1>2, Given
        <5> QED BY <5>1, <5>2, <5>3, <2>1 DEF Holds
      <4>4. CASE U!LastChunk(req[h])
        <5>1. m = up[c].size BY <4>1, <4>2, <4>4, <1>2, <1>4 DEF U!LastChunk
        <5>2. up'[c] = up[c] BY <4>4, <1>7
        <5>3. req'[h].at = "move" => Holds(c, up[c].size)'
          BY <4>3, <5>1, <5>2 DEF Holds
        <5> QED BY <5>2, <5>3, <4>4, <3>1, <3>3, <2>6, <2>8, <1>1, <1>2, ChunkGoesOn
      <4>5. CASE ~U!LastChunk(req[h])
        <5>1. up[c].off + 1 < up[c].size BY <4>1, <4>5, <1>2, <1>4 DEF U!LastChunk
        <5>2. /\ ~U!Busy(h)' /\ up'[c].at = "between" /\ up'[c].off = m
          BY <5>1, <4>2, <4>5, <3>3, <1>1, <1>2, <1>7, AnswerIs
        <5>3. ASSUME NEW k \in Handlers, U!Busy(k)', req'[k].c = c, U!LastChunk(req'[k])
              PROVE  FALSE
          <6>1. k # h /\ req'[k] = req[k] /\ U!Busy(k) BY <5>2, <5>3, <1>1 DEF Touches, U!Busy
          <6> QED BY <6>1, <5>3, <4>1, <3>1 DEF Chunked
        <5>4. ~(removing'[Path(c)'] > 0) BY <4>1, <3>1, <1>1, <1>2 DEF Chunked
        <5>5. Holds(c, up[c].off)' BY <5>2, <4>3 DEF Holds
        <5> QED BY <5>2, <5>3, <5>4, <5>5 DEF Chunked
      <4> QED BY <4>4, <4>5
    <3> QED BY <3>2, <3>3
  <2> QED BY <1>2, <2>4, <2>9 DEF Each
<1> QED BY <1>1, <1>6, <1>7

(* Moving the temporary file to the path.                                         *)
LEMMA WholeMove ==
  ASSUME UInv, WholeInv, NEW h \in Handlers, U!MoveFile(h), NEW c, c = req[h].c
  PROVE  Each(c)'
<1>1. /\ Touches(h) /\ U!Busy(h) /\ req[h].at = "move" /\ req[h].kind = "chunks" /\ U!LastChunk(req[h])
      /\ \A q \in Paths : temp'[q] \in {temp[q], U!None}
      /\ \A q \in Paths : temp'[q] # U!None => file'[temp[q]] = file[temp[q]]
      /\ \/ /\ temp[req[h].path] = U!None \/ dest[req[h].path] = U!Folder
            /\ UNCHANGED <<temp, dest, file, removing, owed, accepted, raced>>
            /\ U!Answer(h, "error")
         \/ /\ temp[req[h].path] # U!None /\ dest'[req[h].path] \in U!Inodes
            /\ file'[dest'[req[h].path]] = file[temp[req[h].path]]
            /\ U!Answer(h, "ok")
  BY TouchMove
<1>2. /\ c \in Clients /\ Path(c) = req[h].path /\ Path(c) \in Paths /\ Path(c)' = Path(c)
      /\ up[c].kind = "chunks" /\ up[c].size \in Nat \ {0} /\ up[c].off \in Nat
      /\ up'[c].kind = "chunks" /\ up'[c].size = up[c].size /\ up[c].size = req[h].size
      /\ (Lone(c)' => Lone(c)) /\ U!Sent(c)' = U!Sent(c) /\ (~mixed'[c] => ~mixed[c])
      /\ Awaited(h) => req[h].off = up[c].off /\ up[c].at = "sending" /\ up[c].by = h
  BY <1>1, OwnIs
<1>3. Each(c) BY <1>2 DEF WholeInv
<1>4. Within(c)' BY <1>1, <1>2, <1>3 DEF Within, Each
<1>5. ASSUME Lone(c)' PROVE Chunked(c)'
  <2>1. Chunked(c) /\ Lone(c) BY <1>2, <1>3, <1>5 DEF Each
  <2>2. CASE ~Awaited(h)
    <3>1. up[c].at \in {"error", "gone"} \/ (up[c].at = "paused" /\ AtLast(c))
      BY <2>1, <2>2, <1>1 DEF Chunked, Awaited
    <3>2. up'[c] = up[c] /\ SameRequest(h) BY <2>2, <1>1, AnswerIs
    <3>3. up[c].at # "done" BY <3>1
    <3>4. AtLast(c)' = AtLast(c) /\ ~U!Busy(h)'
      <4>1. ~U!Busy(h)' BY <1>1, AnswerIs
      <4> QED BY <3>2, <4>1 DEF AtLast
    <3> QED BY <3>1, <3>2, <3>4, <1>1, <1>2 DEF Chunked
  <2>3. CASE Awaited(h) /\ UNCHANGED removing /\ U!Answer(h, "error")
    <3>1. ~U!Busy(h)' /\ up'[c].at = "error" BY <2>3, <1>1, AnswerIs
    <3> QED BY <3>1, <2>1, <2>3, <1>1, <1>2, ChunkFails
  <2>4. CASE /\ Awaited(h) /\ U!Answer(h, "ok")
             /\ temp[req[h].path] # U!None /\ dest'[req[h].path] \in U!Inodes
             /\ file'[dest'[req[h].path]] = file[temp[req[h].path]]
    <3>1. up[c].off + 1 >= up[c].size BY <2>4, <1>1, <1>2 DEF U!LastChunk
    <3>2. ~U!Busy(h)' /\ up'[c].at = "done" BY <3>1, <2>4, <1>1, <1>2, AnswerIs
    <3>3. Holds(c, up[c].size) BY <2>1, <2>4, <1>1, <1>2 DEF Chunked
    <3>4. file[temp[Path(c)]] = U!Sent(c)
      <4>1. PICK s \in Seq(Pieces) : s = file[temp[Path(c)]]
        BY <2>4, <1>2 DEF UInv, Typed
      <4>2. Len(s) <= up[c].size BY <4>1, <2>1, <2>4, <1>2, <1>3 DEF Each, Within, Lone
      <4>3. up[c].size <= Len(s) /\ \A i \in 1 .. up[c].size : s[i] = c
        BY <3>3, <4>1 DEF Holds
      <4>4. Len(s) = up[c].size
        <5>1. Len(s) \in Nat OBVIOUS
        <5> QED BY <5>1, <4>2, <4>3, <1>2
      <4>5. s = [i \in 1 .. up[c].size |-> s[i]] BY <4>4
      <4> QED BY <4>1, <4>3, <4>5 DEF U!Sent
    <3>5. Arrived(c)' BY <3>4, <2>4, <1>2 DEF Arrived
    <3>6. ASSUME NEW k \in Handlers, U!Busy(k)', req'[k].c = c, U!LastChunk(req'[k])
          PROVE  FALSE
      <4>1. k # h /\ req'[k] = req[k] /\ U!Busy(k) BY <3>2, <3>6, <1>1 DEF Touches, U!Busy
      <4> QED BY <4>1, <3>6, <2>1, <2>4, <1>2 DEF Chunked
    <3> QED BY <3>2, <3>5, <3>6 DEF Chunked
  <2> QED BY <2>2, <2>3, <2>4, <1>1
<1> QED BY <1>2, <1>4, <1>5 DEF Each

(* A file in one piece is opened empty.                                          *)
LEMMA WholeTruncate ==
  ASSUME UInv, WholeInv, NEW h \in Handlers, U!Truncate(h), NEW c, c = req[h].c
  PROVE  Each(c)'
<1>1. /\ Touches(h) /\ up' = up /\ UNCHANGED temp
      /\ U!Busy(h) /\ req[h].kind \in {"plain", "save"}
      /\ U!Busy(h)' /\ req'[h].at = "write" /\ req'[h].fd = dest'[req[h].path]
      /\ dest'[req[h].path] \in U!Inodes /\ file'[dest'[req[h].path]] = << >>
  BY TouchTruncate
<1>2. /\ c \in Clients /\ Path(c) = req[h].path /\ Path(c) \in Paths /\ Path(c)' = Path(c)
      /\ up[c].kind \in {"plain", "save"} /\ (Lone(c)' => Lone(c)) /\ (~mixed'[c] => ~mixed[c])
  BY <1>1, OwnIs
<1>3. Each(c) BY <1>2 DEF WholeInv
<1>4. Within(c)'
  <2>1. temp[Path(c)] # U!None => file'[temp[Path(c)]] = file[temp[Path(c)]]
    <3>1. PICK i : /\ i = IF dest[req[h].path] \in U!Inodes THEN dest[req[h].path] ELSE U!Fresh
                   /\ file' = [file EXCEPT ![i] = << >>]
      BY DEF U!Truncate
    <3>2. i # temp[Path(c)]
      <4>1. CASE dest[req[h].path] \in U!Inodes BY <4>1, <3>1, <1>2 DEF UInv, OneHome
      <4>2. CASE dest[req[h].path] \notin U!Inodes BY <4>2, <3>1, <1>2, FreshIs
      <4> QED BY <4>1, <4>2
    <3> QED BY <3>1, <3>2, <1>2 DEF UInv, Typed
  <2> QED BY <2>1, <1>1, <1>2, <1>3 DEF Within, Each
<1>5. ASSUME Lone(c)' PROVE Single(c)'
  <2>1. Single(c) BY <1>2, <1>3, <1>5 DEF Each
  <2>2. CASE ~Awaited(h) BY <2>1, <2>2, <1>1, <1>2, StaleSingle
  <2>3. CASE Awaited(h)
    <3>1. dest'[Path(c)] = req'[h].fd /\ file'[req'[h].fd] = << >> BY <1>1, <1>2
    <3> QED BY <3>1, <2>1, <2>3, <1>1, <1>2, AwaitedSingle
  <2> QED BY <2>2, <2>3
<1> QED BY <1>1, <1>2, <1>4, <1>5 DEF Each

(* ... and filled with all of it, or left empty.                                   *)
LEMMA WholeFill ==
  ASSUME UInv, WholeInv, NEW h \in Handlers, U!Fill(h), NEW c, c = req[h].c
  PROVE  Each(c)'
<1>1. /\ Touches(h) /\ UNCHANGED <<temp, dest>>
      /\ U!Busy(h) /\ req[h].at = "write" /\ req[h].kind \in {"plain", "save"}
      /\ req[h].fd \in U!Inodes
      /\ \/ /\ file' = [file EXCEPT ![req[h].fd] = U!Put(@, 0, req[h].c)]
            /\ up' = up /\ req'[h].at = "refresh"
         \/ /\ up[req[h].c].by # h /\ UNCHANGED file /\ U!Answer(h, "error")
  BY TouchFill
<1>2. /\ c \in Clients /\ Path(c) = req[h].path /\ Path(c) \in Paths /\ Path(c)' = Path(c)
      /\ up[c].kind \in {"plain", "save"} /\ up'[c].kind = up[c].kind /\ up'[c].size = up[c].size
      /\ (Lone(c)' => Lone(c)) /\ (~mixed'[c] => ~mixed[c]) /\ U!Sent(c)' = U!Sent(c)
      /\ Awaited(h) => up[c].at = "sending" /\ up[c].by = h
  BY <1>1, OwnIs
<1>3. Each(c) BY <1>2 DEF WholeInv
<1>4. up[c].size = 1 BY <1>2 DEF UInv, SentOK
<1>5. PICK i \in U!Inodes, s \in Seq(Pieces) : i = req[h].fd /\ s = file[i]
  BY <1>1 DEF UInv, Typed
<1>6. Written(U!Put(s, 0, c), s, 0, c) BY <1>2, PutIs
<1>7. CASE /\ file' = [file EXCEPT ![req[h].fd] = U!Put(@, 0, req[h].c)]
           /\ up' = up /\ req'[h].at = "refresh"
  <2>1. PICK w : w = U!Put(s, 0, c) OBVIOUS
  <2>2. file'[i] = w /\ \A j \in U!Inodes \ {i} : file'[j] = file[j]
    BY <2>1, <1>5, <1>7 DEF UInv, Typed
  <2>3. Within(c)'
    <3>1. CASE temp[Path(c)] = i
      <4>1. Len(s) <= 1 => Len(w) <= 1
        <5>1. Len(s) \in Nat OBVIOUS
        <5>2. Len(w) = IF 0 < Len(s) THEN Len(s) ELSE 0 + 1 BY <1>6, <2>1 DEF Written
        <5> QED BY <5>1, <5>2
      <4> QED BY <4>1, <3>1, <2>2, <1>1, <1>2, <1>3, <1>4, <1>5, Given DEF Within, Each
    <3>2. CASE temp[Path(c)] # i
      <4>1. temp[Path(c)] # U!None => temp[Path(c)] \in U!Inodes \ {i}
        BY <3>2, <1>2 DEF UInv, Typed
      <4> QED BY <4>1, <2>2, <1>1, <1>2, <1>3 DEF Within, Each
    <3> QED BY <3>1, <3>2
  <2>4. ASSUME Lone(c)' PROVE Single(c)'
    <3>1. Single(c) BY <1>2, <1>3, <2>4 DEF Each
    <3>2. CASE ~Awaited(h) BY <3>1, <3>2, <1>1, <1>2, <1>7, StaleSingle
    <3>3. CASE Awaited(h)
      <4>1. dest[Path(c)] = i /\ s = << >> BY <3>1, <3>3, <1>1, <1>2, <1>5 DEF Single
      <4>2. w \in Seq(Pieces) /\ Len(w) = 1 /\ w[1] = c
        <5>1. w \in Seq(Pieces) /\ Len(w) = IF 0 < Len(s) THEN Len(s) ELSE 0 + 1
          BY <1>6, <2>1 DEF Written
        <5>2. Len(w) = 1 BY <5>1, <4>1
        <5>3. 1 \in 1 .. Len(w) BY <5>2
        <5>4. w[1] = IF 1 = 0 + 1 THEN c ELSE IF 1 <= Len(s) THEN s[1] ELSE U!Hole
          BY <5>3, <1>6, <2>1 DEF Written
        <5> QED BY <5>1, <5>2, <5>4
      <4>3. w = U!Sent(c)
        <5>1. w = [j \in 1 .. 1 |-> w[j]] BY <4>2
        <5>2. w = [j \in 1 .. 1 |-> c] BY <5>1, <4>2
        <5> QED BY <5>2, <1>4 DEF U!Sent
      <4>4. Arrived(c)' BY <4>1, <4>3, <2>2, <1>1, <1>2 DEF Arrived
      <4> QED BY <4>4, <3>1, <3>3, <1>1, <1>2, <1>7, AwaitedSingle
    <3> QED BY <3>2, <3>3
  <2> QED BY <1>2, <2>3, <2>4 DEF Each
<1>8. CASE up[req[h].c].by # h /\ UNCHANGED file /\ U!Answer(h, "error")
  <2>1. ~Awaited(h) /\ up'[c] = up[c]
    <3>1. ~Awaited(h) BY <1>8 DEF Awaited
    <3> QED BY <3>1, <1>1, <1>8, AnswerIs
  <2>2. Within(c)' BY <1>1, <1>2, <1>3, <1>8 DEF Within, Each
  <2>3. ASSUME Lone(c)' PROVE Single(c)'
    <3>1. Single(c) BY <1>2, <1>3, <2>3 DEF Each
    <3> QED BY <3>1, <2>1, <1>1, <1>2, StaleSingle
  <2> QED BY <1>2, <2>2, <2>3 DEF Each
<1> QED BY <1>1, <1>7, <1>8

(* A folder, whose only content is its name.                                      *)
LEMMA WholeFolder ==
  ASSUME UInv, WholeInv, NEW h \in Handlers, U!WriteDirectory(h), NEW c, c = req[h].c
  PROVE  Each(c)'
<1>1. Touches(h) /\ up' = up /\ UNCHANGED <<temp, file>> /\ U!Busy(h) /\ req[h].kind = "folder"
  BY TouchFolder
<1>2. c \in Clients /\ Path(c)' = Path(c) /\ up[c].kind = "folder" /\ (~mixed'[c] => ~mixed[c])
  BY <1>1, OwnIs
<1> QED BY <1>1, <1>2 DEF WholeInv, Each, Within

(* The refresh before the answer.                                                *)
LEMMA WholeRefresh ==
  ASSUME UInv, WholeInv, NEW h \in Handlers, U!RefreshAndAnswer(h), NEW c, c = req[h].c
  PROVE  Each(c)'
<1>1. /\ Touches(h) /\ UNCHANGED <<temp, dest, file, removing, mixed>>
      /\ U!Busy(h) /\ req[h].at = "refresh" /\ U!Answer(h, "ok")
  BY TouchRefresh
<1>2. /\ c \in Clients /\ Path(c)' = Path(c) /\ up'[c].kind = up[c].kind /\ up'[c].size = up[c].size
      /\ (Lone(c)' => Lone(c)) /\ U!Sent(c)' = U!Sent(c) /\ req[h].kind = up[c].kind
      /\ Awaited(h) => up[c].at = "sending" /\ up[c].by = h
  BY <1>1, OwnIs
<1>3. Each(c) BY <1>2 DEF WholeInv
<1>4. Within(c)' BY <1>1, <1>2, <1>3 DEF Within, Each
<1>5. up'[c].kind # "chunks" BY <1>1, <1>2 DEF UInv, WorkOK
<1>6. ASSUME Lone(c)', up'[c].kind \in {"plain", "save"} PROVE Single(c)'
  <2>1. Single(c) BY <1>2, <1>3, <1>6 DEF Each
  <2>2. CASE ~Awaited(h)
    <3>1. up'[c] = up[c] BY <2>2, <1>1, AnswerIs
    <3> QED BY <3>1, <2>1, <2>2, <1>1, <1>2, StaleSingle
  <2>3. CASE Awaited(h)
    <3>1. Arrived(c) BY <2>1, <2>3, <1>1, <1>2 DEF Single
    <3>2. Arrived(c)' BY <3>1, <1>1, <1>2 DEF Arrived
    <3>3. ~U!Busy(h)' /\ up'[c].at = "done" BY <2>3, <1>1, <1>2, <1>5, AnswerIs
    <3> QED BY <3>2, <3>3, <2>1, <2>3, <1>1, <1>2, AwaitedSingle
  <2> QED BY <2>2, <2>3
<1> QED BY <1>4, <1>5, <1>6 DEF Each

(* Each step of the server keeps what is whole.                                   *)
LEMMA ServeWhole ==
  ASSUME UInv, WholeInv, NEW h \in Handlers, U!Serve(h)
  PROVE  WholeInv'
<1>1. Touches(h) BY ServeTouches
<1>2. U!Busy(h)
  BY DEF U!Serve, U!Check, U!OpenTemp, U!WriteChunk, U!MoveFile, U!Truncate, U!Fill, U!WriteDirectory,
         U!RefreshAndAnswer, U!Busy
<1>3. PICK c : c = req[h].c OBVIOUS
<1>4. Each(c)'
  BY <1>3, WholeCheck, WholeOpen, WholeWrite, WholeMove, WholeTruncate, WholeFill, WholeFolder,
     WholeRefresh DEF U!Serve
<1>5. ASSUME NEW d \in Clients, d # c PROVE Each(d)'
  BY <1>1, <1>2, <1>3, <1>5, OthersSpared DEF WholeInv
<1> QED BY <1>4, <1>5 DEF WholeInv

(* A temporary file removed late is one whose file has arrived, or that is given up.    *)
LEMMA RemoveWhole ==
  ASSUME UInv, WholeInv, NEW p \in Paths, U!RemoveTemp(p)
  PROVE  WholeInv'
<1>1. /\ removing[p] > 0
      /\ temp'[p] = U!None /\ \A q \in Paths \ {p} : temp'[q] = temp[q] /\ removing'[q] = removing[q]
      /\ UNCHANGED <<up, req, dest, file, mixed, again>>
  BY RemoveIs
<1>2. ASSUME NEW d \in Clients PROVE Each(d)'
  <2>1. Each(d) /\ Path(d) \in Paths /\ Path(d)' = Path(d)
    BY <1>1 DEF WholeInv, Path, UInv, Typed, Managers
  <2>2. CASE Path(d) # p
    <3>1. Spared(d) BY <2>1, <2>2, <1>1 DEF Spared, U!Busy
    <3> QED BY <3>1, <2>1, SparedIs
  <2>3. CASE Path(d) = p
    <3>1. Within(d)' BY <2>1, <2>3, <1>1 DEF Within
    <3>2. ASSUME Lone(d)', up'[d].kind = "chunks" PROVE Chunked(d)'
      <4>1. Chunked(d) BY <3>2, <2>1, <1>1 DEF Each, Lone
      <4>2. up[d].at \in {"error", "gone", "done"} \/ (up[d].at = "paused" /\ AtLast(d))
        BY <4>1, <2>3, <1>1 DEF Chunked
      <4>3. U!Sent(d)' = U!Sent(d) /\ AtLast(d)' = AtLast(d) BY <1>1 DEF U!Sent, AtLast
      <4>4. Arrived(d) => Arrived(d)' BY <4>3, <2>1, <1>1 DEF Arrived
      <4>5. \A h \in Handlers : U!Busy(h)' /\ req'[h].c = d /\ U!LastChunk(req'[h]) =>
              U!Busy(h) /\ req[h].c = d /\ U!LastChunk(req[h])
        BY <1>1 DEF U!Busy
      <4> QED BY <4>1, <4>2, <4>3, <4>4, <4>5, <1>1 DEF Chunked
    <3>3. ASSUME Lone(d)', up'[d].kind \in {"plain", "save"} PROVE Single(d)'
      <4>1. Single(d) BY <3>3, <2>1, <1>1 DEF Each, Lone
      <4>2. U!Sent(d)' = U!Sent(d) BY <1>1 DEF U!Sent
      <4>3. Arrived(d) => Arrived(d)' BY <4>2, <2>1, <1>1 DEF Arrived
      <4> QED BY <4>1, <4>3, <2>1, <1>1 DEF Single, U!Busy
    <3> QED BY <3>1, <3>2, <3>3 DEF Each
  <2> QED BY <2>2, <2>3
<1> QED BY <1>2 DEF WholeInv

(* A deletion has met every upload to its path.                                    *)
LEMMA DeleteWhole ==
  ASSUME UInv, WholeInv, NEW p \in Paths, U!DeleteFiles(p)
  PROVE  WholeInv'
<1>1. /\ dest'[p] = U!None /\ \A q \in Paths \ {p} : dest'[q] = dest[q]
      /\ mixed' = [c \in Clients |-> mixed[c] \/ up[c].path = p]
      /\ UNCHANGED <<up, req, temp, file, removing, again>>
  BY DeleteIs
<1>2. ASSUME NEW d \in Clients PROVE Each(d)'
  <2>1. Each(d) /\ Path(d) \in Paths BY DEF WholeInv, Path, UInv, Typed, Managers
  <2>2. CASE Path(d) # p
    <3>1. Spared(d) BY <2>1, <2>2, <1>1 DEF Spared, U!Busy
    <3> QED BY <3>1, <2>1, SparedIs
  <2>3. CASE Path(d) = p
    <3>1. mixed'[d] BY <2>3, <1>1 DEF Path
    <3> QED BY <3>1 DEF Each, Within, Lone
  <2> QED BY <2>2, <2>3
<1> QED BY <1>2 DEF WholeInv

(* After a restart the browser has to start an upload anew that was under way.         *)
LEMMA RestartWhole ==
  ASSUME UInv, WholeInv, U!Restart
  PROVE  WholeInv'
<1>1. /\ \A h \in Handlers : ~U!Busy(h)'
      /\ \A c \in Clients :
           /\ up'[c].path = up[c].path /\ up'[c].kind = up[c].kind /\ up'[c].size = up[c].size
           /\ up'[c].off = up[c].off
           /\ up'[c].at = IF up[c].at = "sending" THEN "error" ELSE up[c].at
      /\ \A q \in Paths : removing'[q] = 0
      /\ UNCHANGED <<temp, dest, file, mixed, again>>
  BY RestartIs
<1>2. ASSUME NEW d \in Clients PROVE Each(d)'
  <2>1. /\ Each(d) /\ Path(d)' = Path(d) /\ Path(d) \in Paths
        /\ U!Sent(d)' = U!Sent(d) /\ AtLast(d)' = AtLast(d)
    BY <1>1 DEF WholeInv, Path, U!Sent, AtLast, UInv, Typed, Managers
  <2>2. Within(d)' BY <2>1, <1>1 DEF Each, Within
  <2>3. Arrived(d) => Arrived(d)' BY <2>1, <1>1 DEF Arrived
  <2>4. ~(removing'[Path(d)] > 0) BY <2>1, <1>1
  <2>5. up'[d].at # "sending" BY <1>1
  <2>6. ASSUME Lone(d)', up'[d].kind = "chunks" PROVE Chunked(d)'
    <3>1. Chunked(d) BY <2>6, <2>1, <1>1 DEF Each, Lone
    <3>2. (up[d].at \in {"between", "paused"} /\ ~(up[d].at = "paused" /\ AtLast(d)) /\ up[d].off > 0)
            => Holds(d, up[d].off)'
      BY <3>1, <2>1, <1>1 DEF Chunked, Holds
    <3>3. up[d].at = "done" => Arrived(d)' BY <3>1, <2>3 DEF Chunked
    <3>4. up'[d].at \in {"between", "paused", "done"} => up'[d].at = up[d].at BY <1>1
    <3>5. \A h \in Handlers : ~(U!Busy(h)' /\ req'[h].c = d /\ U!LastChunk(req'[h])) BY <1>1
    <3>6. ~(removing[Path(d)] > 0)' BY <2>1, <2>4
    <3> QED BY <3>2, <3>3, <3>4, <3>5, <3>6, <2>1, <2>5, <1>1 DEF Chunked
  <2>7. ASSUME Lone(d)', up'[d].kind \in {"plain", "save"} PROVE Single(d)'
    <3>1. Single(d) BY <2>7, <2>1, <1>1 DEF Each, Lone
    <3> QED BY <3>1, <2>3, <2>5, <1>1 DEF Single
  <2> QED BY <2>2, <2>6, <2>7 DEF Each
<1> QED BY <1>2 DEF WholeInv

(* Before the first request nothing has been sent.                                 *)
LEMMA WholeStart == U!Init => WholeInv
<1> SUFFICES ASSUME U!Init PROVE WholeInv OBVIOUS
<1>1. /\ UInv /\ req = [h \in Handlers |-> U!Idle] /\ temp = [p \in Paths |-> U!None]
      /\ removing = [p \in Paths |-> 0]
  BY UploadsStart DEF U!Init
<1>2. \A c \in Clients : up[c].at = "pending" /\ Path(c) \in Paths /\ up[c].off = 0
  BY <1>1 DEF U!Init, UInv, Typed, Managers, Path
<1>3. \A h \in Handlers : ~U!Busy(h) BY <1>1 DEF U!Busy, U!Idle
<1>4. \A p \in Paths : temp[p] = U!None /\ removing[p] = 0 BY <1>1
<1> QED BY <1>2, <1>3, <1>4 DEF WholeInv, Each, Within, Chunked, Single

-------------------------------------------------------------------------------
(* The quota.                                                                  *)

\* A request that has filled a file and is about to refresh the index.
Lagger(h) == U!Busy(h) /\ req[h].at = "refresh" /\ req[h].kind # "folder"

\* What has been accepted still fits, and is the only thing on its way.
Fits(c) == accepted[c] =>
  /\ ~mixed[c] => U!Used + up[c].size <= Quota + U!Length(Path(c))
  /\ \A d \in Clients : accepted[d] => d = c
  /\ \A h \in Handlers : Lagger(h) => req[h].c = c

\* The index lags behind by one file at most, unless a refresh is to come.
Lags ==
  \/ owed \/ U!Used <= indexed
  \/ \E h \in Handlers : Lagger(h) /\ U!Used <= indexed + U!Length(req[h].path)

QuotaInv == raced \/ (U!Used <= Quota /\ (\A c \in Clients : Fits(c)) /\ Lags)

\* What is stored shrinks, and no path's share of it grows.
Shrinks ==
  /\ U!Used' <= U!Used
  /\ \A q \in Paths : U!Used' + U!Length(q) <= U!Used + U!Length(q)'

(* Lengths are naturals, before a step and after it.                               *)
LEMMA Naturals ==
  ASSUME UInv, UInv'
  PROVE  /\ U!Used \in Nat /\ U!Used' \in Nat /\ Quota \in Nat
         /\ \A q \in Paths : U!Length(q) \in Nat /\ U!Length(q)' \in Nat
         /\ indexed \in Nat /\ indexed' \in Nat
         /\ \A c \in Clients : up[c].size \in Nat /\ Path(c) \in Paths
<1>1. U!Used \in Nat BY UsedIs DEF UInv
<1>2. U!Used' \in Nat
  <2>1. [q \in Paths |-> U!Length(q)'] \in [Paths -> Nat] BY DEF UInv, Typed, U!Length
  <2> QED BY <2>1, SumIs, Given DEF U!Used
<1>3. \A q \in Paths : U!Length(q) \in Nat BY LengthIs DEF UInv
<1>4. \A q \in Paths : U!Length(q)' \in Nat BY DEF UInv, Typed, U!Length
<1>5. Quota \in Nat BY FilesAssumption DEF U!UploadsAssumption
<1>6. \A c \in Clients : up[c].size \in Nat /\ Path(c) \in Paths
  BY DEF UInv, Typed, Managers, Path
<1>7. indexed \in Nat /\ indexed' \in Nat BY DEF UInv, Typed
<1> QED BY <1>1, <1>2, <1>3, <1>4, <1>5, <1>6, <1>7

(* Nothing has become longer or shorter.                                          *)
LEMMA NothingGrows ==
  ASSUME UInv, UInv', \A q \in Paths : U!Length(q)' = U!Length(q)
  PROVE  Shrinks
<1>1. U!Used' = U!Used BY UsedStays
<1> QED BY <1>1, Naturals DEF Shrinks

(* What is at one path has become shorter.                                        *)
LEMMA OneShrinks ==
  ASSUME UInv, UInv', NEW p \in Paths, U!Length(p)' <= U!Length(p),
         \A q \in Paths \ {p} : U!Length(q)' = U!Length(q)
  PROVE  Shrinks
<1>1. U!Used + U!Length(p)' = U!Used' + U!Length(p) BY UsedMoves DEF UInv
<1>2. U!Used' <= U!Used BY <1>1, Naturals
<1>3. ASSUME NEW q \in Paths PROVE U!Used' + U!Length(q) <= U!Used + U!Length(q)'
  BY <1>1, <1>2, Naturals
<1> QED BY <1>2, <1>3 DEF Shrinks

(* Then what is stored still fits.                                               *)
LEMMA ShrinksFits ==
  ASSUME UInv, UInv', QuotaInv, Steady, Shrinks, UNCHANGED <<accepted, raced>>,
         \A c \in Clients : mixed[c] => mixed'[c],
         \A k \in Handlers : Lagger(k)' => Lagger(k) /\ req'[k].c = req[k].c,
         \/ owed' \/ U!Used' <= indexed'
         \/ /\ owed' = owed /\ indexed' = indexed
            /\ \A k \in Handlers : Lagger(k) => Lagger(k)' /\ req'[k].path = req[k].path
  PROVE  QuotaInv'
<1> SUFFICES ASSUME ~raced PROVE U!Used' <= Quota /\ (\A c \in Clients : Fits(c)') /\ Lags'
  BY DEF QuotaInv
<1>1. U!Used <= Quota /\ (\A c \in Clients : Fits(c)) /\ Lags BY DEF QuotaInv
<1>2. U!Used' <= Quota BY <1>1, Naturals DEF Shrinks
<1>3. ASSUME NEW c \in Clients PROVE Fits(c)'
  <2> SUFFICES ASSUME accepted[c]
               PROVE  /\ ~mixed'[c] => U!Used' + up'[c].size <= Quota + U!Length(Path(c))'
                      /\ \A d \in Clients : accepted[d] => d = c
                      /\ \A h \in Handlers : Lagger(h)' => req'[h].c = c
    BY DEF Fits
  <2>1. Fits(c) BY <1>1
  <2>2. PICK q \in Paths : q = Path(c) /\ Path(c)' = q
    BY Naturals DEF Steady, Path
  <2>3. up'[c].size = up[c].size BY DEF Steady
  <2>4. ~mixed'[c] => U!Used + up[c].size <= Quota + U!Length(q) BY <2>1, <2>2 DEF Fits
  <2>5. U!Used' + U!Length(q) <= U!Used + U!Length(q)' BY DEF Shrinks
  <2>6. ~mixed'[c] => U!Used' + up[c].size <= Quota + U!Length(q)' BY <2>4, <2>5, Naturals
  <2>7. U!Length(Path(c))' = U!Length(q)' BY <2>2 DEF U!Length
  <2> QED BY <2>1, <2>3, <2>6, <2>7 DEF Fits
<1>4. Lags'
  <2>1. CASE owed' \/ U!Used' <= indexed' BY <2>1 DEF Lags
  <2>2. CASE /\ owed' = owed /\ indexed' = indexed /\ ~owed
             /\ \A k \in Handlers : Lagger(k) => Lagger(k)' /\ req'[k].path = req[k].path
    <3>1. CASE U!Used <= indexed BY <3>1, <2>2, Naturals DEF Shrinks, Lags
    <3>2. CASE \E h \in Handlers : Lagger(h) /\ U!Used <= indexed + U!Length(req[h].path)
      <4>1. PICK h \in Handlers : Lagger(h) /\ U!Used <= indexed + U!Length(req[h].path) BY <3>2
      <4>2. PICK q \in Paths : q = req[h].path BY <4>1, WorksOn DEF Lagger
      <4>3. Lagger(h)' /\ req'[h].path = q BY <4>1, <4>2, <2>2
      <4>4. U!Used' + U!Length(q) <= U!Used + U!Length(q)' BY DEF Shrinks
      <4>5. U!Used' <= indexed + U!Length(q)' BY <4>1, <4>2, <4>4, Naturals
      <4>6. U!Length(req[h].path)' = U!Length(q)' BY <4>3 DEF U!Length
      <4> QED BY <4>3, <4>5, <4>6, <2>2 DEF Lags
    <3> QED BY <3>1, <3>2, <2>2, <1>1 DEF Lags
  <2> QED BY <2>1, <2>2
<1> QED BY <1>2, <1>3, <1>4

(* A path that keeps its file, as long as it was, keeps its length.                   *)
LEMMA LengthKept ==
  ASSUME NEW q \in Paths, dest'[q] = dest[q],
         dest[q] \in U!Inodes => Len(file'[dest[q]]) = Len(file[dest[q]])
  PROVE  U!Length(q)' = U!Length(q)
BY DEF U!Length

(* A step of the server changes no length at other paths.                            *)
LEMMA OthersLong ==
  ASSUME NEW h \in Handlers, Touches(h)
  PROVE  \A q \in Paths \ {req[h].path} : U!Length(q)' = U!Length(q)
BY LengthKept DEF Touches

(* The requests of the other handlers go on lagging, or not.                         *)
LEMMA OthersLag ==
  ASSUME NEW h \in Handlers, Touches(h), NEW k \in Handlers \ {h}
  PROVE  (Lagger(k)' <=> Lagger(k)) /\ req'[k] = req[k]
BY DEF Touches, Lagger, U!Busy

(* A step of the server that lets nothing grow keeps what fits.                       *)
LEMMA ServeFits ==
  ASSUME UInv, QuotaInv, NEW h \in Handlers, U!Busy(h), Touches(h), UNCHANGED <<accepted, raced>>,
         NEW p \in Paths, p = req[h].path, U!Length(p)' <= U!Length(p),
         Lagger(h)' => Lagger(h),
         owed' \/ U!Used' <= indexed' \/ (UNCHANGED <<owed, indexed>> /\ ~Lagger(h))
  PROVE  QuotaInv'
<1>1. UInv' /\ Steady BY DEF Touches
<1>2. Shrinks BY <1>1, OthersLong, OneShrinks
<1>3. \A c \in Clients : mixed[c] => mixed'[c] BY MeetsIs DEF Touches
<1>4. \A k \in Handlers : Lagger(k)' => Lagger(k) /\ req'[k].c = req[k].c
  BY OthersLag DEF Touches, Lagger
<1>5. ~Lagger(h) => \A k \in Handlers : Lagger(k) => Lagger(k)' /\ req'[k].path = req[k].path
  BY OthersLag
<1> QED BY <1>1, <1>2, <1>3, <1>4, <1>5, ShrinksFits

(* The check: a request that is admitted fits, with all that is not yet counted.       *)
LEMMA CheckFits ==
  ASSUME UInv, QuotaInv, NEW h \in Handlers, U!Check(h)
  PROVE  QuotaInv'
<1>1. /\ Touches(h) /\ U!Busy(h) /\ req[h].at = "arrived" /\ ~Lagger(h)
      /\ UNCHANGED <<temp, dest, file, indexed, owed, mixed>>
  BY TouchCheck DEF U!Check, U!Busy, Lagger
<1>2. PICK p \in Paths, c \in Clients : p = req[h].path /\ c = req[h].c /\ p = Path(c)
  BY <1>1, WorksOn DEF Path
<1>3. UInv' BY <1>1 DEF Touches
<1>4. \A q \in Paths : U!Length(q)' = U!Length(q) BY <1>1, LengthKept
<1>5. ~Lagger(h)'
  <2>1. CASE U!Answer(h, "conflict") \/ U!Answer(h, "error") BY <2>1, <1>1, Over DEF Lagger
  <2>2. CASE U!Goes(h, "open")
    <3>1. req'[h].at = "open" BY <2>2 DEF U!Goes, UInv, Typed
    <3> QED BY <3>1 DEF Lagger
  <2> QED BY <2>1, <2>2 DEF U!Check
<1>6. CASE UNCHANGED <<accepted, raced>>
  <2>1. U!Length(p)' <= U!Length(p) BY <1>3, <1>4, Naturals
  <2> QED BY <2>1, <1>1, <1>2, <1>5, <1>6, ServeFits
<1>7. CASE /\ ~(U!Counted(req[h]) /\ U!quotaExceeded(req[h]))
           /\ accepted' = [accepted EXCEPT ![c] = @ \/ U!Counted(req[h])]
           /\ raced' = (raced \/ (U!Counted(req[h]) /\ U!Uncounted(c)))
           /\ up' = up
  <2>1. CASE ~U!Counted(req[h])
    <3>1. accepted \in [Clients -> BOOLEAN] /\ raced \in BOOLEAN BY DEF UInv, Typed
    <3>2. accepted' = accepted /\ raced' = raced BY <2>1, <3>1, <1>7
    <3>3. U!Length(p)' <= U!Length(p) BY <1>3, <1>4, Naturals
    <3> QED BY <3>2, <3>3, <1>1, <1>2, <1>5, ServeFits
  <2>2. CASE U!Counted(req[h])
    <3> SUFFICES ASSUME ~raced'
                 PROVE  U!Used' <= Quota /\ (\A d \in Clients : Fits(d)') /\ Lags'
      BY DEF QuotaInv
    <3>1. ~raced /\ ~U!Uncounted(c) BY <2>2, <1>7
    <3>2. U!Used <= Quota /\ (\A d \in Clients : Fits(d)) /\ Lags BY <3>1 DEF QuotaInv
    <3>3. U!Used' = U!Used BY <1>4, UsedStays
    <3>4. /\ ~owed /\ \A d \in Clients \ {c} : ~accepted[d]
          /\ \A k \in Handlers : U!Busy(k) => req[k].c = c
      BY <3>1 DEF U!Uncounted
    <3>5. indexed + up[c].size <= Quota
      <4>1. indexed + req[h].size <= Quota
        <5>1. ~(indexed + req[h].size > Quota) BY <2>2, <1>7 DEF U!quotaExceeded
        <5>2. req[h].size \in Nat BY <1>1, WorksOn
        <5> QED BY <5>1, <5>2, <1>3, Naturals
      <4> QED BY <4>1, <1>1, <1>2, WorksOn
    <3>6. U!Used <= indexed + U!Length(p)
      <4>1. CASE U!Used <= indexed BY <4>1, <1>3, Naturals
      <4>2. CASE \E k \in Handlers : Lagger(k) /\ U!Used <= indexed + U!Length(req[k].path)
        <5>1. PICK k \in Handlers : Lagger(k) /\ U!Used <= indexed + U!Length(req[k].path) BY <4>2
        <5>2. req[k].path = p BY <5>1, <3>4, <1>2, WorksOn DEF Lagger, Path
        <5> QED BY <5>1, <5>2
      <4> QED BY <4>1, <4>2, <3>2, <3>4 DEF Lags
    <3>7. U!Used + up[c].size <= Quota + U!Length(p) BY <3>5, <3>6, <1>2, <1>3, Naturals
    <3>8. \A k \in Handlers : Lagger(k)' => k # h /\ req'[k].c = c
      BY <3>4, <1>1, <1>5, OthersLag DEF Lagger
    <3>9. \A d \in Clients : accepted'[d] => d = c
      <4>1. accepted \in [Clients -> BOOLEAN] BY DEF UInv, Typed
      <4> QED BY <4>1, <3>4, <1>7
    <3>10. ASSUME NEW d \in Clients PROVE Fits(d)'
      <4> SUFFICES ASSUME accepted'[d]
                   PROVE  /\ ~mixed'[d] => U!Used' + up'[d].size <= Quota + U!Length(Path(d))'
                          /\ \A e \in Clients : accepted'[e] => e = d
                          /\ \A k \in Handlers : Lagger(k)' => req'[k].c = d
        BY DEF Fits
      <4>1. d = c BY <3>9
      <4>2. Path(c)' = p /\ up'[c].size = up[c].size BY <1>2, <1>7 DEF Path
      <4>3. U!Length(Path(c))' = U!Length(p) BY <4>2, <1>4 DEF U!Length
      <4> QED BY <4>1, <4>2, <4>3, <3>3, <3>7, <3>8, <3>9
    <3>11. Lags'
      <4>1. CASE U!Used <= indexed BY <4>1, <3>3, <1>1 DEF Lags
      <4>2. CASE \E k \in Handlers : Lagger(k) /\ U!Used <= indexed + U!Length(req[k].path)
        <5>1. PICK k \in Handlers : Lagger(k) /\ U!Used <= indexed + U!Length(req[k].path) BY <4>2
        <5>2. k # h BY <5>1, <1>1
        <5>3. Lagger(k)' /\ req'[k] = req[k] BY <5>1, <5>2, <1>1, OthersLag
        <5>4. req[k].path \in Paths BY <5>1, WorksOn DEF Lagger
        <5>5. U!Length(req[k].path)' = U!Length(req[k].path) BY <5>3, <5>4, <1>1 DEF U!Length
        <5> QED BY <5>1, <5>3, <5>5, <3>3, <1>1 DEF Lags
      <4> QED BY <4>1, <4>2, <3>2, <3>4 DEF Lags
    <3> QED BY <3>2, <3>3, <3>10, <3>11
  <2> QED BY <2>1, <2>2
<1> QED BY <1>2, <1>6, <1>7 DEF U!Check

(* Opening the temporary file changes nothing of what is stored.                     *)
LEMMA OpenFits ==
  ASSUME UInv, QuotaInv, NEW h \in Handlers, U!OpenTemp(h)
  PROVE  QuotaInv'
<1>1. /\ U!Busy(h) /\ ~Lagger(h) BY DEF U!OpenTemp, U!Busy, Lagger
<1>2. /\ Touches(h) /\ UNCHANGED <<dest, indexed, owed, accepted, raced>>
      /\ req'[h].at = "write"
      /\ \A q \in Paths : dest[q] \in U!Inodes => file'[dest[q]] = file[dest[q]]
  BY TouchOpen
<1>3. PICK p \in Paths : p = req[h].path BY <1>1, WorksOn
<1>4. UInv' BY <1>2 DEF Touches
<1>5. U!Length(p)' = U!Length(p) BY <1>2, LengthKept
<1>6. U!Length(p)' <= U!Length(p) BY <1>4, <1>5, Naturals
<1>7. ~Lagger(h)' BY <1>2 DEF Lagger
<1> QED BY <1>1, <1>2, <1>3, <1>6, <1>7, ServeFits

(* A chunk is written to a temporary file, or is late and writes where it has been     *)
(* moved to: within it, or the quota has been raced.                               *)
LEMMA WriteFits ==
  ASSUME UInv, QuotaInv, NEW h \in Handlers, U!WriteChunk(h)
  PROVE  QuotaInv'
<1>1. /\ Touches(h) /\ UNCHANGED <<temp, dest, indexed, owed, accepted>>
      /\ U!Busy(h) /\ req[h].at = "write" /\ req[h].fd \in U!Inodes
      /\ \/ /\ file' = [file EXCEPT ![req[h].fd] = U!Put(@, req[h].off, req[h].c)]
            /\ raced' = (raced \/ U!Grows(req[h]))
            /\ IF U!LastChunk(req[h]) THEN GoesOn(h, "move") ELSE U!Answer(h, "ok")
         \/ UNCHANGED <<file, raced>> /\ U!Answer(h, "error")
  BY TouchWrite
<1>2. PICK p \in Paths : p = req[h].path BY <1>1, WorksOn
<1>3. UInv' BY <1>1 DEF Touches
<1>4. ~Lagger(h) BY <1>1 DEF Lagger
<1>5. ~Lagger(h)'
  <2>1. CASE GoesOn(h, "move")
    <3>1. "move" \in Going BY DEF Going
    <3>2. req'[h].at = "move" BY <2>1, <3>1, <1>1, GoesOnIs DEF GoesOn
    <3> QED BY <3>2 DEF Lagger
  <2>2. CASE U!Answer(h, "ok") \/ U!Answer(h, "error") BY <2>2, <1>1, Over DEF Lagger
  <2> QED BY <2>1, <2>2, <1>1
<1>6. CASE UNCHANGED <<file, raced>>
  <2>1. U!Length(p)' = U!Length(p) BY <1>1, <1>6, LengthKept
  <2>2. U!Length(p)' <= U!Length(p) BY <2>1, <1>3, Naturals
  <2> QED BY <2>2, <1>1, <1>2, <1>4, <1>5, <1>6, ServeFits
<1>7. CASE /\ file' = [file EXCEPT ![req[h].fd] = U!Put(@, req[h].off, req[h].c)]
           /\ raced' = (raced \/ U!Grows(req[h]))
  <2> SUFFICES ASSUME ~raced' PROVE QuotaInv' BY DEF QuotaInv
  <2>1. ~raced /\ ~U!Grows(req[h]) /\ raced' = raced
    BY <1>7 DEF UInv, Typed
  <2>2. dest[p] \in U!Inodes => Len(file'[dest[p]]) = Len(file[dest[p]])
    <3> SUFFICES ASSUME dest[p] \in U!Inodes
                 PROVE  Len(file'[dest[p]]) = Len(file[dest[p]])
      OBVIOUS
    <3>1. CASE dest[p] # req[h].fd BY <3>1, <1>7 DEF UInv, Typed
    <3>2. CASE dest[p] = req[h].fd
      <4>1. PICK s \in Seq(Pieces), off \in Nat, c \in Clients :
              s = file[req[h].fd] /\ off = req[h].off /\ c = req[h].c
        BY <1>1, WorksOn DEF UInv, Typed
      <4>2. off < Len(s)
        <5>1. ~(req[h].off >= Len(file[req[h].fd])) BY <3>2, <2>1, <1>2 DEF U!Grows
        <5>2. Len(s) \in Nat OBVIOUS
        <5> QED BY <5>1, <5>2, <4>1
      <4>3. PICK w : w = U!Put(s, off, c) OBVIOUS
      <4>4. Written(w, s, off, c) BY <4>3, PutIs
      <4>5. Len(w) = Len(s) BY <4>2, <4>4 DEF Written
      <4>6. file'[req[h].fd] = w BY <4>1, <4>3, <1>1, <1>7 DEF UInv, Typed
      <4> QED BY <4>1, <4>5, <4>6, <3>2
    <3> QED BY <3>1, <3>2
  <2>3. U!Length(p)' = U!Length(p) BY <2>2, <1>1, LengthKept
  <2>4. U!Length(p)' <= U!Length(p) BY <2>3, <1>3, Naturals
  <2> QED BY <2>1, <2>4, <1>1, <1>2, <1>4, <1>5, ServeFits
<1> QED BY <1>1, <1>6, <1>7

(* What lands fits, if it was accepted and nobody else works on its path.             *)
LEMMA LandsFit ==
  ASSUME UInv, QuotaInv, NEW h \in Handlers, U!Busy(h), Touches(h), U!Lands(req[h]), ~raced',
         NEW p \in Paths, p = req[h].path, NEW c \in Clients, c = req[h].c
  PROVE  /\ ~raced /\ accepted[c] /\ ~mixed[c] /\ p = Path(c)
         /\ U!Used + up[c].size <= Quota + U!Length(p)
         /\ \A k \in Handlers : Lagger(k) => req[k].c = c
         /\ \A d \in Clients : ~accepted'[d]
         /\ U!Used + U!Length(p)' = U!Used' + U!Length(p)
         /\ Lags
<1>1. ~raced /\ accepted[c] /\ ~mixed[c] BY DEF U!Lands
<1>2. p = Path(c) BY WorksOn DEF Path
<1>3. Fits(c) /\ Lags BY <1>1 DEF QuotaInv
<1>4. \A d \in Clients : ~accepted'[d]
  <2>1. accepted \in [Clients -> BOOLEAN] BY DEF UInv, Typed
  <2>2. accepted' = [accepted EXCEPT ![c] = FALSE] BY DEF U!Lands
  <2>3. \A d \in Clients : accepted[d] => d = c BY <1>1, <1>3 DEF Fits
  <2> QED BY <2>1, <2>2, <2>3
<1>5. U!Used + U!Length(p)' = U!Used' + U!Length(p)
  BY OthersLong, UsedMoves DEF UInv, Touches
<1>6. U!Used + up[c].size <= Quota + U!Length(p) BY <1>1, <1>2, <1>3 DEF Fits
<1> QED BY <1>1, <1>2, <1>3, <1>4, <1>5, <1>6 DEF Fits

(* The whole file goes to its path.                                              *)
LEMMA MoveFits ==
  ASSUME UInv, WholeInv, QuotaInv, NEW h \in Handlers, U!MoveFile(h)
  PROVE  QuotaInv'
<1>1. /\ Touches(h) /\ UNCHANGED indexed /\ U!Busy(h) /\ req[h].at = "move"
      /\ \/ /\ UNCHANGED <<temp, dest, file, removing, owed, accepted, raced>>
            /\ U!Answer(h, "error")
         \/ /\ temp[req[h].path] # U!None /\ dest'[req[h].path] \in U!Inodes
            /\ file'[dest'[req[h].path]] = file[temp[req[h].path]]
            /\ U!Answer(h, "ok") /\ owed' = TRUE /\ U!Lands(req[h])
  BY TouchMove
<1>2. PICK p \in Paths, c \in Clients : p = req[h].path /\ c = req[h].c BY <1>1, WorksOn
<1>3. UInv' BY <1>1 DEF Touches
<1>4. ~Lagger(h) /\ ~Lagger(h)'
  <2>1. U!Answer(h, "ok") \/ U!Answer(h, "error") BY <1>1
  <2>2. ~U!Busy(h)' BY <2>1, <1>1, Over
  <2> QED BY <2>2, <1>1 DEF Lagger
<1>5. CASE UNCHANGED <<temp, dest, file, removing, owed, accepted, raced>>
  <2>1. U!Length(p)' = U!Length(p) BY <1>5, LengthKept
  <2>2. U!Length(p)' <= U!Length(p) BY <2>1, <1>3, Naturals
  <2> QED BY <2>2, <1>1, <1>2, <1>4, <1>5, ServeFits
<1>6. CASE /\ temp[p] # U!None /\ dest'[p] \in U!Inodes
           /\ file'[dest'[p]] = file[temp[p]]
           /\ owed' = TRUE /\ U!Lands(req[h])
  <2> SUFFICES ASSUME ~raced' PROVE QuotaInv' BY DEF QuotaInv
  <2>1. /\ ~mixed[c] /\ p = Path(c)
        /\ U!Used + up[c].size <= Quota + U!Length(p)
        /\ \A d \in Clients : ~accepted'[d]
        /\ U!Used + U!Length(p)' = U!Used' + U!Length(p)
    BY <1>1, <1>2, <1>6, LandsFit
  <2>2. U!Length(p)' = Len(file[temp[p]]) BY <1>6 DEF U!Length
  <2>3. Len(file[temp[p]]) <= up[c].size BY <2>1, <1>6 DEF WholeInv, Each, Within
  <2>4. U!Used' <= Quota BY <2>1, <2>2, <2>3, <1>3, Naturals
  <2> QED BY <2>1, <2>4, <1>6 DEF QuotaInv, Fits, Lags
<1> QED BY <1>1, <1>2, <1>5, <1>6

(* A file is emptied.                                                          *)
LEMMA TruncateFits ==
  ASSUME UInv, QuotaInv, NEW h \in Handlers, U!Truncate(h)
  PROVE  QuotaInv'
<1>1. /\ Touches(h) /\ UNCHANGED <<indexed, owed, accepted, raced>>
      /\ U!Busy(h) /\ req'[h].at = "write"
      /\ dest'[req[h].path] \in U!Inodes /\ file'[dest'[req[h].path]] = << >>
  BY TouchTruncate
<1>2. PICK p \in Paths : p = req[h].path BY <1>1, WorksOn
<1>3. ~Lagger(h) /\ ~Lagger(h)' BY <1>1 DEF Lagger, U!Truncate
<1>4. UInv' BY <1>1 DEF Touches
<1>5. U!Length(p)' = 0 BY <1>1, <1>2 DEF U!Length
<1>6. U!Length(p)' <= U!Length(p) BY <1>4, <1>5, Naturals
<1> QED BY <1>1, <1>2, <1>3, <1>6, ServeFits

(* A file is filled: the index lags behind by what is filled.                       *)
LEMMA FillFits ==
  ASSUME UInv, QuotaInv, NEW h \in Handlers, U!Fill(h)
  PROVE  QuotaInv'
<1>1. /\ Touches(h) /\ UNCHANGED <<dest, indexed, owed>>
      /\ U!Busy(h) /\ req[h].at = "write" /\ req[h].kind \in {"plain", "save"}
      /\ req[h].fd \in U!Inodes
      /\ \/ /\ file' = [file EXCEPT ![req[h].fd] = U!Put(@, 0, req[h].c)] /\ U!Lands(req[h])
            /\ U!Busy(h)' /\ req'[h].at = "refresh" /\ req'[h].kind = req[h].kind
            /\ req'[h].path = req[h].path
         \/ UNCHANGED <<file, accepted, raced>> /\ U!Answer(h, "error")
  BY TouchFill
<1>2. PICK p \in Paths, c \in Clients : p = req[h].path /\ c = req[h].c BY <1>1, WorksOn
<1>3. UInv' BY <1>1 DEF Touches
<1>4. ~Lagger(h) BY <1>1 DEF Lagger
<1>5. CASE UNCHANGED <<file, accepted, raced>> /\ U!Answer(h, "error")
  <2>1. U!Length(p)' = U!Length(p) BY <1>1, <1>5, LengthKept
  <2>2. U!Length(p)' <= U!Length(p) BY <2>1, <1>3, Naturals
  <2>3. ~Lagger(h)' BY <1>1, <1>5, Over DEF Lagger
  <2> QED BY <2>2, <2>3, <1>1, <1>2, <1>4, <1>5, ServeFits
<1>6. CASE /\ file' = [file EXCEPT ![req[h].fd] = U!Put(@, 0, req[h].c)] /\ U!Lands(req[h])
           /\ U!Busy(h)' /\ req'[h].at = "refresh" /\ req'[h].kind = req[h].kind
           /\ req'[h].path = req[h].path
  <2> SUFFICES ASSUME ~raced' PROVE U!Used' <= Quota /\ (\A d \in Clients : Fits(d)') /\ Lags'
    BY DEF QuotaInv
  <2>1. /\ p = Path(c) /\ ~raced
        /\ U!Used + up[c].size <= Quota + U!Length(p)
        /\ \A k \in Handlers : Lagger(k) => req[k].c = c
        /\ \A d \in Clients : ~accepted'[d]
        /\ U!Used + U!Length(p)' = U!Used' + U!Length(p)
        /\ Lags
    BY <1>1, <1>2, <1>6, LandsFit
  <2>2. up[c].size = 1
    <3>1. up[c].kind = req[h].kind BY <1>1, <1>2, WorksOn
    <3> QED BY <3>1, <1>1 DEF UInv, SentOK
  <2>3. U!Length(p)' <= IF U!Length(p) > 1 THEN U!Length(p) ELSE 1
    <3>1. CASE dest[p] # req[h].fd \/ dest[p] \notin U!Inodes
      <4>1. dest[p] \in U!Inodes => file'[dest[p]] = file[dest[p]]
        BY <3>1, <1>6 DEF UInv, Typed
      <4>2. U!Length(p)' = U!Length(p) BY <4>1, <1>1, LengthKept
      <4> QED BY <4>2, <1>3, Naturals
    <3>2. CASE dest[p] = req[h].fd /\ dest[p] \in U!Inodes
      <4>a. PICK s \in Seq(Pieces) : s = file[req[h].fd] BY <1>1 DEF UInv, Typed
      <4>b. PICK w : w = U!Put(s, 0, c) OBVIOUS
      <4>1. s = file[req[h].fd] /\ w = U!Put(s, 0, c) BY <4>a, <4>b
      <4>2. Written(w, s, 0, c) BY <4>1, PutIs
      <4>3. Len(w) = IF 0 < Len(s) THEN Len(s) ELSE 0 + 1 BY <4>2 DEF Written
      <4>4. Len(s) \in Nat OBVIOUS
      <4>5. file'[req[h].fd] = w BY <4>1, <1>1, <1>2, <1>6 DEF UInv, Typed
      <4>6. U!Length(p) = Len(s) /\ U!Length(p)' = Len(w)
        BY <4>1, <4>5, <3>2, <1>1 DEF U!Length
      <4> QED BY <4>3, <4>4, <4>6
    <3> QED BY <3>1, <3>2
  <2>4. U!Used' <= Quota
    <3>1. /\ U!Used \in Nat /\ U!Used' \in Nat /\ Quota \in Nat
          /\ U!Length(p) \in Nat /\ U!Length(p)' \in Nat
      BY <1>3, Naturals
    <3>2. U!Used + 1 <= Quota + U!Length(p) /\ U!Used <= Quota
      BY <2>1, <2>2 DEF QuotaInv
    <3>3. CASE U!Length(p) > 1
      <4>1. U!Length(p)' <= U!Length(p) BY <2>3, <3>3
      <4> QED BY <4>1, <3>1, <3>2, <2>1
    <3>4. CASE ~(U!Length(p) > 1)
      <4>1. U!Length(p)' <= 1 BY <2>3, <3>4
      <4> QED BY <4>1, <3>1, <3>2, <2>1
    <3> QED BY <3>3, <3>4
  <2>5. \A d \in Clients : Fits(d)' BY <2>1 DEF Fits
  <2>6. Lagger(h)' BY <1>1, <1>6 DEF Lagger
  <2>7. Lags'
    <3>1. CASE owed BY <3>1, <1>1 DEF Lags
    <3>2. CASE U!Used <= indexed + U!Length(p)
      <4>1. U!Used' <= indexed + U!Length(p)' BY <3>2, <2>1, <1>3, Naturals
      <4>2. U!Length(req[h].path)' = U!Length(p)' BY <1>2, <1>6 DEF U!Length
      <4> QED BY <4>1, <4>2, <2>6, <1>1 DEF Lags
    <3>3. CASE U!Used <= indexed
      <4>1. U!Used <= indexed + U!Length(p) BY <3>3, <1>3, Naturals
      <4> QED BY <4>1, <3>2
    <3>4. CASE \E k \in Handlers : Lagger(k) /\ U!Used <= indexed + U!Length(req[k].path)
      <4>1. PICK k \in Handlers : Lagger(k) /\ U!Used <= indexed + U!Length(req[k].path) BY <3>4
      <4>2. req[k].path = p BY <4>1, <2>1, WorksOn DEF Lagger, Path
      <4> QED BY <4>1, <4>2, <3>2
    <3> QED BY <3>1, <3>3, <3>4, <2>1 DEF Lags
  <2> QED BY <2>4, <2>5, <2>7
<1> QED BY <1>1, <1>5, <1>6

(* A folder takes no room.                                                       *)
LEMMA FolderFits ==
  ASSUME UInv, QuotaInv, NEW h \in Handlers, U!WriteDirectory(h)
  PROVE  QuotaInv'
<1>1. /\ Touches(h) /\ UNCHANGED <<indexed, owed, accepted, raced>>
      /\ U!Busy(h) /\ req[h].kind = "folder" /\ dest'[req[h].path] = U!Folder
      /\ req'[h].kind = "folder"
  BY TouchFolder
<1>2. PICK p \in Paths : p = req[h].path BY <1>1, WorksOn
<1>3. ~Lagger(h) /\ ~Lagger(h)' BY <1>1 DEF Lagger
<1>4. UInv' BY <1>1 DEF Touches
<1>5. U!Length(p)' = 0 BY <1>1, <1>2, Given DEF U!Length
<1>6. U!Length(p)' <= U!Length(p) BY <1>4, <1>5, Naturals
<1> QED BY <1>1, <1>2, <1>3, <1>6, ServeFits

(* The index is refreshed before the answer.                                      *)
LEMMA RefreshFits ==
  ASSUME UInv, QuotaInv, NEW h \in Handlers, U!RefreshAndAnswer(h)
  PROVE  QuotaInv'
<1>1. /\ Touches(h) /\ UNCHANGED <<temp, dest, file, accepted, raced>>
      /\ U!Busy(h) /\ U!Answer(h, "ok") /\ indexed' = U!Used
  BY TouchRefresh
<1>2. PICK p \in Paths : p = req[h].path BY <1>1, WorksOn
<1>3. UInv' BY <1>1 DEF Touches
<1>4. \A q \in Paths : U!Length(q)' = U!Length(q) BY <1>1, LengthKept
<1>5. U!Used' = U!Used BY <1>4, UsedStays
<1>6. U!Used' <= indexed' BY <1>1, <1>3, <1>5, Naturals
<1>7. U!Length(p)' <= U!Length(p) BY <1>3, <1>4, Naturals
<1>8. ~Lagger(h)' BY <1>1, Over DEF Lagger
<1> QED BY <1>1, <1>2, <1>6, <1>7, <1>8, ServeFits

(* A browser that sends changes nothing of what is stored.                          *)
LEMMA SendsFits ==
  ASSUME UInv, QuotaInv, NEW c \in Clients, NEW h \in Handlers, Sends(c, h)
  PROVE  QuotaInv'
<1>1. /\ UNCHANGED <<temp, dest, file, indexed, owed, accepted, raced>>
      /\ \A d \in Clients : mixed[d] => mixed'[d]
  BY SendsIs
<1>2. /\ \A k \in Handlers \ {h} : req'[k] = req[k]
      /\ Steady /\ req'[h].at = "arrived" /\ ~U!Busy(h)
  <2>1. PICK off \in Nat, over \in BOOLEAN : off < up[c].size /\ U!Request(c, h, off, over)
    BY SendsIs
  <2>2. up[c].at # "sending" BY SendsIs
  <2> QED BY <2>1, <2>2, <1>1, Asks
<1>3. UInv' BY SendsTypes
<1>4. Shrinks BY <1>1, <1>3, LengthKept, NothingGrows
<1>5. \A k \in Handlers : (Lagger(k)' => Lagger(k) /\ req'[k].c = req[k].c)
                       /\ (Lagger(k) => Lagger(k)' /\ req'[k].path = req[k].path)
  BY <1>2 DEF Lagger, U!Busy
<1> QED BY <1>1, <1>2, <1>3, <1>4, <1>5, ShrinksFits

(* Nor does one that turns away.                                                 *)
LEMMA LeaveFits ==
  ASSUME UInv, QuotaInv, NEW c \in Clients, U!Leave(c)
  PROVE  QuotaInv'
<1>1. /\ UInv' /\ Steady
      /\ UNCHANGED <<req, temp, dest, file, indexed, owed, mixed, accepted, raced>>
  BY LeaveIs
<1>2. Shrinks BY <1>1, LengthKept, NothingGrows
<1>3. \A k \in Handlers : Lagger(k)' = Lagger(k) BY <1>1 DEF Lagger, U!Busy
<1> QED BY <1>1, <1>2, <1>3, ShrinksFits

(* A temporary file counts for nothing.                                           *)
LEMMA RemoveFits ==
  ASSUME UInv, QuotaInv, NEW p \in Paths, U!RemoveTemp(p)
  PROVE  QuotaInv'
<1>1. UInv' /\ UNCHANGED <<up, req, dest, file, indexed, owed, mixed, accepted, raced>>
  BY RemoveIs
<1>2. Shrinks BY <1>1, LengthKept, NothingGrows
<1>3. \A k \in Handlers : Lagger(k)' = Lagger(k) BY <1>1 DEF Lagger, U!Busy
<1> QED BY <1>1, <1>2, <1>3, ShrinksFits DEF Steady

(* A deletion makes room.                                                        *)
LEMMA DeleteFits ==
  ASSUME UInv, QuotaInv, NEW p \in Paths, U!DeleteFiles(p)
  PROVE  QuotaInv'
<1>1. /\ UInv' /\ dest'[p] = U!None /\ \A q \in Paths \ {p} : dest'[q] = dest[q]
      /\ mixed' = [c \in Clients |-> mixed[c] \/ up[c].path = p] /\ owed' = TRUE
      /\ UNCHANGED <<up, req, file, accepted, raced>>
  BY DeleteIs
<1>2. U!Length(p)' = 0 BY <1>1, Given DEF U!Length
<1>3. U!Length(p)' <= U!Length(p) BY <1>1, <1>2, Naturals
<1>4. Shrinks BY <1>1, <1>3, LengthKept, OneShrinks
<1>5. \A k \in Handlers : Lagger(k)' = Lagger(k) BY <1>1 DEF Lagger, U!Busy
<1> QED BY <1>1, <1>4, <1>5, ShrinksFits DEF Steady

(* The goroutine's refresh.                                                     *)
LEMMA IndexFits ==
  ASSUME UInv, QuotaInv, U!RefreshIndex
  PROVE  QuotaInv'
<1>1. /\ UInv' /\ indexed' = U!Used
      /\ UNCHANGED <<up, req, temp, dest, file, mixed, accepted, raced>>
  BY RefreshIs
<1>2. \A q \in Paths : U!Length(q)' = U!Length(q) BY <1>1, LengthKept
<1>3. Shrinks BY <1>1, <1>2, NothingGrows
<1>4. U!Used' = U!Used BY <1>2, UsedStays
<1>5. U!Used' <= indexed' BY <1>1, <1>4, Naturals
<1>6. \A k \in Handlers : Lagger(k)' = Lagger(k) BY <1>1 DEF Lagger, U!Busy
<1> QED BY <1>1, <1>3, <1>5, <1>6, ShrinksFits DEF Steady

(* The scan after a restart.                                                    *)
LEMMA RestartFits ==
  ASSUME UInv, QuotaInv, U!Restart
  PROVE  QuotaInv'
<1>1. /\ UInv' /\ Steady /\ \A k \in Handlers : ~U!Busy(k)'
      /\ indexed' = U!Used /\ UNCHANGED <<temp, dest, file, mixed, accepted, raced>>
  BY RestartIs DEF Steady
<1>2. \A q \in Paths : U!Length(q)' = U!Length(q) BY <1>1, LengthKept
<1>3. Shrinks BY <1>1, <1>2, NothingGrows
<1>4. U!Used' = U!Used BY <1>2, UsedStays
<1>5. U!Used' <= indexed' BY <1>1, <1>4, Naturals
<1>6. \A k \in Handlers : ~Lagger(k)' BY <1>1 DEF Lagger
<1> QED BY <1>1, <1>3, <1>5, <1>6, ShrinksFits

(* Before the first request nothing is stored.                                     *)
LEMMA QuotaStart == U!Init => QuotaInv
<1> SUFFICES ASSUME U!Init PROVE QuotaInv OBVIOUS
<1>1. UInv /\ dest = [p \in Paths |-> U!None] /\ accepted = [c \in Clients |-> FALSE]
  BY UploadsStart DEF U!Init
<1>2. \A p \in Paths : U!Length(p) = 0
  <2>1. \A p \in Paths : dest[p] \notin U!Inodes BY <1>1, Given
  <2> QED BY <2>1 DEF U!Length
<1>3. U!Used = 0
  <2> DEFINE f == [p \in Paths |-> U!Length(p)]
  <2>1. f \in [Paths -> Nat] /\ \A p \in Paths : f[p] = 0 BY <1>2
  <2>2. U!SumFunction(f) = 0 BY <2>1, SumNothing, Given
  <2> QED BY <2>2 DEF U!Used
<1>4. Quota \in Nat /\ indexed \in Nat
  BY <1>1, FilesAssumption DEF U!UploadsAssumption, UInv, Typed
<1>5. U!Used <= Quota /\ U!Used <= indexed BY <1>3, <1>4
<1> QED BY <1>1, <1>5 DEF QuotaInv, Fits, Lags

-------------------------------------------------------------------------------
(* Uploads.  The theorem.                                                      *)

UploadsInv == UInv /\ WholeInv /\ QuotaInv

(* A refresh of the index touches no file.                                         *)
LEMMA RefreshWhole ==
  ASSUME UInv, WholeInv, U!RefreshIndex
  PROVE  WholeInv'
<1>1. UNCHANGED <<up, req, temp, dest, file, removing, mixed, again>> BY RefreshIs
<1>2. ASSUME NEW d \in Clients PROVE Each(d)'
  <2>1. Spared(d) BY <1>1 DEF Spared, U!Busy
  <2> QED BY <2>1, SparedIs DEF WholeInv
<1> QED BY <1>2 DEF WholeInv

(* Whatever a handler does.                                                       *)
LEMMA ServeKeeps ==
  ASSUME UploadsInv, NEW h \in Handlers, U!Serve(h)
  PROVE  UploadsInv'
<1>1. UInv /\ WholeInv /\ QuotaInv BY DEF UploadsInv
<1>2. UInv' BY <1>1, ServeTouches DEF Touches
<1>3. WholeInv' BY <1>1, ServeWhole
<1>4. QuotaInv'
  BY <1>1, CheckFits, OpenFits, WriteFits, MoveFits, TruncateFits, FillFits, FolderFits,
     RefreshFits DEF U!Serve
<1> QED BY <1>2, <1>3, <1>4 DEF UploadsInv

(* Whatever a browser does.                                                       *)
LEMMA BrowserKeeps ==
  ASSUME UploadsInv, NEW c \in Clients, U!Browser(c)
  PROVE  UploadsInv'
<1>1. UInv /\ WholeInv /\ QuotaInv BY DEF UploadsInv
<1>2. CASE U!Leave(c)
  BY <1>1, <1>2, LeaveIs, LeaveWhole, LeaveFits DEF UploadsInv
<1>3. CASE \E h \in Handlers : Sends(c, h)
  <2>1. PICK h \in Handlers : Sends(c, h) BY <1>3
  <2> QED BY <1>1, <2>1, SendsTypes, SendsWhole, SendsFits DEF UploadsInv
<1> QED BY <1>2, <1>3 DEF U!Browser, Sends

(* Every step of the uploads keeps the invariant.                                  *)
LEMMA UploadsStep == UploadsInv /\ [U!Next]_(U!vars) => UploadsInv'
<1> SUFFICES ASSUME UploadsInv, [U!Next]_(U!vars) PROVE UploadsInv' OBVIOUS
<1>1. UInv /\ WholeInv /\ QuotaInv BY DEF UploadsInv
<1>2. CASE \E c \in Clients : U!Browser(c) BY <1>2, BrowserKeeps
<1>3. CASE \E h \in Handlers : U!Serve(h) BY <1>3, ServeKeeps
<1>4. ASSUME NEW p \in Paths, U!RemoveTemp(p) PROVE UploadsInv'
  BY <1>1, <1>4, RemoveIs, RemoveWhole, RemoveFits DEF UploadsInv
<1>5. ASSUME NEW p \in Paths, U!DeleteFiles(p) PROVE UploadsInv'
  BY <1>1, <1>5, DeleteIs, DeleteWhole, DeleteFits DEF UploadsInv
<1>6. CASE U!RefreshIndex
  BY <1>1, <1>6, RefreshIs, RefreshWhole, IndexFits DEF UploadsInv
<1>7. CASE U!Restart
  BY <1>1, <1>7, RestartIs, RestartWhole, RestartFits DEF UploadsInv
<1>8. CASE UNCHANGED U!vars
  <2>1. UNCHANGED <<up, req, temp, dest, file, removing, indexed, owed, oneVolume, mishaps,
                    mixed, again, accepted, raced>>
    BY <1>8 DEF U!vars
  <2>2. UInv'
    BY <1>1, <2>1 DEF UInv, Typed, SentOK, WorkOK, OneHome, U!Busy, U!LastChunk
  <2>3. ASSUME NEW d \in Clients PROVE Each(d)'
    <3>1. Spared(d) BY <2>1 DEF Spared, U!Busy
    <3> QED BY <3>1, <1>1, SparedIs DEF WholeInv
  <2>4. \A q \in Paths : U!Length(q)' = U!Length(q) BY <2>1, LengthKept
  <2>5. Shrinks BY <1>1, <2>2, <2>4, NothingGrows
  <2>6. \A k \in Handlers : Lagger(k)' = Lagger(k) BY <2>1 DEF Lagger, U!Busy
  <2>7. QuotaInv' BY <1>1, <2>1, <2>2, <2>5, <2>6, ShrinksFits DEF Steady
  <2> QED BY <2>2, <2>3, <2>7 DEF UploadsInv, WholeInv
<1> QED BY <1>2, <1>3, <1>4, <1>5, <1>6, <1>7, <1>8 DEF U!Next

(* The invariant says what is whole, and what is stored.                            *)
LEMMA UploadsTells == UploadsInv => U!UploadsTyped /\ U!Whole /\ U!QuotaHeld
<1> SUFFICES ASSUME UploadsInv PROVE U!UploadsTyped /\ U!Whole /\ U!QuotaHeld OBVIOUS
<1>1. UInv /\ WholeInv /\ QuotaInv BY DEF UploadsInv
<1>2. U!UploadsTyped
  <2>1. \A c \in Clients : up[c] \in Managers BY <1>1 DEF UInv, Typed
  <2>2. \A c \in Clients : /\ up[c].at \in U!Waiting /\ up[c].off < up[c].size
                           /\ up[c].at = "sending" => req[up[c].by].c = c
    BY <1>1, <2>1 DEF UInv, SentOK, Managers
  <2>3. \A p, q \in Paths : /\ dest[p] \in U!Inodes => dest[p] # temp[q]
                            /\ (dest[p] = dest[q] /\ dest[p] \in U!Inodes) => p = q
    BY <1>1 DEF UInv, OneHome
  <2>4. \A i \in U!Inodes : file[i] \in Seq(Clients \cup {U!Hole})
    BY <1>1 DEF UInv, Typed, Pieces
  <2>5. /\ temp \in [Paths -> U!Inodes \cup {U!None}]
        /\ dest \in [Paths -> U!Inodes \cup {U!None, U!Folder}] /\ indexed \in Nat
    BY <1>1 DEF UInv, Typed
  <2> QED BY <2>2, <2>3, <2>4, <2>5 DEF U!UploadsTyped
<1>3. U!Whole
  <2> SUFFICES ASSUME NEW c \in Clients, up[c].at = "done", up[c].kind # "folder",
                      ~mixed[c], ~again[c]
               PROVE  dest[up[c].path] \in U!Inodes /\ file[dest[up[c].path]] = U!Sent(c)
    BY DEF U!Whole
  <2>1. Each(c) /\ Lone(c) BY <1>1 DEF WholeInv, Lone
  <2>2. up[c].kind \in {"chunks", "plain", "save"}
    BY <1>1 DEF UInv, Typed, Managers, U!Kinds
  <2>3. Arrived(c) BY <2>1, <2>2 DEF Each, Chunked, Single
  <2> QED BY <2>3 DEF Arrived, Path
<1>4. U!QuotaHeld BY <1>1 DEF QuotaInv, U!QuotaHeld
<1> QED BY <1>2, <1>3, <1>4

(* An upload the browser reports as complete is at its path, whole and in order,        *)
(* however often it was paused, interrupted, resumed or retried and whenever the server *)
(* was restarted, unless others worked on the path or its last chunk was sent twice;   *)
(* and what is stored stays within the quota, unless uploads raced for what is left of  *)
(* it: for any number of browsers, requests at a time, paths and chunks, whether the    *)
(* temporary files are renamed or copied.                                           *)
THEOREM UploadsWholeAlways == FilesSpec => []UploadsAreWhole
<1> DEFINE Inv == part = "uploads" => UploadsInv
<1>1. FilesInit => Inv
  BY UploadsStart, WholeStart, QuotaStart DEF FilesInit, UploadsInv
<1>2. Inv /\ [FilesNext]_filesVars => Inv'
  <2> SUFFICES ASSUME Inv, [FilesNext]_filesVars, part' = "uploads" PROVE UploadsInv' OBVIOUS
  <2>1. CASE part = "uploads" /\ U!Next /\ part' = part
    BY <2>1, UploadsStep
  <2>2. CASE UNCHANGED filesVars
    <3>1. part = "uploads" /\ UNCHANGED U!vars BY <2>2 DEF filesVars, uploadVars, U!vars
    <3> QED BY <3>1, UploadsStep
  <2> QED BY <2>1, <2>2 DEF FilesNext
<1>3. Inv => UploadsAreWhole BY UploadsTells DEF UploadsAreWhole
<1> QED BY <1>1, <1>2, <1>3, PTL DEF FilesSpec
===============================================================================
