-------------------------------- MODULE Shares --------------------------------
(***************************************************************************)
(* Share links (backend/database/share, backend/http/share.go) and the       *)
(* downloads made through them (middleware.go, public.go).                   *)
(*                                                                          *)
(* A link is a record of BoltDB and an object in memory that all requests    *)
(* share by pointer.  Its counters live in the object only, until an edit or *)
(* the shutdown saves them.  Every map has a lock of its own, so a request is *)
(* several steps, and two requests may work on two objects of one link.      *)
(***************************************************************************)
EXTENDS Integers, Sequences, FiniteSets, Functions

CONSTANTS
  Nil,
  Hashes,    \* the links
  Reqs,      \* request slots: how many requests run at once
  Users,     \* users with an account
  Anon,      \* a visitor without one
  Paths,     \* paths of the source, as sequences of names
  Moves,     \* <<old, new>>: what users may move where
  Files,     \* the paths at which there is a file or directory at first
  Terms,     \* what users choose for a link: limit (0 for none), perUser, keep, brief
  Objs,      \* addresses of objects: 1 .. enough
  MaxServed, \* bound: counted downloads at which no more are let through
  MaxNow     \* bound: the clock

VARIABLES
  bolt,     \* the records
  cache,    \* Storage.shareCache: the object of each link
  heap,     \* the objects
  now,      \* the clock
  flush,    \* the links Flush has still to save, with their objects; Nil while up
  at,       \* per request: its place, link, caller, object and argument
  mover,    \* the goroutine UpdateShares of a move
  born,     \* the hashes given out
  files,    \* the paths at which there is a file or directory

  \* history: what no variable of the program remembers
  served,   \* per link, the downloads let through since the limit was set, in all
            \* and per user; after a crash those a record remembers
  gone,     \* links whose owner was told they are deleted
  target,   \* where what a link was made for is now
  excuse    \* per link, what has happened that may cost it its state

vars == <<bolt, cache, heap, now, flush, at, mover, born, files, served, gone, target, excuse>>

Callers == Users \cup {Anon}

(* Of a Link, what the properties tell apart.                                  *)
Links == [path : Paths, limit : Nat, perUser : BOOLEAN, keep : BOOLEAN,
          expire : 0 .. MaxNow, n : Nat, by : [Users -> Nat]]

Config(l) == [f \in {"path", "limit", "perUser", "keep", "expire"} |-> l[f]]
Zero == [n |-> 0, by |-> [u \in Users |-> 0]]
Counted(l, c) == [l EXCEPT !.n = c.n, !.by = c.by]
Expired(l) == l.expire # 0 /\ l.expire <= now

IdleReq == [pc |-> "idle", h |-> Nil, obj |-> Nil, arg |-> Nil]
NoMove == [old |-> Nil, new |-> Nil, read |-> Nil, todo |-> {}, h |-> Nil, obj |-> Nil]

\* strings.Index(l.Path, oldPath) >= 0, both with trailing slashes.
Within(p, old) ==
  \E i \in 1 .. Len(p) : i + Len(old) - 1 <= Len(p) /\ SubSeq(p, i, i + Len(old) - 1) = old

Below(p, dir) == Len(p) > Len(dir) /\ SubSeq(p, 1, Len(dir)) = dir

\* What is at p, or in it, goes from old to new.
Moved(p, old, new) ==
  IF p = old \/ Below(p, old) THEN new \o SubSeq(p, Len(old) + 1, Len(p)) ELSE p

(* What the proofs take of the constants: there is room in memory for what is      *)
(* referred to, nothing is Nil, and a move stays within the paths and is never of   *)
(* the source as a whole.                                                        *)
SharesAssumption ==
  /\ IsFiniteSet(Hashes) /\ IsFiniteSet(Reqs) /\ IsFiniteSet(Objs)
  /\ Cardinality(Objs) > 2 * Cardinality(Hashes) + Cardinality(Reqs) + 1
  /\ MaxNow \in Nat \ {0}
  /\ Paths \subseteq Seq(UNION {Range(p) : p \in Paths})
  /\ Files \subseteq Paths /\ Moves \subseteq Paths \X Paths /\ \A m \in Moves : m[1] # <<>>
  /\ \A m \in Moves, p \in Paths : Moved(p, m[1], m[2]) \in Paths
  /\ Terms \subseteq [limit : Nat, perUser : BOOLEAN, keep : BOOLEAN, brief : BOOLEAN]
  /\ Anon \notin Users
  /\ Nil \notin Hashes /\ Nil \notin Objs /\ Nil \notin Paths /\ Nil \notin Links
  /\ Nil \notin [Hashes -> Links \cup {Nil}] /\ \A f \in SUBSET (Hashes \X Objs) : f # Nil

-------------------------------------------------------------------------------
(* Memory: an object that nothing refers to any more is collected.             *)

Refs(c, a, f, m) ==
  {c[h] : h \in Hashes} \cup {a[r].obj : r \in Reqs} \cup {m.obj}
  \cup (IF f = Nil THEN {} ELSE {e[2] : e \in f})

Memory(hp) == heap' = [o \in Objs |-> IF o \in Refs(cache', at', flush', mover') THEN hp[o] ELSE Nil]

NewObj == CHOOSE o \in Objs : heap[o] = Nil

Obj(r) == heap[at[r].obj]
Hash(r) == at[r].h
Goto(r, place) == at' = [at EXCEPT ![r].pc = place]
Reply(r) == at' = [at EXCEPT ![r] = IdleReq]

-------------------------------------------------------------------------------
(* What two requests for one link may do to each other is noted as soon as both *)
(* are under way.                                                              *)

At(h, a, places) == {r \in Reqs : a[r].h = h /\ a[r].pc \in places}
Editing(h, a) == At(h, a, {"save", "recache", "savepath", "repath"}) # {}
Deleting(h, a) == At(h, a, {"uncache", "orphan", "purge", "purgebolt", "drop"}) # {}
Flushing(h, f) == f # Nil /\ \E e \in f : e[1] = h

\* Someone has read the link and may yet write it back.
Holding(h, a, f, m) ==
  Editing(h, a) \/ At(h, a, {"fill", "listfill"}) # {} \/ Flushing(h, f) \/ h \in m.todo

Overlaps(h, a, f, m) ==
  {x \in {"delete"} : Deleting(h, a) /\ Holding(h, a, f, m)}
  \cup {x \in {"move"} : m # NoMove /\ (Editing(h, a) \/ Flushing(h, f))}
  \cup {x \in {"patch"} : Cardinality(At(h, a, {"savepath", "repath"})) > 1}

\* The last conjunct of every action: the excuses add, and the overlaps begun.
Note(add) ==
  excuse' = [h \in Hashes |-> excuse[h] \cup add[h] \cup Overlaps(h, at', flush', mover')]
Nothing == [h \in Hashes |-> {}]
Only(h, x) == [Nothing EXCEPT ![h] = {x}]

\* The object of request r is no longer the link's; or it is about to displace another.
Detached(r) == IF cache[Hash(r)] = at[r].obj THEN Nothing ELSE Only(Hash(r), "delete")
Doubled(r) == IF cache[Hash(r)] \in {Nil, at[r].obj} THEN Nothing ELSE Only(Hash(r), "doubled")

-------------------------------------------------------------------------------
Init ==
  /\ bolt = [h \in Hashes |-> Nil] /\ cache = bolt /\ target = bolt
  /\ heap = [o \in Objs |-> Nil]
  /\ now = 1 /\ flush = Nil /\ mover = NoMove /\ born = {}
  /\ files = Files
  /\ at = [r \in Reqs |-> IdleReq]
  /\ served = [h \in Hashes |-> Zero]
  /\ gone = {} /\ excuse = Nothing

(* A request for a link, or a list it is in.  The public handlers look the link  *)
(* up once in each middleware: the first look-up is a request of its own here. *)
Open(r, h) ==
  /\ at[r].pc = "idle" /\ h \in born
  /\ \E place \in {"get", "list"} : at' = [at EXCEPT ![r] = [IdleReq EXCEPT !.pc = place, !.h = h]]
  /\ UNCHANGED <<bolt, cache, heap, now, flush, mover, born, files, served, gone, target>>
  /\ Note(Nothing)

(* Storage.GetByHash *)

\* An expired link is deleted, whether to be kept after expiration or not.
GetCached(r) ==
  /\ at[r].pc = "get" /\ cache[Hash(r)] # Nil
  /\ at' = IF Expired(heap[cache[Hash(r)]]) THEN [at EXCEPT ![r].pc = "purge"]
           ELSE [at EXCEPT ![r].pc = "got", ![r].obj = cache[Hash(r)]]
  /\ UNCHANGED <<bolt, cache, heap, now, flush, mover, born, files, served, gone, target>>
  /\ Note(Nothing)

\* BoltDB is read without the lock, into an object of the request's own.
GetStored(r) ==
  /\ at[r].pc = "get" /\ cache[Hash(r)] = Nil
  /\ LET l == bolt[Hash(r)] IN
       \/ l = Nil /\ Reply(r) /\ UNCHANGED heap
       \/ l # Nil /\ Expired(l) /\ Goto(r, "purgebolt") /\ UNCHANGED heap
       \/ /\ l # Nil /\ ~Expired(l)
          /\ at' = [at EXCEPT ![r].pc = "fill", ![r].obj = NewObj]
          /\ heap' = [heap EXCEPT ![NewObj] = l]
  /\ UNCHANGED <<bolt, cache, now, flush, mover, born, files, served, gone, target>>
  /\ Note(Nothing)

\* It becomes the object of the link, whichever object the link has by now.
Fill(r) ==
  /\ at[r].pc = "fill"
  /\ cache' = [cache EXCEPT ![Hash(r)] = at[r].obj]
  /\ Goto(r, "got")
  /\ UNCHANGED <<bolt, now, flush, mover, born, files, served, gone, target>>
  /\ Memory(heap) /\ Note(Doubled(r))

\* Of an expired link the record goes first, then the object if it was looked at.
Purge(r) ==
  /\ at[r].pc \in {"purge", "purgebolt"}
  /\ bolt' = [bolt EXCEPT ![Hash(r)] = Nil]
  /\ IF at[r].pc = "purge" THEN Goto(r, "drop") ELSE Reply(r)
  /\ UNCHANGED <<cache, now, flush, mover, born, files, served, gone, target>>
  /\ Memory(heap)
  /\ Note(IF at[r].pc = "purgebolt" /\ cache[Hash(r)] # Nil THEN Only(Hash(r), "left") ELSE Nothing)

(* The link is shown; or the request is refused: a password, a user who may not, *)
(* a private source, a limit, a body that does not parse.                      *)
Leave(r) ==
  /\ at[r].pc = "got"
  /\ Reply(r)
  /\ UNCHANGED <<bolt, cache, now, flush, mover, born, files, served, gone, target>>
  /\ Memory(heap) /\ Note(Nothing)

-------------------------------------------------------------------------------
(* Lists of links: All, FindByUserID, Gets and GetBySourcePath, link by link.   *)

\* BoltDB's own Gets drops what has expired, keep or not, and leaves the object.
ListRead(r, gets) ==
  /\ at[r].pc = "list"
  /\ LET l == bolt[Hash(r)]
         own == gets /\ l.expire # 0 /\ l.expire < now
         filtered == Expired(l) /\ ~l.keep
     IN \/ l = Nil /\ Reply(r) /\ UNCHANGED heap
        \/ l # Nil /\ own /\ Goto(r, "purgebolt") /\ UNCHANGED heap
        \/ l # Nil /\ ~own /\ filtered /\ Goto(r, "purge") /\ UNCHANGED heap
        \/ /\ l # Nil /\ ~own /\ ~filtered
           /\ at' = [at EXCEPT ![r].pc = "listfill", ![r].obj = NewObj]
           /\ heap' = [heap EXCEPT ![NewObj] = l]
  /\ UNCHANGED <<bolt, cache, now, flush, mover, born, files, served, gone, target>>
  /\ Note(Nothing)

\* Under the lock, and only where the link has no object.  convertToFrontendShare-
\* Response then deletes a link whose source is no longer configured.
ListFill(r) ==
  /\ at[r].pc = "listfill"
  /\ cache' = IF cache[Hash(r)] = Nil THEN [cache EXCEPT ![Hash(r)] = at[r].obj] ELSE cache
  /\ Reply(r) \/ at' = [at EXCEPT ![r].pc = "orphan", ![r].obj = Nil]
  /\ UNCHANGED <<bolt, now, flush, mover, born, files, served, gone, target>>
  /\ Memory(heap) /\ Note(Nothing)

-------------------------------------------------------------------------------
(* Downloads *)

\* Mutant: the limit of a link without limits per user is not checked.
RefusedPerUserOnly(l, c) == l.perUser /\ (c = Anon \/ (l.limit > 0 /\ l.by[c] >= l.limit))

\* publicRawHandler: the link is used up, for this caller.
Refused(l, c) ==
  \/ ~l.perUser /\ l.limit > 0 /\ l.n >= l.limit
  \/ l.perUser /\ (c = Anon \/ (l.limit > 0 /\ l.by[c] >= l.limit))

\* withHashFileHelper: a used up link is shown without the content of the file.
Withheld(l, c) == Refused(l, c) \/ (l.limit > 0 /\ l.n >= l.limit)

\* The check, without the lock of the counters.
Check(r, c) ==
  /\ at[r].pc = "got" /\ Obj(r).n < MaxServed
  /\ \/ ~Refused(Obj(r), c) /\ at' = [at EXCEPT ![r].pc = "count", ![r].arg = c]
     \/ ~Withheld(Obj(r), c) /\ at' = [at EXCEPT ![r].pc = "countview", ![r].arg = c]
  /\ UNCHANGED <<bolt, cache, heap, now, flush, mover, born, files, served, gone, target>>
  /\ Note(Nothing)

\* The counts of link l after one more download by c.
PerUser(l, c) == l.perUser /\ c # Anon
Credit(counts, c) == [counts EXCEPT !.by[c] = @ + 1]

\* Too late for the last save of the link.
Late(h) == IF flush # Nil /\ ~Flushing(h, flush) THEN Only(h, "late") ELSE Nothing

\* The view counts for the link and the user at once, the download one by one.
Count(r) ==
  /\ at[r].pc \in {"count", "countview"}
  /\ LET c == at[r].arg
         per == PerUser(Obj(r), c)
         one(counts) == [counts EXCEPT !.n = @ + 1]
         both(counts) == IF per THEN Credit(one(counts), c) ELSE one(counts)
         view == at[r].pc = "countview"
     IN /\ IF view \/ ~per THEN Reply(r) ELSE Goto(r, "countuser")
        /\ served' = [served EXCEPT ![Hash(r)] = both(@)]
        /\ UNCHANGED <<bolt, cache, now, flush, mover, born, files, gone, target>>
        /\ Memory([heap EXCEPT ![at[r].obj] = IF view THEN both(@) ELSE one(@)])
  /\ Note(Late(Hash(r)))

CountUser(r) ==
  /\ at[r].pc = "countuser"
  /\ Reply(r)
  /\ UNCHANGED <<bolt, cache, now, flush, mover, born, files, served, gone, target>>
  /\ Memory([heap EXCEPT ![at[r].obj] = Credit(@, at[r].arg)])
  /\ Note(Late(Hash(r)))

-------------------------------------------------------------------------------
(* Storage.Delete: for the owner, and for a list that found no source.         *)

Unbolt(r) ==
  /\ at[r].pc \in {"got", "orphan"}
  /\ bolt' = [bolt EXCEPT ![Hash(r)] = Nil]
  /\ at' = [at EXCEPT ![r].pc = IF @ = "got" THEN "uncache" ELSE "drop", ![r].obj = Nil]
  /\ UNCHANGED <<cache, now, flush, mover, born, files, served, gone, target>>
  /\ Memory(heap) /\ Note(Nothing)

\* Mutant: the object outlives the record.
UncacheForgotten(r) ==
  /\ at[r].pc \in {"uncache", "drop"}
  /\ gone' = IF at[r].pc = "uncache" THEN gone \cup {Hash(r)} ELSE gone
  /\ Reply(r)
  /\ UNCHANGED <<bolt, cache, now, flush, mover, born, files, served, target>>
  /\ Memory(heap) /\ Note(Nothing)

Uncache(r) ==
  /\ at[r].pc \in {"uncache", "drop"}
  /\ cache' = [cache EXCEPT ![Hash(r)] = Nil]
  /\ gone' = IF at[r].pc = "uncache" THEN gone \cup {Hash(r)} ELSE gone
  /\ Reply(r)
  /\ UNCHANGED <<bolt, now, flush, mover, born, files, served, target>>
  /\ Memory(heap) /\ Note(Nothing)

-------------------------------------------------------------------------------
(* sharePostHandler and sharePatchHandler: create, edit, change of path *)

\* Mutant: the duration is added twice.
ExpiryTwice(t) == IF t.brief /\ now < MaxNow THEN now + 2 ELSE 0

\* When a link made or edited now expires.  0 is never, as is what the clock does
\* not reach.
Expiry(t) == IF t.brief /\ now < MaxNow THEN now + 1 ELSE 0

\* shareDirectDownloadHandler does so too, unless a list has shown it a link.
Create(r, h, p) ==
  /\ at[r].pc = "idle" /\ h \notin born /\ p \in files
  /\ born' = born \cup {h}
  /\ target' = [target EXCEPT ![h] = p]
  /\ at' = [at EXCEPT ![r] = [IdleReq EXCEPT !.pc = "save", !.h = h, !.obj = NewObj]]
  /\ \E t \in Terms :
       heap' = [heap EXCEPT ![NewObj] =
                  [path |-> p, limit |-> t.limit, perUser |-> t.perUser, keep |-> t.keep,
                   expire |-> Expiry(t), n |-> 0, by |-> Zero.by]]
  /\ UNCHANGED <<bolt, cache, now, flush, mover, files, served, gone>>
  /\ Note(Nothing)

\* The object all requests share changes first; new limits start new counts.
Edit(r) ==
  /\ at[r].pc = "got"
  /\ \E t \in Terms :
       LET l == Obj(r)
           reset == l.limit # t.limit \/ l.perUser # t.perUser
           new == [l EXCEPT !.limit = t.limit, !.perUser = t.perUser, !.keep = t.keep, !.expire = Expiry(t)]
       IN /\ heap' = [heap EXCEPT ![at[r].obj] = IF reset THEN Counted(new, Zero) ELSE new]
          /\ served' = IF reset THEN [served EXCEPT ![Hash(r)] = Zero] ELSE served
  /\ Goto(r, "save")
  /\ UNCHANGED <<bolt, cache, now, flush, mover, born, files, gone, target>>
  /\ Note(Detached(r))

\* Storage.UpdateSharePath
Patch(r, p) ==
  /\ at[r].pc = "got" /\ p \in files
  /\ heap' = [heap EXCEPT ![at[r].obj].path = p]
  /\ target' = [target EXCEPT ![Hash(r)] = p]
  /\ at' = [at EXCEPT ![r].pc = "savepath", ![r].arg = p]
  /\ UNCHANGED <<bolt, cache, now, flush, mover, born, files, served, gone>>
  /\ Note(Detached(r))

Save(r) ==
  /\ at[r].pc \in {"save", "savepath"}
  /\ bolt' = [bolt EXCEPT ![Hash(r)] = Obj(r)]
  /\ Goto(r, IF at[r].pc = "save" THEN "recache" ELSE "repath")
  /\ UNCHANGED <<cache, heap, now, flush, mover, born, files, served, gone, target>>
  /\ Note(Nothing)

\* The request fails, with the shared object changed and the record not.
SaveFails(r) ==
  /\ at[r].pc \in {"save", "savepath"}
  /\ Reply(r)
  /\ UNCHANGED <<bolt, cache, now, flush, mover, born, files, served, gone, target>>
  /\ Memory(heap) /\ Note(Only(Hash(r), "unsaved"))

Recache(r) ==
  /\ at[r].pc = "recache"
  /\ cache' = [cache EXCEPT ![Hash(r)] = at[r].obj]
  /\ Reply(r)
  /\ UNCHANGED <<bolt, now, flush, mover, born, files, served, gone, target>>
  /\ Memory(heap) /\ Note(Doubled(r))

\* The path of the object that is the link's by now.
Repath(r) ==
  /\ at[r].pc = "repath"
  /\ Reply(r)
  /\ UNCHANGED <<bolt, cache, now, flush, mover, born, files, served, gone, target>>
  /\ LET o == cache[Hash(r)] IN
       Memory(IF o = Nil THEN heap ELSE [heap EXCEPT ![o].path = at[r].arg])
  /\ Note(Nothing)

-------------------------------------------------------------------------------
(* A file or directory is renamed, and UpdateShares started for the links.     *)

Rename(old, new) ==
  /\ old \in files /\ new \notin files /\ mover = NoMove
  /\ files' = {Moved(p, old, new) : p \in files}
  /\ mover' = [NoMove EXCEPT !.old = old, !.new = new]
  /\ target' = [h \in Hashes |-> IF target[h] = Nil THEN Nil ELSE Moved(target[h], old, new)]
  /\ UNCHANGED <<bolt, cache, heap, now, flush, at, born, served, gone>>
  /\ Note([h \in Hashes |-> {x \in {"inside"} : target[h] # Nil /\ target[h] # old
                                                /\ Within(target[h], old)}])

\* Mutant: only a link whose path is that of the source as a whole is found.
FollowsNothing(p, old) == p = <<>>

\* Whether a link with path p goes where old went.
FollowsMove(p, old) == Within(p, old)

\* All records at once; what memory counted since they were saved is not in them.
MoveRead ==
  /\ mover.old # Nil /\ mover.read = Nil
  /\ LET todo == {h \in Hashes : bolt[h] # Nil /\ FollowsMove(bolt[h].path, mover.old)} IN
       mover' = IF todo = {} THEN NoMove ELSE [mover EXCEPT !.read = bolt, !.todo = todo]
  /\ UNCHANGED <<bolt, cache, heap, now, flush, at, born, files, served, gone, target>>
  /\ Note(Nothing)

MoveSave(h) ==
  /\ h \in mover.todo /\ mover.h = Nil
  /\ LET l == [mover.read[h] EXCEPT !.path = mover.new] IN
       /\ bolt' = [bolt EXCEPT ![h] = l]
       /\ mover' = [mover EXCEPT !.h = h, !.obj = NewObj]
       /\ heap' = [heap EXCEPT ![NewObj] = l]
  /\ UNCHANGED <<cache, now, flush, at, born, files, served, gone, target>>
  /\ Note(IF flush # Nil THEN Only(h, "late") ELSE Nothing)

\* The goroutine stops at the first record it cannot save.
MoveSaveFails ==
  /\ mover.todo # {} /\ mover.h = Nil
  /\ mover' = NoMove
  /\ UNCHANGED <<bolt, cache, heap, now, flush, at, born, files, served, gone, target>>
  /\ Note([h \in Hashes |-> {x \in {"unsaved"} : h \in mover.todo}])

\* Mutant: the object in memory keeps the old path.
MoveCacheForgotten(h) ==
  /\ mover.h = h
  /\ cache' = IF cache[h] = Nil THEN [cache EXCEPT ![h] = mover.obj] ELSE cache
  /\ mover' = IF mover.todo = {h} THEN NoMove
              ELSE [mover EXCEPT !.todo = @ \ {h}, !.h = Nil, !.obj = Nil]
  /\ UNCHANGED <<bolt, now, flush, at, born, files, served, gone, target>>
  /\ Memory(heap) /\ Note(Nothing)

MoveCache(h) ==
  /\ mover.h = h
  /\ cache' = IF cache[h] = Nil THEN [cache EXCEPT ![h] = mover.obj] ELSE cache
  /\ mover' = IF mover.todo = {h} THEN NoMove
              ELSE [mover EXCEPT !.todo = @ \ {h}, !.h = Nil, !.obj = Nil]
  /\ UNCHANGED <<bolt, now, flush, at, born, files, served, gone, target>>
  /\ Memory(IF cache[h] = Nil THEN heap ELSE [heap EXCEPT ![cache[h]].path = mover.new])
  /\ Note(Nothing)

-------------------------------------------------------------------------------
(* Shutdown: Flush, while requests go on; then the process ends.               *)

Flush ==
  /\ flush = Nil
  /\ flush' = {<<h, cache[h]>> : h \in {g \in Hashes : cache[g] # Nil}}
  /\ UNCHANGED <<bolt, cache, heap, now, at, mover, born, files, served, gone, target>>
  /\ Note(Nothing)

FlushSave(e) ==
  /\ bolt' = [bolt EXCEPT ![e[1]] = heap[e[2]]]
  /\ flush' = flush \ {e}
  /\ UNCHANGED <<cache, now, at, mover, born, files, served, gone, target>>
  /\ Memory(heap) /\ Note(Nothing)

FlushFails ==
  /\ flush' = {}
  /\ UNCHANGED <<bolt, cache, now, at, mover, born, files, served, gone, target>>
  /\ Memory(heap)
  /\ Note([h \in Hashes |-> {x \in {"unsaved"} : Flushing(h, flush)}])

(* Memory is lost and the program started again.  An edit under way has been    *)
(* saved or not; a move under way stays without its links.                     *)
Ends ==
  /\ cache' = [h \in Hashes |-> Nil] /\ heap' = [o \in Objs |-> Nil]
  /\ at' = [r \in Reqs |-> IdleReq] /\ mover' = NoMove /\ flush' = Nil
  /\ target' = [h \in Hashes |-> IF Editing(h, at) /\ bolt[h] # Nil THEN bolt[h].path ELSE target[h]]
  /\ UNCHANGED <<bolt, now, born, files, gone>>
  /\ Note([h \in Hashes |-> {x \in {"cut"} : mover # NoMove}
                             \cup {x \in {"late"} : \E r \in Reqs : Hash(r) = h /\ at[r].pc = "countuser"}])

\* What the record remembers.
Saved(h) == IF bolt[h] = Nil THEN Zero ELSE [n |-> bolt[h].n, by |-> bolt[h].by]

\* An edit that was not saved did not start new counts.
Exit ==
  /\ flush = {} /\ Ends
  /\ served' = [h \in Hashes |-> IF Editing(h, at) THEN Saved(h) ELSE served[h]]

\* The counts since the last save are lost.
Crash == Ends /\ served' = [h \in Hashes |-> Saved(h)]

Tick ==
  /\ now < MaxNow /\ now' = now + 1
  /\ UNCHANGED <<bolt, cache, heap, flush, at, mover, born, files, served, gone, target>>
  /\ Note(Nothing)

Request(r) ==
  \/ GetCached(r) \/ GetStored(r) \/ Fill(r) \/ Purge(r) \/ Leave(r)
  \/ ListFill(r) \/ \E gets \in BOOLEAN : ListRead(r, gets)
  \/ Count(r) \/ CountUser(r) \/ \E c \in Callers : Check(r, c)
  \/ Unbolt(r) \/ Uncache(r)
  \/ Edit(r) \/ Save(r) \/ SaveFails(r) \/ Recache(r) \/ Repath(r)
  \/ \E p \in Paths : Patch(r, p)
UpdateShares ==
  \/ MoveRead \/ MoveSaveFails
  \/ \E h \in Hashes : MoveSave(h) \/ MoveCache(h)

Next ==
  \/ \E r \in Reqs, h \in Hashes : Open(r, h)
  \/ \E r \in Reqs, h \in Hashes, p \in Paths : Create(r, h, p)
  \/ \E r \in Reqs : Request(r)
  \/ \E m \in Moves : Rename(m[1], m[2])
  \/ UpdateShares
  \/ Flush \/ (flush # Nil /\ (FlushFails \/ \E e \in flush : FlushSave(e)))
  \/ Exit \/ Crash \/ Tick

Spec == Init /\ [][Next]_vars

-------------------------------------------------------------------------------
(* Properties *)

Places == {"idle", "get", "fill", "purge", "purgebolt", "got", "list", "listfill", "orphan", "count",
           "countview", "countuser", "uncache", "drop", "save", "savepath", "recache", "repath"}
Excuses == {"delete", "move", "patch", "doubled", "late", "unsaved", "inside", "cut", "left"}

(* The variables keep their types, and no pointer dangles.                     *)
TypeOK ==
  /\ bolt \in [Hashes -> Links \cup {Nil}]
  /\ heap \in [Objs -> Links \cup {Nil}]
  /\ cache \in [Hashes -> Objs \cup {Nil}]
  /\ \A h \in Hashes : cache[h] # Nil => heap[cache[h]] # Nil
  /\ \A r \in Reqs : at[r].pc \in Places /\ (at[r].obj # Nil => heap[at[r].obj] # Nil)
  /\ flush # Nil => \A e \in flush : heap[e[2]] # Nil
  /\ now \in 1 .. MaxNow /\ born \subseteq Hashes /\ gone \subseteq born
  /\ served \in [Hashes -> [n : Nat, by : [Users -> Nat]]]
  /\ files \subseteq Paths /\ target \in [Hashes -> Paths \cup {Nil}]
  /\ excuse \in [Hashes -> SUBSET Excuses]

\* What the link is now.
Link(h) == IF cache[h] = Nil THEN bolt[h] ELSE heap[cache[h]]

\* Nothing is happening to the link.
Quiet(h) == mover = NoMove /\ ~Editing(h, at) /\ ~Deleting(h, at) /\ ~Flushing(h, flush)

(* publicRawHandler and withHashFileHelper check the limit without the lock the *)
(* counter is raised under: what gets through above it is at most the other     *)
(* requests under way, and a graceful restart forgets nothing that was counted  *)
(* before the last save.                                                       *)
LimitHeld ==
  \A h \in Hashes :
    /\ excuse[h] \cap {"doubled", "late", "unsaved", "delete", "move"} = {}
    /\ Link(h) # Nil /\ Link(h).limit > 0
    => LET most == Link(h).limit + Cardinality(Reqs) - 1 IN
       IF Link(h).perUser THEN \A u \in Users : served[h].by[u] <= most ELSE served[h].n <= most

(* A deleted link stays deleted, in BoltDB and in memory, through lists, late   *)
(* look-ups, downloads, moves, the shutdown and restarts, unless one that has   *)
(* read it and may write it back was under way at the time.                    *)
DeletedStays ==
  \A h \in gone : "delete" \notin excuse[h] => bolt[h] = Nil /\ cache[h] = Nil

(* What requests see of a link is what a restart will bring back.              *)
Coherent ==
  \A h \in Hashes :
    /\ excuse[h] \cap {"doubled", "unsaved", "delete", "move", "patch"} = {}
    /\ Quiet(h) /\ cache[h] # Nil /\ ~Expired(heap[cache[h]])
    => bolt[h] # Nil /\ Config(bolt[h]) = Config(heap[cache[h]])

PointsRight(excused) ==
  \A h \in Hashes :
    /\ excuse[h] \cap excused = {}
    /\ Quiet(h) /\ Link(h) # Nil
    => Link(h).path = target[h]

(* A link to the very file or directory that is moved goes where it went, from  *)
(* memory and from BoltDB, and a link to anything beside it stays.             *)
MovedFollows == PointsRight({"doubled", "unsaved", "delete", "move", "patch", "cut", "left", "inside"})

(* The four together: a link's types, its deletion, its cache and its path.     *)
LinksLast == TypeOK /\ DeletedStays /\ Coherent /\ MovedFollows

-------------------------------------------------------------------------------
(* What the repository says of share links, and the code does not do *)

(* UpdateShares: "Handles both exact matches and subdirectories": a link to      *)
(* something inside the directory moved still leads to it.                     *)
InsideFollows == PointsRight({"doubled", "unsaved", "delete", "move", "patch", "cut", "left"})
===============================================================================
