------------------------------- MODULE Indexing -------------------------------
(***************************************************************************)
(* The index of one source (backend/indexing) and those who keep it up to     *)
(* date: a scanner for the root, one for every top-level directory, and the    *)
(* refreshes that file operations leave to goroutines                        *)
(* (backend/adapters/fs/files/files.go).                                     *)
(*                                                                          *)
(* Nothing locks the file system: it may change between any two of their       *)
(* steps.  A modification time is modelled by what it is compared for: whether  *)
(* a directory has changed since.                                            *)
(***************************************************************************)
EXTENDS Integers, Sequences, FiniteSets, FiniteSetsExt

CONSTANTS
  Nil,
  Root,
  Tops,      \* the names of top-level directories
  Parent,    \* of every other directory
  Excluded,  \* the directories that conditional rules skip
  Workers,   \* goroutines of requests
  Copies,    \* how many scanners a directory may have had
  Every,     \* a full scan is every fifth scan
  Sizes,     \* of files
  Changes,   \* bound on the changes to the file system
  Present,   \* the directories there are to begin with, all empty
  Casts      \* what may meet in one behaviour: a server that has just been started or not,
             \* the changes, whether they are made through Drive or past it

Directories == {Root} \cup DOMAIN Parent
Scanners == ((Tops \ Excluded) \X Copies) \cup {<<Root, 0>>}
RootScanner == <<Root, 0>>
Procs == Workers \cup Scanners

Ops == {"write", "mkdir", "rm", "rmdir", "mv", "mvdir", "cp"}

\* The directories are below one root, which no change makes, moves or removes.
IndexingAssumption ==
  /\ IsFiniteSet(Directories) /\ Root \notin DOMAIN Parent
  /\ \A d \in DOMAIN Parent : Parent[d] \in Directories
  /\ Tops \subseteq DOMAIN Parent /\ Excluded \subseteq DOMAIN Parent
  /\ Workers \cap Scanners = {}
  /\ Sizes \subseteq Nat \ {0} /\ Every \in Nat \ {0}
  /\ \E n \in Copies : \A m \in Copies : n <= m
  /\ \A c \in Casts : \A a \in c.plan :
       /\ a.op \in Ops /\ a.dir \in Directories /\ a.to \in Directories
       /\ a.op \in {"mkdir", "rmdir"} => a.dir # Root
       /\ a.op = "mvdir" => a.dir # Root /\ a.to # Root
  /\ Nil \notin Procs \cup Directories \cup Sizes \cup {0}
  /\ Nil \notin [dir : Directories, file : BOOLEAN]
  /\ Nil \notin [file : Sizes \cup {0}, folders : SUBSET Directories]
  /\ Nil \notin [file : Sizes \cup {0}, folders : SUBSET Directories, size : Int, cur : BOOLEAN,
               lost : {"no", "late", "back"}]

VARIABLES
  fs,      \* the directories: the size of the file in it, 0 without one
  idx,     \* Directories; cur: is ModTime that of the directory?  lost: see TimeTells
  frames,  \* the calls of indexDirectory of every goroutine, innermost first
  job,     \* what a request still has to do to the index
  old,     \* the entry RecursiveUpdateDirSizes has a pointer to, once it is not in the index any more
  sc,      \* scanners
  reg,     \* scanners of the index: those it knows
  holder,  \* scanMutex
  setup,   \* top-level directories setupMultiScanner has still to see to
  plan,    \* changes there may be
  changes  \* how often the file system changed

nvars == <<fs, idx, frames, job, old, sc, reg, holder, setup, plan, changes>>

Idle == [pc |-> "idle", unlist |-> Nil, left |-> {}, dir |-> Root, rec |-> FALSE, prev |-> 0, delta |-> 0]
Off == [pc |-> "off", count |-> 0, stopped |-> FALSE, seen |-> {}]

There(d) == fs[d] # Nil
Inside(d) == {e \in DOMAIN Parent : Parent[e] = d /\ There(e)}
First == CHOOSE n \in Copies : \A m \in Copies : n <= m

\* Initialize, setupMultiScanner up to the root scanner: the directories are read later.
Starting ==
  /\ idx = [d \in Directories |-> Nil]
  /\ sc = [i \in Scanners |-> IF i = RootScanner THEN [Off EXCEPT !.pc = "want"] ELSE Off]
  /\ reg = [t \in Tops |-> Nil]
  /\ setup = Nil

\* A while later: every top-level directory, of which each is still empty, has been scanned.
Started ==
  /\ idx = [d \in Directories |-> IF There(d) /\ d \notin Excluded THEN [file |-> 0, folders |-> Inside(d) \ Excluded, size |-> 0, cur |-> TRUE, lost |-> "no"] ELSE Nil]
  /\ sc = [i \in Scanners |-> IF There(i[1]) /\ i[1] \notin Excluded /\ i[2] \in {0, First} THEN [Off EXCEPT !.pc = "asleep"] ELSE Off]
  /\ reg = [t \in Tops |-> IF There(t) /\ t \notin Excluded THEN <<t, First>> ELSE Nil]
  /\ setup = {}

Init ==
  /\ fs = [d \in Directories |-> IF d \in Present \cup {Root} THEN 0 ELSE Nil]
  /\ \E c \in Casts :
       /\ plan = c.plan
       /\ IF c.starting THEN Starting ELSE Started
  /\ frames = [p \in Procs |-> <<>>]
  /\ job = [w \in Workers |-> Idle]
  /\ old = [w \in Workers |-> Nil]
  /\ holder = Nil
  /\ changes = 0

-------------------------------------------------------------------------------
(* The file system                                                            *)

\* The directory whose size a request changes.
Above(w) == Parent[job[w].dir]

Within(d) == {e \in Directories : e = d \/ (e # Root /\ (Parent[e] = d \/ (Parent[e] # Root /\ Parent[Parent[e]] = d)))}

\* A step that leaves the file system as `new`: the modification times of `touched` change,
\* so those that were read before are outdated.
Becomes(new, touched) ==
  /\ changes < Changes
  /\ changes' = changes + 1
  /\ fs' = new
  /\ idx' = [d \in Directories |-> IF d \in touched /\ idx[d] # Nil THEN [idx[d] EXCEPT !.cur = FALSE] ELSE idx[d]]
  /\ frames' = [p \in Procs |-> [n \in DOMAIN frames[p] |->
                  IF frames[p][n].dir \in touched THEN [frames[p][n] EXCEPT !.cur = FALSE] ELSE frames[p][n]]]
  /\ old' = [w \in Workers |-> IF old[w] # Nil /\ Above(w) \in touched THEN [old[w] EXCEPT !.cur = FALSE] ELSE old[w]]

\* What the request that made a change then does to the index: remove something from it
\* (DeleteMetadata), and refresh directories, recursively or not.  `drop` is set where
\* RefreshIndex looks whether the directory is still there.  Others owe the index nothing.
Owes(w, unlist, left) ==
  IF w = Nil THEN UNCHANGED job
  ELSE job' = [job EXCEPT ![w] = [Idle EXCEPT !.pc = IF unlist = Nil THEN "refresh" ELSE "unlist",
                                              !.unlist = unlist, !.left = left]]
Plain(d) == [dir |-> d, rec |-> FALSE, drop |-> FALSE]
Dropping(d, rec) == [dir |-> d, rec |-> rec, drop |-> TRUE]

\* WriteFile: the parent directories are made, an existing file is overwritten.
Write(c, w) ==
  /\ c.op = "write" /\ c.dir # Root => There(Parent[c.dir])
  /\ \E size \in Sizes :
       /\ fs[c.dir] # size
       /\ Becomes([fs EXCEPT ![c.dir] = size],
                  IF There(c.dir) THEN IF fs[c.dir] = 0 THEN {c.dir} ELSE {} ELSE {c.dir, Parent[c.dir]})
  /\ Owes(w, Nil, {Plain(c.dir)})

\* WriteDirectory
MakeDir(c, w) ==
  /\ c.op = "mkdir" /\ ~There(c.dir) /\ There(Parent[c.dir])
  /\ Becomes([fs EXCEPT ![c.dir] = 0], {c.dir, Parent[c.dir]})
  /\ Owes(w, Nil, {Dropping(c.dir, TRUE)})

\* DeleteFiles of a file ...
RemoveFile(c, w) ==
  /\ c.op = "rm" /\ There(c.dir) /\ fs[c.dir] # 0
  /\ Becomes([fs EXCEPT ![c.dir] = 0], {c.dir})
  /\ Owes(w, [dir |-> c.dir, file |-> TRUE], {Plain(c.dir)})

\* ... and of a directory.
RemoveDir(c, w) ==
  /\ c.op = "rmdir" /\ There(c.dir)
  /\ Becomes([d \in Directories |-> IF d \in Within(c.dir) THEN Nil ELSE fs[d]], Within(c.dir) \cup {Parent[c.dir]})
  /\ Owes(w, [dir |-> c.dir, file |-> FALSE], {Plain(Parent[c.dir])})

\* MoveResource of a file to the place of none ...
MoveFile(c, w) ==
  /\ c.op = "mv" /\ There(c.dir) /\ There(c.to) /\ fs[c.dir] # 0 /\ fs[c.to] = 0
  /\ Becomes([fs EXCEPT ![c.dir] = 0, ![c.to] = fs[c.dir]], {c.dir, c.to})
  /\ Owes(w, [dir |-> c.dir, file |-> TRUE],
          {Dropping(c.dir, FALSE), Dropping(c.to, FALSE)})

\* ... and of a directory without another in it.
MoveDir(c, w) ==
  /\ c.op = "mvdir" /\ There(c.dir) /\ Inside(c.dir) = {} /\ ~There(c.to) /\ There(Parent[c.to])
  /\ Becomes([fs EXCEPT ![c.dir] = Nil, ![c.to] = fs[c.dir]], {c.dir, c.to, Parent[c.dir], Parent[c.to]})
  /\ Owes(w, [dir |-> c.dir, file |-> FALSE],
          {Dropping(Parent[c.dir], FALSE), Dropping(c.to, TRUE), Dropping(Parent[c.to], FALSE)})

\* CopyResource of a file
CopyFile(c, w) ==
  /\ c.op = "cp" /\ There(c.dir) /\ There(c.to) /\ fs[c.dir] \notin {0, fs[c.to]}
  /\ Becomes([fs EXCEPT ![c.to] = fs[c.dir]], IF fs[c.to] = 0 THEN {c.to} ELSE {})
  /\ Owes(w, Nil, {Dropping(c.dir, FALSE), Dropping(c.to, TRUE)})

Change(c, w) ==
  \/ Write(c, w) \/ MakeDir(c, w) \/ RemoveFile(c, w) \/ RemoveDir(c, w)
  \/ MoveFile(c, w) \/ MoveDir(c, w) \/ CopyFile(c, w)

\* Through Drive, or past it.
Alter ==
  /\ \E c \in plan, w \in Workers \cup {Nil} :
       /\ IF c.past THEN w = Nil ELSE w # Nil /\ job[w].pc = "idle"
       /\ Change(c, w)
  /\ UNCHANGED <<sc, reg, holder, setup, plan>>

-------------------------------------------------------------------------------
(* indexDirectory, for whoever calls it                                        *)

Recursive(p) == IF p \in Workers THEN job[p].rec ELSE p # RootScanner
QuickAlways(p) == p \in Scanners \* mutant: the counter is never reset
Quick(p) == p \in Scanners /\ sc[p].count # 1

\* A directory is opened and its modification time read.  A quick scan does not read one that
\* has not changed, but goes on to the directories it knows in it.
Opened(p, d) ==
  IF Recursive(p) /\ Quick(p) /\ (idx[d] = Nil \/ idx[d].cur)
  THEN [dir |-> d, cur |-> TRUE, pc |-> "skip", list |-> Nil, todo |-> IF idx[d] = Nil THEN {} ELSE idx[d].folders]
  ELSE [dir |-> d, cur |-> TRUE, pc |-> "read", list |-> Nil, todo |-> {}]

Busy(p) == frames[p] # <<>>
Top(p) == Head(frames[p])
SetTop(p, f) == frames' = [frames EXCEPT ![p] = <<f>> \o Tail(@)]

\* Mutant: the modification time is read after the directory.
StatLate(f) == TRUE

\* The modification time that is stored is the one read before the directory was.
Stat(f) == f.cur

\* GetDirInfo: Readdir, which is empty once the directory has been removed.
ReadDir(p) ==
  LET d == Top(p).dir
      list == IF There(d) THEN [file |-> fs[d], folders |-> Inside(d) \ Excluded] ELSE [file |-> 0, folders |-> {}] IN
  /\ Busy(p) /\ Top(p).pc = "read"
  /\ SetTop(p, [Top(p) EXCEPT !.pc = "list", !.list = list, !.todo = IF Recursive(p) THEN list.folders ELSE {}])
  /\ UNCHANGED <<fs, idx, job, old, sc, reg, holder, setup, plan, changes>>

\* A directory in it; one that cannot be opened is left out.
Descend(p) ==
  LET f == Top(p) IN
  /\ Busy(p) /\ f.pc # "read"
  /\ \E d \in f.todo :
       IF There(d)
       THEN frames' = [frames EXCEPT ![p] = <<Opened(p, d), [f EXCEPT !.todo = @ \ {d}]>> \o Tail(@)]
       ELSE SetTop(p, [f EXCEPT !.todo = @ \ {d}, !.list = IF f.list = Nil THEN Nil ELSE [f.list EXCEPT !.folders = @ \ {d}]])
  /\ UNCHANGED <<fs, idx, job, old, sc, reg, holder, setup, plan, changes>>

SizeOf(d) == IF idx[d] = Nil THEN 0 ELSE idx[d].size

\* The entries of D are replaced or removed: who has a pointer to one keeps that.
Kept(D) ==
  [w \in Workers |-> IF job[w].pc = "put" /\ old[w] = Nil /\ Above(w) \in D THEN idx[Above(w)] ELSE old[w]]
Detach(D) == old' = Kept(D)

\* UpdateMetadata with what was read.
Update(p) ==
  LET f == Top(p) IN
  /\ Busy(p) /\ f.pc # "read" /\ f.todo = {}
  /\ frames' = [frames EXCEPT ![p] = Tail(@)]
  /\ idx' = IF f.pc = "skip" THEN idx
            ELSE [idx EXCEPT ![f.dir] = [file |-> f.list.file, folders |-> f.list.folders, cur |-> Stat(f),
                    size |-> f.list.file + MapThenSumSet(SizeOf, f.list.folders), lost |-> "no"]]
  /\ Detach(IF f.pc = "skip" THEN {} ELSE {f.dir})
  /\ UNCHANGED <<fs, job, sc, reg, holder, setup, plan, changes>>

-------------------------------------------------------------------------------
(* Requests                                                                   *)

\* DeleteMetadata of a directory, recursively or not, and of it in the one above.
Unlisted(d, gone) ==
  [e \in Directories |-> IF e \in gone THEN Nil
                  ELSE IF idx[e] # Nil /\ e = Parent[d]
                       THEN [idx[e] EXCEPT !.folders = @ \ {d},
                                           !.lost = IF There(d) /\ d \in idx[e].folders THEN "late" ELSE @]
                       ELSE idx[e]]

\* DeleteMetadata
Unlist(w) ==
  LET u == job[w].unlist IN
  /\ job[w].pc = "unlist"
  /\ idx' = IF ~u.file THEN Unlisted(u.dir, Within(u.dir))
            ELSE IF idx[u.dir] = Nil \/ idx[u.dir].file = 0 THEN idx
            ELSE [idx EXCEPT ![u.dir].file = 0, ![u.dir].lost = IF fs[u.dir] \in Sizes THEN "late" ELSE @]
  /\ Detach(IF u.file THEN {} ELSE Within(u.dir))
  /\ job' = [job EXCEPT ![w].pc = "refresh", ![w].unlist = Nil]
  /\ UNCHANGED <<fs, frames, sc, reg, holder, setup, plan, changes>>

\* Mutant: the rules are not looked at.
RefreshAnything(w) ==
  /\ job[w].pc = "refresh"
  /\ \E r \in job[w].left :
       LET rest == [job[w] EXCEPT !.left = @ \ {r}] IN
       IF There(r.dir)
       THEN /\ job' = [job EXCEPT ![w] = [rest EXCEPT !.pc = "index", !.dir = r.dir, !.rec = r.rec, !.prev = SizeOf(r.dir)]]
            /\ frames' = [frames EXCEPT ![w] = <<[dir |-> r.dir, cur |-> TRUE, pc |-> "read", list |-> Nil, todo |-> {}]>>]
            /\ UNCHANGED <<idx, old>>
       ELSE /\ job' = [job EXCEPT ![w] = rest]
            /\ IF r.drop /\ ~There(r.dir)
               THEN idx' = Unlisted(r.dir, {r.dir}) /\ Detach({r.dir})
               ELSE UNCHANGED <<idx, old>>
            /\ UNCHANGED frames
  /\ UNCHANGED <<fs, sc, reg, holder, setup, plan, changes>>

\* RefreshIndex, RefreshFileInfo up to the directory.  Refreshes of one request that the code
\* runs in goroutines of their own are run one after another, in any order.
Refresh(w) ==
  /\ job[w].pc = "refresh"
  /\ \E r \in job[w].left :
       LET rest == [job[w] EXCEPT !.left = @ \ {r}] IN
       IF There(r.dir) /\ r.dir \notin Excluded
       THEN /\ job' = [job EXCEPT ![w] = [rest EXCEPT !.pc = "index", !.dir = r.dir, !.rec = r.rec, !.prev = SizeOf(r.dir)]]
            /\ frames' = [frames EXCEPT ![w] = <<[dir |-> r.dir, cur |-> TRUE, pc |-> "read", list |-> Nil, todo |-> {}]>>]
            /\ UNCHANGED <<idx, old>>
       ELSE /\ job' = [job EXCEPT ![w] = rest]
            /\ IF r.drop /\ ~There(r.dir)
               THEN idx' = Unlisted(r.dir, {r.dir}) /\ Detach({r.dir})
               ELSE UNCHANGED <<idx, old>>
            /\ UNCHANGED frames
  /\ UNCHANGED <<fs, sc, reg, holder, setup, plan, changes>>

\* The next one.
Again(j) == [Idle EXCEPT !.pc = "refresh", !.left = j.left]

\* ... and after it.
Refreshed(w) ==
  /\ job[w].pc = "index" /\ ~Busy(w)
  /\ LET now == idx[job[w].dir] IN
       IF now = Nil \/ SizeOf(job[w].dir) = job[w].prev
       THEN job' = [job EXCEPT ![w] = Again(@)]
       ELSE job' = [job EXCEPT ![w].pc = "grow", ![w].delta = now.size - job[w].prev]
  /\ UNCHANGED <<fs, idx, frames, old, sc, reg, holder, setup, plan, changes>>

\* RecursiveUpdateDirSizes, one directory further up: GetMetadataInfo gives a pointer to
\* its entry, and the size is changed there ...
Grow(w) ==
  /\ job[w].pc = "grow"
  /\ IF job[w].dir = Root \/ idx[Above(w)] = Nil
     THEN job' = [job EXCEPT ![w] = Again(@)] /\ UNCHANGED idx
     ELSE /\ idx' = [idx EXCEPT ![Above(w)].size = @ + job[w].delta]
          /\ job' = [job EXCEPT ![w].pc = "put", ![w].prev = idx[Above(w)].size]
  /\ UNCHANGED <<fs, frames, old, sc, reg, holder, setup, plan, changes>>

\* Mutant: the directory is looked at again for the modification time that is put back.
PutBackLooks(w) ==
  LET mine == IF old[w] = Nil THEN idx[Above(w)] ELSE [old[w] EXCEPT !.cur = TRUE] IN
  /\ job[w].pc = "put"
  /\ IF old[w] = Nil THEN UNCHANGED <<idx, old>>
     ELSE idx' = [idx EXCEPT ![Above(w)] = mine] /\ old' = [old EXCEPT ![w] = Nil]
  /\ job' = [job EXCEPT ![w].pc = "grow", ![w].dir = Above(w), ![w].prev = 0, ![w].delta = mine.size - job[w].prev]
  /\ UNCHANGED <<fs, frames, sc, reg, holder, setup, plan, changes>>

\* ... and UpdateMetadata puts the entry into the index, whatever is there by now; with
\* it the next one is as much larger as this one has become.  Of requests that have
\* pointers to such entries any may have one to the same.
PutBack(w) ==
  LET mine == IF old[w] = Nil THEN idx[Above(w)] ELSE old[w] IN
  /\ job[w].pc = "put"
  /\ IF old[w] = Nil THEN UNCHANGED <<idx, old>>
     ELSE /\ idx' = [idx EXCEPT ![Above(w)] = [mine EXCEPT !.lost = IF @ = "late" THEN "back" ELSE @]]
          /\ \E same \in SUBSET {v \in Workers \ {w} : old[v] = old[w] /\ Above(v) = Above(w)} :
               old' = [v \in Workers |-> IF v \in same \cup {w} THEN Nil ELSE Kept({Above(w)})[v]]
  /\ job' = [job EXCEPT ![w].pc = "grow", ![w].dir = Above(w), ![w].prev = 0, ![w].delta = mine.size - job[w].prev]
  /\ UNCHANGED <<fs, frames, sc, reg, holder, setup, plan, changes>>

Answer(w) ==
  /\ job[w].pc = "refresh" /\ job[w].left = {}
  /\ job' = [job EXCEPT ![w] = Idle]
  /\ UNCHANGED <<fs, idx, frames, old, sc, reg, holder, setup, plan, changes>>

Request(w) == Unlist(w) \/ Refresh(w) \/ Refreshed(w) \/ Grow(w) \/ PutBack(w) \/ Answer(w)

-------------------------------------------------------------------------------
(* Scanners                                                                   *)

At(i, pc) == sc[i].pc = pc
Goes(i, pc) == sc' = [sc EXCEPT ![i].pc = pc]
Runs(i) == sc[i].pc # "off"

\* A scanner no goroutine runs and the index does not know is free to be used again.
Spare(t, n) == <<t, n>> \in Scanners /\ ~Runs(<<t, n>>) /\ reg[t] # <<t, n>>
Made == [Off EXCEPT !.pc = "want"]

\* setupMultiScanner reads the top-level directories ...
SetupReads ==
  /\ setup = Nil
  /\ setup' = Inside(Root) \ Excluded
  /\ UNCHANGED <<fs, idx, frames, job, old, sc, reg, holder, plan, changes>>

\* ... and makes a scanner for each.
SetupMakes ==
  /\ setup # Nil
  /\ \E t \in setup, n \in Copies :
       /\ Spare(t, n)
       /\ setup' = setup \ {t}
       /\ sc' = [sc EXCEPT ![<<t, n>>] = Made]
       /\ reg' = [reg EXCEPT ![t] = <<t, n>>]
  /\ UNCHANGED <<fs, idx, frames, job, old, holder, plan, changes>>

\* tryAcquireAndScan, the first time (start) or once the timer has fired: the first of Every scans is full.  The root is read in any case.
Acquire(i) ==
  /\ At(i, "want") \/ At(i, "asleep")
  /\ holder = Nil
  /\ holder' = i
  /\ sc' = [sc EXCEPT ![i] = [sc[i] EXCEPT !.pc = "scan", !.count = IF i = RootScanner THEN @ ELSE (@ + 1) % Every]]
  /\ frames' = [frames EXCEPT ![i] =
       IF There(i[1])
       THEN <<[dir |-> i[1], cur |-> TRUE, pc |-> "read", list |-> Nil, todo |-> {}]>> ELSE <<>>]
  /\ UNCHANGED <<fs, idx, job, old, reg, setup, plan, changes>>

\* runChildScan is over.
ScanEnds(i) ==
  /\ At(i, "scan") /\ ~Busy(i) /\ i # RootScanner
  /\ holder' = Nil
  /\ Goes(i, "loop")
  /\ UNCHANGED <<fs, idx, frames, job, old, reg, setup, plan, changes>>

\* checkForNewChildDirectories: getTopLevelDirs ...
LookAround ==
  /\ At(RootScanner, "scan") /\ ~Busy(RootScanner)
  /\ sc' = [sc EXCEPT ![RootScanner] = [sc[RootScanner] EXCEPT !.pc = "adopt", !.seen = Inside(Root) \ Excluded]]
  /\ UNCHANGED <<fs, idx, frames, job, old, reg, holder, setup, plan, changes>>

\* ... scanners of those that are gone are told to stop, those that are new get one.
Adopt ==
  LET seen == sc[RootScanner].seen
      gone == {t \in Tops : reg[t] # Nil /\ t \notin seen}
      new == {t \in seen : reg[t] = Nil} IN
  /\ At(RootScanner, "adopt")
  /\ \E n \in [new -> Copies] :
       /\ \A t \in new : Spare(t, n[t])
       /\ reg' = [t \in Tops |-> IF t \in new THEN <<t, n[t]>> ELSE reg[t]]
       /\ sc' = [i \in Scanners |->
                   IF i = RootScanner THEN [sc[i] EXCEPT !.pc = "asleep", !.seen = {}]
                   ELSE IF i[1] \in new /\ i[2] = n[i[1]] THEN Made
                   ELSE IF i[1] \in gone /\ reg[i[1]] = i THEN [sc[i] EXCEPT !.stopped = TRUE] ELSE sc[i]]
  /\ holder' = Nil
  /\ UNCHANGED <<fs, idx, frames, job, old, setup, plan, changes>>

\* start: a scanner whose directory is gone removes itself, or what the index knows in its place.
Loop(i) ==
  /\ At(i, "loop")
  /\ IF There(i[1])
     THEN Goes(i, "asleep") /\ UNCHANGED reg
     ELSE sc' = [sc EXCEPT ![i] = Off] /\ reg' = [reg EXCEPT ![i[1]] = Nil]
  /\ UNCHANGED <<fs, idx, frames, job, old, holder, setup, plan, changes>>

\* ... the stop signal: it stays known to the index.
Stop(i) ==
  /\ At(i, "asleep") /\ sc[i].stopped
  /\ sc' = [sc EXCEPT ![i] = Off]
  /\ UNCHANGED <<fs, idx, frames, job, old, reg, holder, setup, plan, changes>>

Index(p) == ReadDir(p) \/ Descend(p) \/ Update(p)
Scan(i) == ScanEnds(i) \/ Loop(i) \/ (i = RootScanner /\ (LookAround \/ Adopt))

Next ==
  \/ Alter
  \/ SetupReads \/ SetupMakes
  \/ \E p \in Procs : Index(p)
  \/ \E w \in Workers : Request(w)
  \/ \E i \in Scanners : Acquire(i) \/ Scan(i) \/ Stop(i)

\* Goroutines: setupMultiScanner, a request's, a scanner's once it has the mutex.
Setup == SetupReads \/ SetupMakes
Serves(w) == Index(w) \/ Request(w)
Scans(i) == Index(i) \/ Scan(i)

(* Goroutines run, timers fire, and Go's mutex hands itself to one who has waited  *)
(* for a millisecond.                                                           *)
Fairness ==
  /\ WF_nvars(Setup)
  /\ \A w \in Workers : WF_nvars(Serves(w))
  /\ \A i \in Scanners : WF_nvars(Scans(i)) /\ SF_nvars(Acquire(i))

Spec == Init /\ [][Next]_nvars
FairSpec == Spec /\ Fairness

-------------------------------------------------------------------------------
(* Properties                                                                 *)

(* The variables keep their types.                                            *)
IndexTyped ==
  /\ fs \in [Directories -> Sizes \cup {0, Nil}]
  /\ \A e \in {idx[d] : d \in Directories} \cup {old[w] : w \in Workers} :
       e # Nil => /\ e.file \in Sizes \cup {0} /\ e.folders \subseteq Directories \ Excluded /\ e.size \in Int
                  /\ e.cur \in BOOLEAN /\ e.lost \in {"no", "late", "back"}
  /\ \A t \in Tops : reg[t] = Nil \/ reg[t] \in {t} \X Copies
  /\ \A i \in Scanners : sc[i].pc \in {"scan", "adopt"} <=> holder = i

\* A request has not finished with what it did to a directory.
Pending(d) == \E w \in Workers : job[w].pc # "idle" /\ ((job[w].pc = "index" /\ d = job[w].dir) \/ \E r \in job[w].left : d = r.dir)

(* What a quick scan takes on trust: a directory whose modification time is that   *)
(* in the index lists the same there, whatever scans, refreshes, removals from the  *)
(* index and updates of sizes overlapped.  One thing may make it untrue: a removal   *)
(* that comes late takes out what is there again.  Then the request that removed it   *)
(* is about to read the directory once more (lost is "late"); or that has been done,   *)
(* but an update of sizes has put the entry back it had a pointer to ("back").       *)
TimeTells ==
  \A d \in Directories :
    (idx[d] # Nil /\ idx[d].cur /\ There(d) /\ (idx[d].lost = "late" => ~Pending(d)) /\ idx[d].lost # "back") =>
      (idx[d].file # 0) = (fs[d] # 0) /\ idx[d].folders = Inside(d) \ Excluded

(* What the rules exclude stays out of the index, whether a scan, a refresh or the   *)
(* destination of a move comes upon it.                                         *)
ExcludedOut == \A d \in Excluded : idx[d] = Nil

\* No scanner looks after the directory: the one the index knows was stopped.
Orphaned(t) == \A n \in Copies : ~Runs(<<t, n>>) \/ sc[<<t, n>>].stopped
TopOf(d) == CHOOSE t \in Tops : d \in Within(t)

Exact(d) ==
  /\ idx[d] # Nil /\ idx[d].file = fs[d] /\ idx[d].folders = Inside(d) \ Excluded
  /\ idx[d].size = fs[d] + MapThenSumSet(SizeOf, idx[d].folders)

(* What the index becomes, and stays, when the files no longer change: right,       *)
(* entries and sizes, of the root and of every directory a scanner looks after,      *)
(* whatever refreshes left it in whatever order.                                *)
Settled == \A d \in Directories \ Excluded : There(d) /\ (d = Root \/ ~Orphaned(TopOf(d))) => Exact(d)
===============================================================================
