------------------------------ MODULE Protection ------------------------------
(***************************************************************************)
(* ChainFS file protection: protectHandler, the resource handlers that must  *)
(* respect a protection, the BoltDB records they consult, the central state  *)
(* file that carries the records over a redeploy, and the restart that reads *)
(* it back (backend/http/{protect,acornstate,resource}.go,                   *)
(* backend/database/protection, backend/chainfs/client.go).                  *)
(*                                                                          *)
(* Every request runs in a goroutine of its own.  A step is what a handler   *)
(* does between two points where another one can get in: an external call,   *)
(* a BoltDB transaction, a file-system call, the mutex of the state file.    *)
(* A request refused before it changed anything is no step.                  *)
(***************************************************************************)
EXTENDS AcornState

CONSTANTS
  Reqs,          \* request slots: how many requests run at once
  Dirs, Names,   \* directories, and the names of the files in them
  Contents,      \* what a file can hold
  Guids,         \* the file guids ChainFS will issue
  Bypass,        \* any guid made up by the old bypass ("bypass-...")
  Hours,         \* the protection periods users ask for
  Boot,          \* InitAcornState as the holder of the mutex
  DirTargets,    \* the directories users delete or move
  LegacyExpiry,  \* expiry of the records the old bypass left behind
  MaxTime        \* bound on the clock

VARIABLES
  srv,      \* "down", "purging", "restoring" (InitAcornState) or "up"
  todo,     \* records InitAcornState has still to restore into BoltDB
  fs,       \* the content of every file, Nil where there is none
  bolt,     \* the protection records in BoltDB
  chain,    \* what ChainFS stored under every guid
  now,      \* the clock, in hours
  trash,    \* sources of fallback moves a goroutine has still to remove
  pc, tgt, dst, rec,  \* per request: place, target, destination, record

  \* history: what no variable of the program remembers
  held,     \* the record whose protection the user was promised
  stale,    \* the last write of the state file failed
  fault     \* the kind of fault that may have cost the state file a record:
            \* "torn" by a crash, a failed "write", "read" or "restore", the
            \* file of another "source", "several" of these, or "none" so far

Paths   == Dirs \X Names
Targets == Paths \cup Dirs
Stored  == [path : Paths, content : Contents]
Records == [guid : Guids \cup {Bypass}, expiry : Nat]

reqVars  == <<pc, tgt, dst, rec>>
histVars == <<held, stale, fault>>
vars == <<acornVars, srv, todo, fs, bolt, chain, now, trash, reqVars, histVars>>

ASSUME ProtectionAssumption ==
  /\ Keys = Paths
  /\ Dirs \cap Paths = {}
  /\ Nil \notin Reqs \cup Targets \cup Contents \cup Records \cup Stored \cup {Boot}
  /\ Boot \notin Reqs
  /\ Bypass \notin Guids
  /\ Torn \notin [Paths -> Records \cup {Nil}]
  /\ DirTargets \subseteq Dirs
  /\ Hours \subseteq Nat \ {0}
  /\ LegacyExpiry \in Nat
  /\ MaxTime \in Nat

Files(t) == IF t \in Dirs THEN {p \in Paths : p[1] = t} ELSE {t}

\* The comparison of IsProtectionActive: expiry 0 never ends.
Unexpired(r) == r.expiry = 0 \/ now < r.expiry

\* IsProtectionActive.  BoltDB keeps records under file paths only.
IsProtectionActive(t) == t \in Paths /\ bolt[t] # Nil /\ Unexpired(bolt[t])

-------------------------------------------------------------------------------
\* Where every request slot is when no request is in it.
NoRequests ==
  /\ pc  = [r \in Reqs |-> "idle"]
  /\ tgt = [r \in Reqs |-> Nil]
  /\ dst = [r \in Reqs |-> Nil]
  /\ rec = [r \in Reqs |-> Nil]

\* What a version with the old bypass may have left behind for path p.
Legacy(L) ==
  [p \in Paths |-> IF p \in L THEN [guid |-> Bypass, expiry |-> LegacyExpiry]
                              ELSE Nil]

(* The server is about to start, over files that exist already and perhaps    *)
(* records of an older version, which stored them in BoltDB and in the file.  *)
Init ==
  /\ srv = "down" /\ todo = {} /\ trash = {} /\ now = 1
  /\ fs \in [Paths -> Contents \cup {Nil}]
  /\ \E L \in SUBSET {p \in Paths : fs[p] # Nil} :
       /\ bolt = Legacy(L)
       /\ disk = [s \in Sources |-> Legacy(L)]
  /\ chain = [g \in Guids |-> Nil]
  /\ mem = Empty /\ path \in Sources /\ holder = Nil
  /\ NoRequests
  /\ held = [p \in Paths |-> Nil] /\ stale = FALSE /\ fault = "none"

\* Request r moves on; its target, destination and record stay.
Goto(r, place) == pc' = [pc EXCEPT ![r] = place] /\ UNCHANGED <<tgt, dst, rec>>

\* Request r is answered and its slot free again.
Reply(r) ==
  /\ pc'  = [pc  EXCEPT ![r] = "idle"]
  /\ tgt' = [tgt EXCEPT ![r] = Nil]
  /\ dst' = [dst EXCEPT ![r] = Nil]
  /\ rec' = [rec EXCEPT ![r] = Nil]

\* A request of target t and destination u enters the free slot r at place.
Enter(r, place, t, u) ==
  /\ srv = "up" /\ pc[r] = "idle"
  /\ pc'  = [pc  EXCEPT ![r] = place]
  /\ tgt' = [tgt EXCEPT ![r] = t]
  /\ dst' = [dst EXCEPT ![r] = u]
  /\ UNCHANGED rec

-------------------------------------------------------------------------------
(* protectHandler *)

(* The refusals at the top of the handler (bad hours, not a ChainFS account,  *)
(* no credentials, no subscription, no access, a directory) are no steps.     *)
ProtectCheck(r, p) ==
  /\ fs[p] # Nil
  /\ Enter(r, "upload", p, Nil)
  /\ UNCHANGED <<acornVars, srv, todo, fs, bolt, chain, now, trash, histVars>>

\* FileEncode and FileCreate succeed: ChainFS holds what the file held.
UploadFile(r) ==
  /\ pc[r] = "upload" /\ fs[tgt[r]] # Nil
  /\ \E g \in Guids :
       /\ chain[g] = Nil
       /\ chain' = [chain EXCEPT ![g] = [path |-> tgt[r], content |-> fs[tgt[r]]]]
       /\ rec' = [rec EXCEPT ![r] = [guid |-> g, expiry |-> 0]]
  /\ pc' = [pc EXCEPT ![r] = "save"]
  /\ UNCHANGED <<tgt, dst, acornVars, srv, todo, fs, bolt, now, trash, histVars>>

\* Mutant: a failed upload is recorded with a guid ChainFS never issued.
UploadFailsRecorded(r) ==
  /\ pc[r] = "upload"
  /\ \E g \in Guids :
       chain[g] = Nil /\ rec' = [rec EXCEPT ![r] = [guid |-> g, expiry |-> 0]]
  /\ pc' = [pc EXCEPT ![r] = "save"]
  /\ UNCHANGED <<tgt, dst, acornVars, srv, todo, fs, bolt, chain, now, trash, histVars>>

(* os.Open, FileEncode or FileCreate fails; or FileCreate succeeds and its    *)
(* answer is lost, which leaves a file on ChainFS that nothing here refers to.*)
UploadFails(r) ==
  /\ pc[r] = "upload"
  /\ \/ UNCHANGED chain
     \/ /\ fs[tgt[r]] # Nil
        /\ \E g \in Guids :
             /\ chain[g] = Nil
             /\ chain' = [chain EXCEPT ![g] = [path |-> tgt[r], content |-> fs[tgt[r]]]]
  /\ Reply(r)
  /\ UNCHANGED <<acornVars, srv, todo, fs, bolt, now, trash, histVars>>

(* store.Protection.Save, one BoltDB transaction.  It overwrites any record   *)
(* of the path, a longer one too, and so ends an earlier promise.             *)
SaveRecord(r) ==
  /\ pc[r] = "save"
  /\ \E h \in Hours :
       LET new == [rec[r] EXCEPT !.expiry = now + h] IN
       /\ rec'  = [rec  EXCEPT ![r] = new]
       /\ bolt' = [bolt EXCEPT ![tgt[r]] = new]
  /\ held' = [held EXCEPT ![tgt[r]] = Nil]
  /\ pc' = [pc EXCEPT ![r] = "record"]
  /\ UNCHANGED <<tgt, dst, acornVars, srv, todo, fs, chain, now, trash, stale, fault>>

\* Mutant: the error of store.Protection.Save is dropped.
SaveRecordFailsIgnored(r) ==
  /\ pc[r] = "save"
  /\ Goto(r, "record")
  /\ UNCHANGED <<acornVars, srv, todo, fs, bolt, chain, now, trash, histVars>>

SaveRecordFails(r) ==
  /\ pc[r] = "save"
  /\ Reply(r)
  /\ UNCHANGED <<acornVars, srv, todo, fs, bolt, chain, now, trash, histVars>>

\* Another protect of path p is between its BoltDB save and its answer.
Contended(r, p) ==
  \E q \in Reqs \ {r} : pc[q] \in {"record", "ack"} /\ tgt[q] = p

(* Protect r is answered 200: the user has been promised rec[r].  Two protects *)
(* of one path that overlap promise nothing: nobody can say which one counts.  *)
Promise(r) ==
  held' = [held EXCEPT ![tgt[r]] =
             IF ~Contended(r, tgt[r]) /\ bolt[tgt[r]] = rec[r] THEN rec[r] ELSE Nil]

\* AcornStateSaveProtection up to the write.
RecordState(r) ==
  /\ pc[r] = "record"
  /\ OpenFile(r, [mem EXCEPT ![tgt[r]] = rec[r]])
  /\ Goto(r, "ack")
  /\ UNCHANGED <<srv, todo, fs, bolt, chain, now, trash, histVars>>

\* The state file cannot be opened; the request succeeds all the same.
RecordStateFails(r) ==
  /\ pc[r] = "record"
  /\ OpenFileFails([mem EXCEPT ![tgt[r]] = rec[r]])
  /\ Promise(r) /\ stale' = TRUE
  /\ Reply(r)
  /\ UNCHANGED <<srv, todo, fs, bolt, chain, now, trash, fault>>

-------------------------------------------------------------------------------
(* resourceDeleteHandler *)

\* Mutant: no look at the protection.
DeleteCheckUnguarded(r, t) ==
  /\ t \in Paths => fs[t] # Nil
  /\ Enter(r, "delete", t, Nil)
  /\ UNCHANGED <<acornVars, srv, todo, fs, bolt, chain, now, trash, histVars>>

\* Only the target itself is looked up, not what is in it.
DeleteCheck(r, t) ==
  /\ t \in Paths => fs[t] # Nil
  /\ ~IsProtectionActive(t)
  /\ Enter(r, "delete", t, Nil)
  /\ UNCHANGED <<acornVars, srv, todo, fs, bolt, chain, now, trash, histVars>>

(* files.DeleteFiles: os.RemoveAll, which may stop on the way, then the index  *)
(* refresh, whose error also ends the handler before the record is removed.    *)
DeleteFiles(r) ==
  /\ pc[r] = "delete"
  /\ \E gone \in SUBSET Files(tgt[r]) :
       /\ fs' = [p \in Paths |-> IF p \in gone THEN Nil ELSE fs[p]]
       /\ \/ gone = Files(tgt[r]) /\ Goto(r, "forget")
          \/ Reply(r)
  /\ UNCHANGED <<acornVars, srv, todo, bolt, chain, now, trash, histVars>>

\* AcornStateRemoveProtection: the state file only, never BoltDB.
Without(t) == [p \in Paths |-> IF p = t THEN Nil ELSE mem[p]]
Released(t) == [p \in Paths |-> IF p = t THEN Nil ELSE held[p]]

\* Mutant: the record leaves the map, and nobody saves the file.
RemoveStateUnsaved(r) ==
  /\ pc[r] = "forget"
  /\ Unlocked /\ mem' = Without(tgt[r])
  /\ held' = Released(tgt[r])
  /\ Reply(r)
  /\ UNCHANGED <<disk, path, holder, srv, todo, fs, bolt, chain, now, trash, stale, fault>>

RemoveState(r) ==
  /\ pc[r] = "forget"
  /\ OpenFile(r, Without(tgt[r]))
  /\ held' = Released(tgt[r])
  /\ Goto(r, "reply")
  /\ UNCHANGED <<srv, todo, fs, bolt, chain, now, trash, stale, fault>>

RemoveStateFails(r) ==
  /\ pc[r] = "forget"
  /\ OpenFileFails(Without(tgt[r]))
  /\ held' = Released(tgt[r]) /\ stale' = TRUE
  /\ Reply(r)
  /\ UNCHANGED <<srv, todo, fs, bolt, chain, now, trash, fault>>

-------------------------------------------------------------------------------
(* The end of every rewrite of the state file *)

\* AcornStateSaveSafeMode rewrites the same file for a change of its own.
SaveSafeMode(r) ==
  /\ Enter(r, "reply", Nil, Nil)
  /\ OpenFile(r, mem)
  /\ UNCHANGED <<srv, todo, fs, bolt, chain, now, trash, histVars>>

Answer(r) ==
  /\ IF pc[r] = "ack" THEN Promise(r) ELSE UNCHANGED held
  /\ Reply(r)

WriteState(r) ==
  /\ pc[r] \in {"ack", "reply"}
  /\ FillFile(r) /\ stale' = FALSE
  /\ Answer(r)
  /\ UNCHANGED <<srv, todo, fs, bolt, chain, now, trash, fault>>

WriteStateFails(r) ==
  /\ pc[r] \in {"ack", "reply"}
  /\ FillFileFails(r) /\ stale' = TRUE
  /\ Answer(r)
  /\ UNCHANGED <<srv, todo, fs, bolt, chain, now, trash, fault>>

-------------------------------------------------------------------------------
(* resourcePatchHandler *)

\* Mutant: the source of a move is not looked up.
PatchCheckUnguarded(r, t, u) ==
  /\ t # u /\ (t \in Dirs <=> u \in Dirs)
  /\ t \in Paths => fs[t] # Nil
  /\ Enter(r, "patch", t, u)
  /\ UNCHANGED <<acornVars, srv, todo, fs, bolt, chain, now, trash, histVars>>

\* A directory is never looked up, and the destination neither.
PatchCheck(r, t, u) ==
  /\ t # u /\ (t \in Dirs <=> u \in Dirs)
  /\ t \in Paths => fs[t] # Nil
  /\ t \in Dirs \/ ~IsProtectionActive(t)
  /\ Enter(r, "patch", t, u)
  /\ UNCHANGED <<acornVars, srv, todo, fs, bolt, chain, now, trash, histVars>>

\* The file that p is copied from when t is copied to u.
Origin(t, u, p) == IF t \in Dirs THEN <<t, p[2]>> ELSE t

\* The files after the files `some` of t have been copied over those of u.
Copied(t, u, some) ==
  [p \in Paths |->
     IF p \in Files(u) /\ Origin(t, u, p) \in some /\ fs[Origin(t, u, p)] # Nil
     THEN fs[Origin(t, u, p)] ELSE fs[p]]

(* MoveResource by os.Rename, which replaces a file but not a directory with   *)
(* anything in it.  The records stay under the old path.                       *)
MoveRename(r) ==
  /\ pc[r] = "patch"
  /\ tgt[r] \in Dirs => \A p \in Files(dst[r]) : fs[p] = Nil
  /\ fs' = [p \in Paths |-> IF p \in Files(tgt[r]) THEN Nil
                            ELSE Copied(tgt[r], dst[r], Files(tgt[r]))[p]]
  /\ Reply(r)
  /\ UNCHANGED <<acornVars, srv, todo, bolt, chain, now, trash, histVars>>

(* The fallback of MoveFile, and action=copy: a copy that may stop on the way. *)
(* After a move, a goroutine removes the source some time later.               *)
MoveCopy(r) ==
  /\ pc[r] = "patch"
  /\ \E some \in SUBSET Files(tgt[r]) :
       /\ fs' = Copied(tgt[r], dst[r], some)
       /\ \/ UNCHANGED trash
          \/ some = Files(tgt[r]) /\ trash' = trash \cup {tgt[r]}
  /\ Reply(r)
  /\ UNCHANGED <<acornVars, srv, todo, bolt, chain, now, histVars>>

\* go func() { os.RemoveAll(src) } of MoveFile.
RemoveMoved(t) ==
  /\ t \in trash
  /\ trash' = trash \ {t}
  /\ fs' = [p \in Paths |-> IF p \in Files(t) THEN Nil ELSE fs[p]]
  /\ UNCHANGED <<acornVars, srv, todo, bolt, chain, now, reqVars, histVars>>

-------------------------------------------------------------------------------
(* resourcePostHandler and resourcePutHandler write without a look at records. *)
WriteFile(p, c) ==
  /\ srv = "up"
  /\ fs[p] # c
  /\ fs' = [fs EXCEPT ![p] = c]
  /\ UNCHANGED <<acornVars, srv, todo, bolt, chain, now, trash, reqVars, histVars>>

-------------------------------------------------------------------------------
(* Time, and the death and restart of the process *)

Tick ==
  /\ now < MaxTime
  /\ now' = now + 1
  /\ UNCHANGED <<acornVars, srv, todo, fs, bolt, chain, trash, reqVars, histVars>>

\* The fault history after f.
Blame(f) == IF fault \in {"none", f} THEN f ELSE "several"

\* The process dies; a redeploy also wipes BoltDB.
Crash ==
  /\ srv # "down"
  /\ srv' = "down" /\ todo' = {} /\ trash' = {}
  /\ ForgetState
  /\ \/ UNCHANGED bolt
     \/ bolt' = [p \in Paths |-> Nil]
  /\ pc'  = [r \in Reqs |-> "idle"] /\ tgt' = [r \in Reqs |-> Nil]
  /\ dst' = [r \in Reqs |-> Nil]    /\ rec' = [r \in Reqs |-> Nil]
  /\ fault' = IF stale THEN Blame("write")
              ELSE IF Unlocked THEN fault ELSE Blame("torn")
  /\ UNCHANGED <<fs, chain, now, held, stale>>

\* InitAcornState drops the records whose guid is synthetic.
Purged(m) ==
  [p \in Paths |-> IF m[p] # Nil /\ m[p].guid = Bypass THEN Nil ELSE m[p]]

ToRestore(m) == {p \in Paths : m[p] # Nil}

(* InitAcornState: choose a source (the first of a Go map, so any), read its   *)
(* file, purge, and write the file again if anything was purged.               *)
StartClean(s) ==
  /\ srv = "down"
  /\ Purged(ReadBack(s)) = ReadBack(s)
  /\ path' = s
  /\ mem' = ReadBack(s)
  /\ srv' = "restoring" /\ todo' = ToRestore(ReadBack(s))
  /\ stale' = FALSE
  /\ fault' = IF s = path THEN fault ELSE Blame("source")
  /\ UNCHANGED <<disk, holder, fs, bolt, chain, now, trash, reqVars, held>>

StartPurging(s) ==
  /\ srv = "down"
  /\ Purged(ReadBack(s)) # ReadBack(s)
  /\ path' = s
  /\ mem' = Purged(ReadBack(s))
  /\ holder' = Boot
  /\ disk' = [disk EXCEPT ![s] = Torn]
  /\ srv' = "purging"
  /\ stale' = FALSE
  /\ fault' = IF s = path THEN fault ELSE Blame("source")
  /\ UNCHANGED <<todo, fs, bolt, chain, now, trash, reqVars, held>>

\* Mutant: the maps stay nil when the file cannot be read.
StartUnreadableNil(s) ==
  /\ srv = "down"
  /\ path' = s
  /\ mem' = Nil
  /\ srv' = "restoring" /\ todo' = {}
  /\ stale' = FALSE
  /\ fault' = Blame("read")
  /\ UNCHANGED <<disk, holder, fs, bolt, chain, now, trash, reqVars, held>>

(* The file is there but os.ReadFile fails: the server starts with empty maps, *)
(* which the next change writes over the file.                                *)
StartUnreadable(s) ==
  /\ srv = "down"
  /\ path' = s
  /\ mem' = Empty
  /\ srv' = "restoring" /\ todo' = {}
  /\ stale' = FALSE
  /\ fault' = Blame("read")
  /\ UNCHANGED <<disk, holder, fs, bolt, chain, now, trash, reqVars, held>>

WritePurged ==
  /\ srv = "purging"
  /\ \/ FillFile(Boot) /\ UNCHANGED stale
     \/ FillFileFails(Boot) /\ stale' = TRUE
  /\ srv' = "restoring" /\ todo' = ToRestore(mem)
  /\ UNCHANGED <<fs, bolt, chain, now, trash, reqVars, held, fault>>

\* One store.Protection.Save of the restore loop; an error is only logged.
RestoreRecord(p) ==
  /\ srv = "restoring" /\ p \in todo
  /\ todo' = todo \ {p}
  /\ \/ bolt' = [bolt EXCEPT ![p] = mem[p]] /\ UNCHANGED fault
     \/ fault' = Blame("restore") /\ UNCHANGED bolt
  /\ UNCHANGED <<acornVars, srv, fs, chain, now, trash, reqVars, held, stale>>

\* Mutant: the server listens while the records are still being restored.
ServeEarly ==
  /\ srv = "restoring"
  /\ srv' = "up"
  /\ UNCHANGED <<acornVars, todo, fs, bolt, chain, now, trash, reqVars, histVars>>

\* InitAcornState returns and StartHttp goes on to listen.
Serve ==
  /\ srv = "restoring" /\ todo = {}
  /\ srv' = "up"
  /\ UNCHANGED <<acornVars, todo, fs, bolt, chain, now, trash, reqVars, histVars>>

-------------------------------------------------------------------------------
Protect(r) ==
  \/ \E p \in Paths : ProtectCheck(r, p)
  \/ UploadFile(r) \/ UploadFails(r)
  \/ SaveRecord(r) \/ SaveRecordFails(r)
  \/ RecordState(r) \/ RecordStateFails(r)

Delete(r) ==
  \/ \E t \in Paths \cup DirTargets : DeleteCheck(r, t)
  \/ DeleteFiles(r) \/ RemoveState(r) \/ RemoveStateFails(r)

Patch(r) ==
  \/ \E t \in Paths \cup DirTargets, u \in Targets : PatchCheck(r, t, u)
  \/ MoveRename(r) \/ MoveCopy(r)

StateFile(r) == SaveSafeMode(r) \/ WriteState(r) \/ WriteStateFails(r)

Boots ==
  \/ \E s \in Sources : StartClean(s) \/ StartPurging(s) \/ StartUnreadable(s)
  \/ WritePurged
  \/ \E p \in Paths : RestoreRecord(p)
  \/ Serve

Next ==
  \/ \E r \in Reqs : Protect(r) \/ Delete(r) \/ Patch(r) \/ StateFile(r)
  \/ \E t \in Targets : RemoveMoved(t)
  \/ \E p \in Paths, c \in Contents : WriteFile(p, c)
  \/ Tick \/ Crash \/ Boots

Spec == Init /\ [][Next]_vars

(* What a goroutine does without the mutex, and what it needs the mutex for.   *)
Moves(r) ==
  \/ UploadFile(r) \/ UploadFails(r) \/ SaveRecord(r) \/ SaveRecordFails(r)
  \/ DeleteFiles(r) \/ MoveRename(r) \/ MoveCopy(r)
  \/ WriteState(r) \/ WriteStateFails(r)
Locks(r) ==
  \/ RecordState(r) \/ RecordStateFails(r)
  \/ RemoveState(r) \/ RemoveStateFails(r)

-------------------------------------------------------------------------------
(* Properties *)

Maps(S) == [Paths -> S \cup {Nil}]

(* The variables keep their types.                                            *)
TypeOK ==
  /\ mem \in Maps(Records)
  /\ disk \in [Sources -> Maps(Records) \cup {Torn}]
  /\ path \in Sources
  /\ holder \in Reqs \cup {Boot, Nil}
  /\ srv \in {"down", "purging", "restoring", "up"}
  /\ todo \subseteq Paths
  /\ fs \in Maps(Contents)
  /\ bolt \in Maps(Records)
  /\ chain \in [Guids -> Stored \cup {Nil}]
  /\ now \in Nat
  /\ trash \subseteq Targets
  /\ pc \in [Reqs -> {"idle", "upload", "save", "record", "ack",
                      "delete", "forget", "reply", "patch"}]
  /\ tgt \in [Reqs -> Targets \cup {Nil}]
  /\ dst \in [Reqs -> Targets \cup {Nil}]
  /\ rec \in [Reqs -> Records \cup {Nil}]
  /\ held \in Maps(Records)
  /\ stale \in BOOLEAN
  /\ fault \in {"none", "torn", "write", "read", "restore", "source", "several"}

(* A protection the user was told of is the one BoltDB holds whenever the      *)
(* server answers requests, through any number of crashes and redeploys,       *)
(* unless a fault has kept the state file from what memory held.               *)
PromiseKept ==
  srv = "up" /\ fault = "none" => \A p \in Paths : held[p] # Nil => bolt[p] = held[p]

\* The user has been promised that p is protected, and the time is not over.
Promised(p) == fault = "none" /\ held[p] # Nil /\ Unexpired(held[p])

(* No delete and no move of a file is let in while the user has been promised  *)
(* that the file is protected: the guards read BoltDB, the promise may be as   *)
(* old as three redeploys ago.                                                 *)
RefusesRemoval ==
  [][\A r \in Reqs, p \in Paths :
       pc[r] = "idle" /\ pc'[r] \in {"delete", "patch"} /\ tgt'[r] = p => ~Promised(p)]_vars

(* A record of path p with a real guid names a file that ChainFS stored for    *)
(* that very path: in BoltDB, in memory, in every state file, in a request.    *)
Genuine(p, r) == r # Nil /\ r.guid \in Guids => chain[r.guid] # Nil /\ chain[r.guid].path = p
GenuineRecords ==
  /\ \A p \in Paths :
       /\ Genuine(p, bolt[p]) /\ Genuine(p, mem[p])
       /\ \A s \in Sources : disk[s] # Torn => Genuine(p, disk[s][p])
  /\ \A r \in Reqs : rec[r] # Nil => Genuine(tgt[r], rec[r])

(* Whatever the state file knows while the server answers requests, BoltDB     *)
(* knows: a check by BoltDB alone misses no record.                            *)
BoltCoversState ==
  srv = "up" /\ fault = "none" => \A p \in Paths : mem[p] # Nil => bolt[p] # Nil

(* With the mutex free and no failed write outstanding, the state file is      *)
(* exactly what memory holds, whichever requests have written it.              *)
FileIsCurrent ==
  srv \in {"restoring", "up"} /\ fault = "none" /\ ~stale /\ Unlocked => disk[path] = mem

-------------------------------------------------------------------------------
(* What the repository says of protection, and the code does not do *)

(* Fork.md: "Protected files cannot be deleted or moved until expiry".         *)
UndeletableUntilExpiry ==
  [][\A p \in Paths : Promised(p) /\ ~stale /\ fs[p] # Nil => fs'[p] # Nil]_vars

Survives(faults) ==
  srv = "up" /\ fault \in faults => \A p \in Paths : held[p] # Nil => bolt[p] = held[p]

(* acornstate.go: protection records "survive redeployments"; here a process   *)
(* may die while it writes the state file, and nothing else goes wrong.        *)
SurvivesRedeploy == Survives({"none", "torn"})
===============================================================================
