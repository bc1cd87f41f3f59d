--------------------------- MODULE ProtectionProofs ---------------------------
(***************************************************************************)
(* Proofs about Protection, for any number of requests, files, directories,  *)
(* sources and guids, and without the bound on the clock mattering; and      *)
(* about Indexing, for any tree of directories, any rules, any number of     *)
(* requests and scanners and any changes to the files.                       *)
(***************************************************************************)
EXTENDS Settles, Sums, Sequences

(* What a request holds at each place of its handler.                        *)
ReqOK ==
  \A r \in Reqs :
    /\ pc[r] \in {"upload", "save", "record", "ack"} => tgt[r] \in Paths
    /\ pc[r] \in {"save", "record", "ack"} =>
         rec[r] \in Records /\ rec[r].guid \in Guids
    /\ pc[r] \in {"delete", "forget", "patch"} => tgt[r] \in Targets
    /\ pc[r] = "patch" => dst[r] \in Targets

TypeInv == TypeOK /\ ReqOK

(* The files after a copy are files.                                         *)
LEMMA CopiedType ==
  ASSUME ProtectionAssumption, fs \in Maps(Contents),
         NEW t \in Targets, NEW u \in Targets, NEW some
  PROVE  Copied(t, u, some) \in Maps(Contents)
<1> SUFFICES ASSUME NEW p \in Paths, fs[Origin(t, u, p)] # Nil
             PROVE  fs[Origin(t, u, p)] \in Contents \cup {Nil}
  BY DEF Copied, Maps
<1>1. Origin(t, u, p) \in Paths
  BY DEF Origin, Paths, Targets, ProtectionAssumption
<1> QED BY <1>1 DEF Maps

(* What the state file yields is a map of records.                           *)
LEMMA ReadBackType ==
  ASSUME ProtectionAssumption, TypeOK, NEW s \in Sources
  PROVE  /\ ReadBack(s) \in Maps(Records)
         /\ Purged(ReadBack(s)) \in Maps(Records)
         /\ ToRestore(ReadBack(s)) \subseteq Paths
  BY DEF ProtectionAssumption, TypeOK, ReadBack, Purged, ToRestore, Maps, Empty

(* The program starts with well-typed variables.                             *)
LEMMA InitType == ASSUME ProtectionAssumption PROVE Init => TypeInv
<1> SUFFICES ASSUME Init PROVE TypeInv
  OBVIOUS
<1> USE DEF Init, ProtectionAssumption
<1>1. PICK L \in SUBSET Paths : bolt = Legacy(L) /\ disk = [s \in Sources |-> Legacy(L)]
  OBVIOUS
<1>2. Legacy(L) \in Maps(Records)
  BY DEF Legacy, Maps, Records
<1>3. /\ mem \in Maps(Records) /\ fs \in Maps(Contents)
      /\ held \in Maps(Records)
  BY DEF Maps, Empty
<1>4. TypeOK
  BY <1>1, <1>2, <1>3 DEF TypeOK, NoRequests
<1>5. ReqOK
  BY DEF ReqOK, NoRequests
<1> QED BY <1>4, <1>5 DEF TypeInv

(* Every step of a protect keeps the types.                                  *)
LEMMA ProtectType ==
  ASSUME ProtectionAssumption, TypeInv, NEW r \in Reqs, Protect(r)
  PROVE  TypeInv'
<1> USE DEF TypeInv, TypeOK, ReqOK, Maps, ProtectionAssumption, acornVars, reqVars, histVars,
            Reply, Goto, Enter, Targets
<1>1. ASSUME NEW p \in Paths, ProtectCheck(r, p) PROVE TypeInv'
  BY <1>1 DEF ProtectCheck
<1>2. CASE UploadFile(r)
  BY <1>2 DEF UploadFile, Records, Stored
<1>3. CASE UploadFails(r)
  BY <1>3 DEF UploadFails, Stored
<1>4. CASE SaveRecord(r)
  BY <1>4 DEF SaveRecord, Records
<1>5. CASE SaveRecordFails(r)
  BY <1>5 DEF SaveRecordFails
<1>6. CASE RecordState(r)
  BY <1>6 DEF RecordState, OpenFile
<1>7. CASE RecordStateFails(r)
  BY <1>7 DEF RecordStateFails, OpenFileFails, Promise
<1> QED BY <1>1, <1>2, <1>3, <1>4, <1>5, <1>6, <1>7 DEF Protect

(* Every step of a delete keeps the types.                                   *)
LEMMA DeleteType ==
  ASSUME ProtectionAssumption, TypeInv, NEW r \in Reqs, Delete(r)
  PROVE  TypeInv'
<1> USE DEF TypeInv, TypeOK, ReqOK, Maps, ProtectionAssumption, acornVars, reqVars, histVars,
            Reply, Goto, Enter, Targets
<1>1. ASSUME NEW t \in Paths \cup DirTargets, DeleteCheck(r, t) PROVE TypeInv'
  BY <1>1 DEF DeleteCheck
<1>2. CASE DeleteFiles(r)
  BY <1>2 DEF DeleteFiles
<1>3. CASE RemoveState(r)
  BY <1>3 DEF RemoveState, OpenFile, Without, Released
<1>4. CASE RemoveStateFails(r)
  BY <1>4 DEF RemoveStateFails, OpenFileFails, Without, Released
<1> QED BY <1>1, <1>2, <1>3, <1>4 DEF Delete

(* Every step of a move or a copy keeps the types.                           *)
LEMMA PatchType ==
  ASSUME ProtectionAssumption, TypeInv, NEW r \in Reqs, Patch(r)
  PROVE  TypeInv'
<1> USE DEF TypeInv, TypeOK, ReqOK, ProtectionAssumption, acornVars, reqVars, histVars,
            Reply, Goto, Enter, Targets
<1>1. ASSUME NEW t \in Paths \cup DirTargets, NEW u \in Targets, PatchCheck(r, t, u)
      PROVE  TypeInv'
  BY <1>1 DEF PatchCheck
<1>2. CASE MoveRename(r)
  <2>1. Copied(tgt[r], dst[r], Files(tgt[r])) \in Maps(Contents)
    BY <1>2, CopiedType DEF MoveRename
  <2>2. fs' \in Maps(Contents)
    BY <1>2, <2>1 DEF MoveRename, Maps
  <2> QED BY <1>2, <2>2 DEF MoveRename, Maps
<1>3. CASE MoveCopy(r)
  <2>1. fs' \in Maps(Contents)
    BY <1>3, CopiedType DEF MoveCopy
  <2> QED BY <1>3, <2>1 DEF MoveCopy, Maps
<1> QED BY <1>1, <1>2, <1>3 DEF Patch

(* Every rewrite of the state file keeps the types.                          *)
LEMMA StateFileType ==
  ASSUME ProtectionAssumption, TypeInv, NEW r \in Reqs, StateFile(r)
  PROVE  TypeInv'
<1> USE DEF TypeInv, TypeOK, ReqOK, Maps, ProtectionAssumption, acornVars, reqVars, histVars,
            Reply, Goto, Enter, Targets
<1>1. CASE SaveSafeMode(r)
  BY <1>1 DEF SaveSafeMode, OpenFile
<1>2. CASE WriteState(r)
  BY <1>2 DEF WriteState, FillFile, Answer, Promise
<1>3. CASE WriteStateFails(r)
  BY <1>3 DEF WriteStateFails, FillFileFails, Answer, Promise
<1> QED BY <1>1, <1>2, <1>3 DEF StateFile

(* Every step of a start keeps the types.                                    *)
LEMMA BootsType ==
  ASSUME ProtectionAssumption, TypeInv, Boots
  PROVE  TypeInv'
<1> USE DEF TypeInv, TypeOK, ReqOK, ProtectionAssumption, acornVars, reqVars, histVars, Blame
<1>1. ASSUME NEW s \in Sources, StartClean(s) PROVE TypeInv'
  BY <1>1, ReadBackType DEF StartClean
<1>2. ASSUME NEW s \in Sources, StartPurging(s) PROVE TypeInv'
  BY <1>2, ReadBackType DEF StartPurging
<1>3. ASSUME NEW s \in Sources, StartUnreadable(s) PROVE TypeInv'
  BY <1>3 DEF StartUnreadable, Empty, Maps
<1>4. CASE WritePurged
  <2>1. disk' \in [Sources -> Maps(Records) \cup {Torn}]
    BY <1>4 DEF WritePurged, FillFile, FillFileFails
  <2>2. stale' \in BOOLEAN /\ todo' \subseteq Paths /\ holder' = Nil /\ mem' = mem
    BY <1>4 DEF WritePurged, FillFile, FillFileFails, ToRestore
  <2> QED BY <1>4, <2>1, <2>2 DEF WritePurged, FillFile, FillFileFails
<1>5. ASSUME NEW p \in Paths, RestoreRecord(p) PROVE TypeInv'
  BY <1>5 DEF RestoreRecord, Maps
<1>6. CASE Serve
  BY <1>6 DEF Serve
<1> QED BY <1>1, <1>2, <1>3, <1>4, <1>5, <1>6 DEF Boots

(* Every step keeps the types.                                               *)
LEMMA NextType == ASSUME ProtectionAssumption PROVE TypeInv /\ [Next]_vars => TypeInv'
<1> SUFFICES ASSUME TypeInv, [Next]_vars PROVE TypeInv'
  OBVIOUS
<1> USE DEF acornVars, reqVars, histVars
<1>1. ASSUME NEW r \in Reqs, Protect(r) \/ Delete(r) \/ Patch(r) \/ StateFile(r) PROVE TypeInv'
  BY <1>1, ProtectType, DeleteType, PatchType, StateFileType
<1>2. ASSUME NEW t \in Targets, RemoveMoved(t) PROVE TypeInv'
  BY <1>2 DEF RemoveMoved, TypeInv, TypeOK, ReqOK, Maps
<1>3. ASSUME NEW p \in Paths, NEW c \in Contents, WriteFile(p, c) PROVE TypeInv'
  BY <1>3 DEF WriteFile, TypeInv, TypeOK, ReqOK, Maps
<1>4. CASE Tick
  BY <1>4 DEF Tick, TypeInv, TypeOK, ReqOK
<1>5. CASE Crash
  BY <1>5 DEF Crash, ForgetState, Empty, Blame, TypeInv, TypeOK, ReqOK, Maps, ProtectionAssumption
<1>6. CASE Boots
  BY <1>6, BootsType
<1>7. CASE UNCHANGED vars
  BY <1>7 DEF vars, TypeInv, TypeOK, ReqOK
<1> QED BY <1>1, <1>2, <1>3, <1>4, <1>5, <1>6, <1>7 DEF Next

(* The variables keep their types, whatever the instance: every request and   *)
(* every restart leaves well-formed records in BoltDB, memory and state file. *)
THEOREM TypeCorrect == Spec => []TypeOK
<1>1. Init => TypeInv
  BY InitType, ProtectionAssumption
<1>2. TypeInv /\ [Next]_vars => TypeInv'
  BY NextType, ProtectionAssumption
<1>3. TypeInv => TypeOK
  BY DEF TypeInv
<1> QED BY <1>1, <1>2, <1>3, PTL DEF Spec

-------------------------------------------------------------------------------
(***************************************************************************)
(* The inductive invariant behind PromiseKept, FileIsCurrent and             *)
(* BoltCoversState.  PromiseKept alone is not inductive: a crash may wipe     *)
(* BoltDB, so the record must be in the file by then, hence in memory before, *)
(* hence no other request may be about to overwrite it there.                *)
(***************************************************************************)

(* Who holds the mutex, and that nobody runs unless the server is up.        *)
Control ==
  /\ holder = Boot <=> srv = "purging"
  /\ \A r \in Reqs : holder = r <=> pc[r] \in {"ack", "reply"}
  /\ srv # "up" => \A r \in Reqs : pc[r] = "idle"

(* A promise is real and nobody is about to replace it in memory; a protect   *)
(* that waits for its write finds its own record in memory.                  *)
Settled ==
  /\ \A p \in Paths : held[p] # Nil => held[p].guid \in Guids
  /\ \A r \in Reqs : pc[r] \in {"record", "ack"} => held[tgt[r]] = Nil
  /\ \A r \in Reqs : pc[r] = "ack" => mem[tgt[r]] = rec[r]

(* BoltDB knows what memory knows of path p.                                 *)
Mirrored(p) ==
  /\ held[p] # Nil => bolt[p] = held[p]
  /\ mem[p] # Nil => bolt[p] # Nil

(* Where a promised record is, at every stage of the life of the process.    *)
DurableDown == srv = "down" =>
  disk[path] # Torn /\ \A p \in Paths : held[p] # Nil => disk[path][p] = held[p]
DurableMem == srv # "down" => \A p \in Paths : held[p] # Nil => mem[p] = held[p]
DurableFile == srv \in {"restoring", "up"} /\ ~stale /\ Unlocked => disk[path] = mem
DurableBolt ==
  /\ srv = "restoring" =>
       todo \subseteq ToRestore(mem) /\ \A p \in Paths \ todo : Mirrored(p)
  /\ srv = "up" => \A p \in Paths : Mirrored(p)
  /\ \A r \in Reqs : pc[r] = "record" => bolt[tgt[r]] # Nil

Durable == fault = "none" => DurableDown /\ DurableMem /\ DurableFile /\ DurableBolt

IInv == TypeInv /\ Control /\ Settled /\ Durable

(* Every step of a protect keeps the invariant. *)
LEMMA ProtectDurable ==
  ASSUME ProtectionAssumption, TypeInv, Control, Settled, Durable, NEW r \in Reqs, Protect(r)
  PROVE  Control' /\ Settled' /\ Durable'
<1> USE DEF TypeInv, TypeOK, ReqOK, Maps, ProtectionAssumption, acornVars, reqVars, histVars,
            Reply, Goto, Enter, Control, Settled, Durable, DurableDown, DurableMem,
            DurableFile, DurableBolt, Mirrored, Unlocked
<1>1. ASSUME NEW p \in Paths, ProtectCheck(r, p) PROVE Control' /\ Settled' /\ Durable'
  BY <1>1 DEF ProtectCheck
<1>2. CASE UploadFile(r)
  BY <1>2 DEF UploadFile, Records
<1>3. CASE UploadFails(r)
  BY <1>3 DEF UploadFails
<1>4. CASE SaveRecord(r)
  BY <1>4 DEF SaveRecord, Records
<1>5. CASE SaveRecordFails(r)
  BY <1>5 DEF SaveRecordFails
<1>6. CASE RecordState(r)
  BY <1>6 DEF RecordState, OpenFile
<1>7. CASE RecordStateFails(r)
  BY <1>7 DEF RecordStateFails, OpenFileFails, Promise, Contended
<1> QED BY <1>1, <1>2, <1>3, <1>4, <1>5, <1>6, <1>7 DEF Protect

(* Every step of a delete keeps the invariant. *)
LEMMA DeleteDurable ==
  ASSUME ProtectionAssumption, TypeInv, Control, Settled, Durable, NEW r \in Reqs, Delete(r)
  PROVE  Control' /\ Settled' /\ Durable'
<1> USE DEF TypeInv, TypeOK, ReqOK, Maps, ProtectionAssumption, acornVars, reqVars, histVars,
            Reply, Goto, Enter, Control, Settled, Durable, DurableDown, DurableMem,
            DurableFile, DurableBolt, Mirrored, Unlocked
<1>1. ASSUME NEW t \in Paths \cup DirTargets, DeleteCheck(r, t)
      PROVE Control' /\ Settled' /\ Durable'
  BY <1>1 DEF DeleteCheck
<1>2. CASE DeleteFiles(r)
  BY <1>2 DEF DeleteFiles
<1>3. CASE RemoveState(r)
  BY <1>3 DEF RemoveState, OpenFile, Without, Released
<1>4. CASE RemoveStateFails(r)
  BY <1>4 DEF RemoveStateFails, OpenFileFails, Without, Released
<1> QED BY <1>1, <1>2, <1>3, <1>4 DEF Delete

(* Every step of a move or a copy keeps the invariant. *)
LEMMA PatchDurable ==
  ASSUME ProtectionAssumption, TypeInv, Control, Settled, Durable, NEW r \in Reqs, Patch(r)
  PROVE  Control' /\ Settled' /\ Durable'
<1> USE DEF TypeInv, TypeOK, ReqOK, Maps, ProtectionAssumption, acornVars, reqVars, histVars,
            Reply, Goto, Enter, Control, Settled, Durable, DurableDown, DurableMem,
            DurableFile, DurableBolt, Mirrored, Unlocked
<1>1. ASSUME NEW t \in Paths \cup DirTargets, NEW u \in Targets, PatchCheck(r, t, u)
      PROVE Control' /\ Settled' /\ Durable'
  BY <1>1 DEF PatchCheck
<1>2. CASE MoveRename(r)
  BY <1>2 DEF MoveRename
<1>3. CASE MoveCopy(r)
  BY <1>3 DEF MoveCopy
<1> QED BY <1>1, <1>2, <1>3 DEF Patch

(* Every rewrite of the state file keeps the invariant. *)
LEMMA StateFileDurable ==
  ASSUME ProtectionAssumption, TypeInv, Control, Settled, Durable, NEW r \in Reqs, StateFile(r)
  PROVE  Control' /\ Settled' /\ Durable'
<1> USE DEF TypeInv, TypeOK, ReqOK, Maps, ProtectionAssumption, acornVars, reqVars, histVars,
            Reply, Goto, Enter, Control, Settled, Durable, DurableDown, DurableMem,
            DurableFile, DurableBolt, Mirrored, Unlocked
<1>1. CASE SaveSafeMode(r)
  BY <1>1 DEF SaveSafeMode, OpenFile
<1>2. CASE WriteState(r)
  BY <1>2 DEF WriteState, FillFile, Answer, Promise, Contended
<1>3. CASE WriteStateFails(r)
  BY <1>3 DEF WriteStateFails, FillFileFails, Answer, Promise, Contended
<1> QED BY <1>1, <1>2, <1>3 DEF StateFile

(* Every step of a start keeps the invariant. *)
LEMMA BootsDurable ==
  ASSUME ProtectionAssumption, TypeInv, Control, Settled, Durable, Boots
  PROVE  Control' /\ Settled' /\ Durable'
<1> USE DEF TypeInv, TypeOK, ReqOK, Maps, ProtectionAssumption, acornVars, reqVars, histVars,
            Reply, Goto, Enter, Control, Settled, Durable, DurableDown, DurableMem,
            DurableFile, DurableBolt, Mirrored, Unlocked
<1>1. ASSUME NEW s \in Sources, StartClean(s) PROVE Control' /\ Settled' /\ Durable'
  BY <1>1 DEF StartClean, Blame, ReadBack, Purged, ToRestore
<1>2. ASSUME NEW s \in Sources, StartPurging(s) PROVE Control' /\ Settled' /\ Durable'
  BY <1>2 DEF StartPurging, Blame, ReadBack, Purged
<1>3. ASSUME NEW s \in Sources, StartUnreadable(s) PROVE Control' /\ Settled' /\ Durable'
  BY <1>3 DEF StartUnreadable, Blame
<1>4. CASE WritePurged
  BY <1>4 DEF WritePurged, FillFile, FillFileFails, ToRestore
<1>5. ASSUME NEW p \in Paths, RestoreRecord(p) PROVE Control' /\ Settled' /\ Durable'
  BY <1>5 DEF RestoreRecord, Blame, ToRestore
<1>6. CASE Serve
  BY <1>6 DEF Serve
<1> QED BY <1>1, <1>2, <1>3, <1>4, <1>5, <1>6 DEF Boots

(* The invariant holds before the first start.                               *)
LEMMA InitDurable == ASSUME ProtectionAssumption PROVE Init => IInv
<1> SUFFICES ASSUME Init PROVE IInv
  OBVIOUS
<1>1. TypeInv
  BY InitType
<1>2. Control /\ Settled
  BY DEF Init, NoRequests, Control, Settled, ProtectionAssumption
<1>3. \A p \in Paths : held[p] = Nil
  BY DEF Init
<1>4. disk[path] # Torn
  <2>1. PICK L \in SUBSET Paths : disk = [s \in Sources |-> Legacy(L)]
    BY DEF Init
  <2>2. Legacy(L) \in [Paths -> Records \cup {Nil}]
    BY DEF Legacy, Records, ProtectionAssumption
  <2> QED BY <2>1, <2>2 DEF Init, ProtectionAssumption
<1>5. Durable
  BY <1>3, <1>4 DEF Init, NoRequests, Durable, DurableDown, DurableMem, DurableFile, DurableBolt
<1> QED BY <1>1, <1>2, <1>5 DEF IInv

(* A crash: what memory held is in the file, or a fault is to blame.          *)
LEMMA CrashDurable ==
  ASSUME ProtectionAssumption, TypeInv, Control, Settled, Durable, Crash
  PROVE  Control' /\ Settled' /\ Durable'
<1>1. Control' /\ Settled'
  BY DEF Crash, ForgetState, Control, Settled, TypeInv, TypeOK, ProtectionAssumption
<1>2. ASSUME fault' = "none" PROVE DurableDown'
  <2>1. fault = "none" /\ ~stale /\ Unlocked
    BY <1>2 DEF Crash, Blame
  <2>2. srv \in {"restoring", "up"}
    BY <2>1 DEF Crash, Control, Unlocked, TypeInv, TypeOK, ProtectionAssumption
  <2>3. disk[path] = mem /\ mem # Torn
    BY <2>1, <2>2 DEF Durable, DurableFile, TypeInv, TypeOK, Maps, ProtectionAssumption
  <2>4. \A p \in Paths : held[p] # Nil => mem[p] = held[p]
    BY <2>1, <2>2 DEF Durable, DurableMem
  <2> QED BY <2>3, <2>4 DEF DurableDown, Crash, ForgetState
<1>3. DurableMem' /\ DurableFile' /\ DurableBolt'
  BY DEF Crash, DurableMem, DurableFile, DurableBolt
<1> QED BY <1>1, <1>2, <1>3 DEF Durable

(* Every step keeps the invariant.                                           *)
LEMMA NextDurable == ASSUME ProtectionAssumption PROVE IInv /\ [Next]_vars => IInv'
<1> SUFFICES ASSUME IInv, [Next]_vars PROVE Control' /\ Settled' /\ Durable'
  BY NextType DEF IInv
<1>0. TypeInv /\ Control /\ Settled /\ Durable
  BY DEF IInv
<1>1. ASSUME NEW r \in Reqs, Protect(r) \/ Delete(r) \/ Patch(r) \/ StateFile(r)
      PROVE  Control' /\ Settled' /\ Durable'
  BY <1>0, <1>1, ProtectDurable, DeleteDurable, PatchDurable, StateFileDurable
<1>2. CASE \/ \E t \in Targets : RemoveMoved(t)
           \/ \E p \in Paths, c \in Contents : WriteFile(p, c)
           \/ Tick
           \/ UNCHANGED vars
  <2>1. /\ UNCHANGED <<acornVars, srv, todo, bolt, reqVars, histVars>>
    BY <1>2 DEF RemoveMoved, WriteFile, Tick, vars, acornVars, reqVars, histVars
  <2> QED BY <1>0, <2>1 DEF acornVars, reqVars, histVars, Control, Settled, Durable,
             DurableDown, DurableMem, DurableFile, DurableBolt, Mirrored, Unlocked, ToRestore
<1>3. CASE Crash
  BY <1>0, <1>3, CrashDurable
<1>4. CASE Boots
  BY <1>0, <1>4, BootsDurable
<1> QED BY <1>1, <1>2, <1>3, <1>4 DEF Next

(* The inductive invariant is an invariant.                                  *)
LEMMA Inductive == Spec => []IInv
<1>1. Init => IInv
  BY InitDurable, ProtectionAssumption
<1>2. IInv /\ [Next]_vars => IInv'
  BY NextDurable, ProtectionAssumption
<1> QED BY <1>1, <1>2, PTL DEF Spec

(* A protection the user was promised is in BoltDB whenever the server answers *)
(* requests, after any number of crashes and redeploys, until a fault costs    *)
(* the state file a record.                                                   *)
THEOREM PromiseKeptAlways == Spec => []PromiseKept
<1>1. IInv => PromiseKept
  BY DEF IInv, Durable, DurableBolt, Mirrored, PromiseKept
<1> QED BY <1>1, Inductive, PTL

(* BoltDB knows every path the state file knows, so a check of BoltDB alone    *)
(* misses no record of the file.                                              *)
THEOREM BoltCoversStateAlways == Spec => []BoltCoversState
<1>1. IInv => BoltCoversState
  BY DEF IInv, Durable, DurableBolt, Mirrored, BoltCoversState
<1> QED BY <1>1, Inductive, PTL

(* The state file is what memory holds whenever nobody is writing it and the   *)
(* last write succeeded.                                                      *)
THEOREM FileIsCurrentAlways == Spec => []FileIsCurrent
<1>1. IInv => FileIsCurrent
  BY DEF IInv, Durable, DurableFile, FileIsCurrent
<1> QED BY <1>1, Inductive, PTL

(* A request that enters a slot is a protect, a state-file save, or a delete    *)
(* or move whose guard has read BoltDB.                                        *)
LEMMA EntersChecked ==
  ASSUME ProtectionAssumption, IInv, [Next]_vars, NEW r \in Reqs, NEW p \in Paths,
         pc[r] = "idle", pc'[r] \in {"delete", "patch"}, tgt'[r] = p
  PROVE  srv = "up" /\ ~IsProtectionActive(p)
<1> USE DEF Goto, Reply, Enter
<1>0. /\ pc = [q \in Reqs |-> pc[q]] /\ tgt \in [Reqs -> Targets \cup {Nil}]
      /\ p \notin Dirs
  BY DEF IInv, TypeInv, TypeOK, ProtectionAssumption
<1>1. PICK q \in Reqs : Protect(q) \/ Delete(q) \/ Patch(q) \/ StateFile(q)
  BY <1>0 DEF Next, vars, reqVars, RemoveMoved, WriteFile, Tick, Crash, Boots, StartClean,
         StartPurging, StartUnreadable, WritePurged, RestoreRecord, Serve
<1>2. CASE Protect(q)
  BY <1>0, <1>2 DEF Protect, ProtectCheck, UploadFile, UploadFails, SaveRecord, SaveRecordFails,
              RecordState, RecordStateFails
<1>3. CASE StateFile(q)
  BY <1>0, <1>3 DEF StateFile, SaveSafeMode, WriteState, WriteStateFails, Answer
<1>4. CASE Delete(q)
  BY <1>0, <1>4 DEF Delete, DeleteCheck, DeleteFiles, RemoveState, RemoveStateFails
<1>5. CASE Patch(q)
  BY <1>0, <1>5 DEF Patch, PatchCheck, MoveRename, MoveCopy
<1> QED BY <1>1, <1>2, <1>3, <1>4, <1>5

(* While the user has been promised that a file is protected, no delete and no *)
(* move of that file is let in, however many redeploys lie in between.         *)
THEOREM RefusesRemovalAlways == Spec => RefusesRemoval
<1> DEFINE Refuses ==
      \A r \in Reqs, p \in Paths :
        pc[r] = "idle" /\ pc'[r] \in {"delete", "patch"} /\ tgt'[r] = p => ~Promised(p)
<1>1. IInv /\ [Next]_vars => [Refuses]_vars
  <2> SUFFICES ASSUME IInv, [Next]_vars, NEW r \in Reqs, NEW p \in Paths, Promised(p),
                      pc[r] = "idle", pc'[r] \in {"delete", "patch"}, tgt'[r] = p
               PROVE  FALSE
    OBVIOUS
  <2>1. srv = "up" /\ ~IsProtectionActive(p)
    BY EntersChecked, ProtectionAssumption
  <2>2. bolt[p] = held[p]
    BY <2>1 DEF IInv, Durable, DurableBolt, Mirrored, Promised
  <2> QED BY <2>1, <2>2 DEF IsProtectionActive, Promised, Unexpired
<1> QED BY <1>1, Inductive, PTL DEF Spec, RefusesRemoval

-------------------------------------------------------------------------------
(***************************************************************************)
(* GenuineRecords is inductive once a free slot is known to hold no record.  *)
(***************************************************************************)
SlotsClear == \A r \in Reqs : pc[r] = "idle" => rec[r] = Nil

GInv == GenuineRecords /\ SlotsClear

(* What ChainFS has stored stays stored.                                     *)
ChainGrows == \A g \in Guids : chain[g] # Nil => chain'[g] = chain[g]

(* Records that do not move stay genuine while ChainFS stores more.           *)
LEMMA StillGenuine ==
  ASSUME ChainGrows, GenuineRecords, UNCHANGED <<mem, disk, bolt>>
  PROVE  /\ \A p \in Paths : Genuine(p, bolt[p])' /\ Genuine(p, mem[p])'
         /\ \A p \in Paths, s \in Sources : disk'[s] # Torn => Genuine(p, disk[s][p])'
         /\ \A r \in Reqs : rec'[r] = rec[r] /\ tgt'[r] = tgt[r] /\ rec'[r] # Nil =>
              Genuine(tgt[r], rec[r])'
<1> USE DEF ChainGrows, Genuine
<1>1. ASSUME NEW p \in Paths PROVE Genuine(p, bolt[p])' /\ Genuine(p, mem[p])'
  BY DEF GenuineRecords
<1>2. ASSUME NEW p \in Paths, NEW s \in Sources, disk'[s] # Torn PROVE Genuine(p, disk[s][p])'
  BY <1>2 DEF GenuineRecords
<1>3. ASSUME NEW r \in Reqs, rec'[r] = rec[r], tgt'[r] = tgt[r], rec'[r] # Nil
      PROVE  Genuine(tgt[r], rec[r])'
  BY <1>3 DEF GenuineRecords
<1> QED BY <1>1, <1>2, <1>3

(* An upload makes one new record genuine and disturbs no other.               *)
LEMMA UploadGenuine ==
  ASSUME ProtectionAssumption, TypeInv, GInv, NEW r \in Reqs, UploadFile(r)
  PROVE  GInv'
<1>1. ChainGrows
  BY DEF UploadFile, ChainGrows
<1>2. UNCHANGED <<mem, disk, bolt>>
  BY DEF UploadFile, acornVars
<1>3. SlotsClear'
  BY DEF GInv, SlotsClear, UploadFile, TypeInv, TypeOK
<1>4. ASSUME NEW q \in Reqs, rec'[q] # Nil PROVE Genuine(tgt[q], rec[q])'
  <2>1. CASE q = r
    <3>1. PICK g \in Guids :
            /\ chain' = [chain EXCEPT ![g] = [path |-> tgt[r], content |-> fs[tgt[r]]]]
            /\ rec' = [rec EXCEPT ![r] = [guid |-> g, expiry |-> 0]]
      BY DEF UploadFile
    <3>2. rec'[r].guid = g
      BY <3>1 DEF TypeInv, TypeOK
    <3>3. chain'[g] = [path |-> tgt[r], content |-> fs[tgt[r]]]
      BY <3>1 DEF TypeInv, TypeOK
    <3>4. tgt[r] \in Paths /\ fs[tgt[r]] \in Contents
      BY DEF UploadFile, TypeInv, TypeOK, ReqOK, Maps
    <3>5. chain'[g] # Nil /\ chain'[g].path = tgt[r]
      BY <3>3, <3>4 DEF Stored, ProtectionAssumption
    <3>6. tgt' = tgt
      BY DEF UploadFile
    <3> QED BY <2>1, <3>2, <3>5, <3>6 DEF Genuine
  <2>2. CASE q # r
    <3>1. rec'[q] = rec[q] /\ tgt'[q] = tgt[q]
      BY <2>2 DEF UploadFile, TypeInv, TypeOK
    <3> QED BY <1>1, <1>2, <1>4, <3>1, StillGenuine DEF GInv
  <2> QED BY <2>1, <2>2
<1> QED BY <1>1, <1>2, <1>3, <1>4, StillGenuine DEF GInv, GenuineRecords

(* An upload whose answer is lost leaves a file on ChainFS and no record.      *)
LEMMA LostUploadGenuine ==
  ASSUME ProtectionAssumption, TypeInv, GInv, NEW r \in Reqs, UploadFails(r)
  PROVE  GInv'
<1>1. ChainGrows
  BY DEF UploadFails, ChainGrows, TypeInv, TypeOK
<1>2. UNCHANGED <<mem, disk, bolt>>
  BY DEF UploadFails, acornVars
<1>3. SlotsClear'
  BY DEF GInv, SlotsClear, UploadFails, Reply, TypeInv, TypeOK
<1>4. ASSUME NEW q \in Reqs, rec'[q] # Nil PROVE Genuine(tgt[q], rec[q])'
  <2>1. rec'[q] = rec[q] /\ tgt'[q] = tgt[q]
    BY <1>4 DEF UploadFails, Reply, TypeInv, TypeOK
  <2> QED BY <1>1, <1>2, <1>4, <2>1, StillGenuine DEF GInv
<1> QED BY <1>1, <1>2, <1>3, <1>4, StillGenuine DEF GInv, GenuineRecords

(* Every step of a protect keeps the records genuine. *)
LEMMA ProtectGenuine ==
  ASSUME ProtectionAssumption, TypeInv, GInv, NEW r \in Reqs, Protect(r)
  PROVE  GInv'
<1>1. ASSUME UploadFile(r) \/ UploadFails(r) PROVE GInv'
  BY <1>1, UploadGenuine, LostUploadGenuine
<1> USE DEF TypeInv, TypeOK, ReqOK, Maps, ProtectionAssumption, acornVars, reqVars, histVars,
            Reply, Goto, Enter, GInv, GenuineRecords, Genuine, SlotsClear
<1>2. ASSUME NEW p \in Paths, ProtectCheck(r, p) PROVE GInv'
  BY <1>2 DEF ProtectCheck
<1>4. CASE SaveRecord(r)
  BY <1>4 DEF SaveRecord, Records
<1>5. CASE SaveRecordFails(r)
  BY <1>5 DEF SaveRecordFails
<1>6. CASE RecordState(r)
  BY <1>6 DEF RecordState, OpenFile
<1>7. CASE RecordStateFails(r)
  BY <1>7 DEF RecordStateFails, OpenFileFails
<1> QED BY <1>1, <1>2, <1>4, <1>5, <1>6, <1>7 DEF Protect

(* Every step of a delete keeps the records genuine. *)
LEMMA DeleteGenuine ==
  ASSUME ProtectionAssumption, TypeInv, GInv, NEW r \in Reqs, Delete(r)
  PROVE  GInv'
<1> USE DEF TypeInv, TypeOK, ReqOK, Maps, ProtectionAssumption, acornVars, reqVars, histVars,
            Reply, Goto, Enter, GInv, GenuineRecords, Genuine, SlotsClear
<1>1. ASSUME NEW t \in Paths \cup DirTargets, DeleteCheck(r, t) PROVE GInv'
  BY <1>1 DEF DeleteCheck
<1>2. CASE DeleteFiles(r)
  <2>1. UNCHANGED <<acornVars, bolt, chain>>
    BY <1>2 DEF DeleteFiles
  <2>2. \A q \in Reqs : /\ rec'[q] # Nil => rec'[q] = rec[q] /\ tgt'[q] = tgt[q]
                        /\ pc'[q] = "idle" => rec'[q] = Nil
    BY <1>2 DEF DeleteFiles
  <2> QED BY <2>1, <2>2
<1>3. CASE RemoveState(r)
  BY <1>3 DEF RemoveState, OpenFile, Without
<1>4. CASE RemoveStateFails(r)
  BY <1>4 DEF RemoveStateFails, OpenFileFails, Without
<1> QED BY <1>1, <1>2, <1>3, <1>4 DEF Delete

(* Every step of a move or a copy keeps the records genuine. *)
LEMMA PatchGenuine ==
  ASSUME ProtectionAssumption, TypeInv, GInv, NEW r \in Reqs, Patch(r)
  PROVE  GInv'
<1> USE DEF TypeInv, TypeOK, ReqOK, Maps, ProtectionAssumption, acornVars, reqVars, histVars,
            Reply, Goto, Enter, GInv, GenuineRecords, Genuine, SlotsClear
<1>1. ASSUME NEW t \in Paths \cup DirTargets, NEW u \in Targets, PatchCheck(r, t, u) PROVE GInv'
  BY <1>1 DEF PatchCheck
<1>2. CASE MoveRename(r)
  BY <1>2 DEF MoveRename
<1>3. CASE MoveCopy(r)
  BY <1>3 DEF MoveCopy
<1> QED BY <1>1, <1>2, <1>3 DEF Patch

(* Every rewrite of the state file keeps the records genuine. *)
LEMMA StateFileGenuine ==
  ASSUME ProtectionAssumption, TypeInv, GInv, NEW r \in Reqs, StateFile(r)
  PROVE  GInv'
<1> USE DEF TypeInv, TypeOK, ReqOK, Maps, ProtectionAssumption, acornVars, reqVars, histVars,
            Reply, Goto, Enter, GInv, GenuineRecords, Genuine, SlotsClear
<1>1. CASE SaveSafeMode(r)
  BY <1>1 DEF SaveSafeMode, OpenFile
<1>2. CASE WriteState(r)
  BY <1>2 DEF WriteState, FillFile, Answer
<1>3. CASE WriteStateFails(r)
  BY <1>3 DEF WriteStateFails, FillFileFails, Answer
<1> QED BY <1>1, <1>2, <1>3 DEF StateFile

(* Every step of a start keeps the records genuine. *)
LEMMA BootsGenuine ==
  ASSUME ProtectionAssumption, TypeInv, GInv, Boots
  PROVE  GInv'
<1> USE DEF TypeInv, TypeOK, ReqOK, Maps, ProtectionAssumption, acornVars, reqVars, histVars,
            Reply, Goto, Enter, GInv, GenuineRecords, Genuine, SlotsClear
<1>1. ASSUME NEW s \in Sources, StartClean(s) PROVE GInv'
  BY <1>1 DEF StartClean, ReadBack, Empty
<1>2. ASSUME NEW s \in Sources, StartPurging(s) PROVE GInv'
  BY <1>2 DEF StartPurging, ReadBack, Empty, Purged
<1>3. ASSUME NEW s \in Sources, StartUnreadable(s) PROVE GInv'
  BY <1>3 DEF StartUnreadable, Empty
<1>4. CASE WritePurged
  BY <1>4 DEF WritePurged, FillFile, FillFileFails
<1>5. ASSUME NEW p \in Paths, RestoreRecord(p) PROVE GInv'
  BY <1>5 DEF RestoreRecord
<1>6. CASE Serve
  BY <1>6 DEF Serve
<1> QED BY <1>1, <1>2, <1>3, <1>4, <1>5, <1>6 DEF Boots

(* A record of a path names a file ChainFS stored for that very path, in every  *)
(* place a record can be: uploads that fail, crash or lose their answer leave   *)
(* no record behind, and a restart brings back none of another path.           *)
THEOREM GenuineRecordsAlways == Spec => []GenuineRecords
<1>1. Init => TypeInv /\ GInv
  <2> SUFFICES ASSUME Init PROVE GInv
    BY InitType, ProtectionAssumption
  <2>1. PICK L \in SUBSET Paths : bolt = Legacy(L) /\ disk = [s \in Sources |-> Legacy(L)]
    BY DEF Init
  <2>2. \A p \in Paths : Genuine(p, Legacy(L)[p])
    BY ProtectionAssumption DEF Genuine, Legacy, ProtectionAssumption
  <2>3. \A p \in Paths : Genuine(p, Empty[p])
    BY ProtectionAssumption DEF Genuine, Empty, ProtectionAssumption
  <2> QED BY <2>1, <2>2, <2>3 DEF Init, NoRequests, GInv, GenuineRecords, SlotsClear
<1>2. (TypeInv /\ GInv) /\ [Next]_vars => (TypeInv /\ GInv)'
  <2> SUFFICES ASSUME TypeInv, GInv, [Next]_vars PROVE GInv'
    BY NextType, ProtectionAssumption
  <2>1. ASSUME NEW r \in Reqs, Protect(r) \/ Delete(r) \/ Patch(r) \/ StateFile(r) PROVE GInv'
    BY <2>1, ProtectionAssumption, ProtectGenuine, DeleteGenuine, PatchGenuine, StateFileGenuine
  <2>2. CASE \/ \E t \in Targets : RemoveMoved(t)
             \/ \E p \in Paths, c \in Contents : WriteFile(p, c)
             \/ Tick
             \/ UNCHANGED vars
    <3>1. UNCHANGED <<acornVars, bolt, chain, reqVars>>
      BY <2>2 DEF RemoveMoved, WriteFile, Tick, vars, acornVars, reqVars
    <3> QED BY <3>1 DEF acornVars, reqVars, GInv, GenuineRecords, Genuine, SlotsClear
  <2>3. CASE Crash
    BY <2>3, ProtectionAssumption DEF Crash, ForgetState, Empty, GInv, GenuineRecords, Genuine,
       SlotsClear, TypeInv, TypeOK, ProtectionAssumption
  <2>4. CASE Boots
    BY <2>4, ProtectionAssumption, BootsGenuine
  <2> QED BY <2>1, <2>2, <2>3, <2>4 DEF Next
<1> QED BY <1>1, <1>2, PTL DEF Spec, GInv

-------------------------------------------------------------------------------
(* Indexing.  The invariant.                                                   *)

Indexed == X!Directories \ Excluded
Lengths == Sizes \cup {0}
Listings == [file : Lengths, folders : SUBSET Indexed]
Entries == [file : Lengths, folders : SUBSET Indexed, size : Int, cur : BOOLEAN,
            lost : {"no", "late", "back"}]
Frames == [dir : Indexed, cur : BOOLEAN, pc : {"read", "list", "skip"},
           list : Listings \cup {Nil}, todo : SUBSET Indexed]
Removals == [dir : X!Directories, file : BOOLEAN]
Refreshes == [dir : X!Directories, rec : BOOLEAN, drop : BOOLEAN]
Jobs == [pc : {"idle", "unlist", "refresh", "index", "grow", "put"}, unlist : Removals \cup {Nil},
         left : SUBSET Refreshes, dir : X!Directories, rec : BOOLEAN, prev : Int, delta : Int]
ScanRecs == [pc : {"off", "want", "asleep", "scan", "adopt", "loop"}, count : Nat,
             stopped : BOOLEAN, seen : SUBSET X!Directories]

IndexTypes ==
  /\ tree \in [X!Directories -> Lengths \cup {Nil}] /\ X!There(Root)
  /\ idx \in [X!Directories -> Entries \cup {Nil}]
  /\ \A d \in Excluded : idx[d] = Nil
  /\ frames \in [X!Procs -> Seq(Frames)]
  /\ job \in [Workers -> Jobs]
  /\ \E c \in Casts : plan = c.plan

\* One scanner at a time, and the index knows no scanner of another directory.
ScanOK ==
  /\ sc \in [X!Scanners -> ScanRecs]
  /\ reg \in [Tops -> (Tops \X Copies) \cup {Nil}]
  /\ \A t \in Tops : reg[t] = Nil \/ reg[t] \in {t} \X Copies
  /\ \A i \in X!Scanners : sc[i].pc \in {"scan", "adopt"} <=> scanning = i

\* What is listed is what is there.
Matches(l, d) == (l.file # 0) = (tree[d] # 0) /\ l.folders = X!Inside(d) \ Excluded

\* What has been read of a directory that has not changed since is what is there.
FrameOK(f) ==
  f.pc = "list" =>
    /\ f.list \in Listings /\ f.todo \subseteq f.list.folders
    /\ f.cur /\ X!There(f.dir) => Matches(f.list, f.dir)
FramesTell == \A p \in X!Procs : \A n \in 1 .. Len(frames[p]) : FrameOK(frames[p][n])

\* A request that took something out of the index has still to look at the directory
\* it was in; and it does not skip one.
JobOK(w) ==
  /\ job[w].pc = "unlist" =>
       LET u == job[w].unlist IN
       /\ u \in Removals /\ (u.file \/ u.dir # Root)
       /\ \E r \in job[w].left : r.dir = IF u.file THEN u.dir ELSE Parent[u.dir]
  /\ frames[w] # << >> =>
       /\ job[w].pc = "index" /\ frames[w][Len(frames[w])].dir = job[w].dir
       /\ \A n \in 1 .. Len(frames[w]) : frames[w][n].pc # "skip"
JobsTell == \A w \in Workers : JobOK(w)

\* A request has yet to read a directory, or to store what it has read of it.
Unsettled(w, d) ==
  /\ job[w].pc # "idle"
  /\ \/ job[w].pc = "index" /\ frames[w] # << >> /\ job[w].dir = d
     \/ \E r \in job[w].left : r.dir = d

\* An entry that counts as current is right.  Where a removal has taken out what is there
\* again, a request is still at work on the directory, or the entry has been put back.
EntryOK(d) ==
  (idx[d] # Nil /\ idx[d].cur /\ X!There(d) /\ idx[d].lost # "back"
     /\ (idx[d].lost = "late" => \A w \in Workers : ~Unsettled(w, d))) =>
    Matches(idx[d], d)
EntriesTell == \A d \in X!Directories : EntryOK(d)

\* An entry from which nothing was taken that is there: it may be put back.
Right(e, d) == e.cur /\ X!There(d) /\ e.lost = "no" => Matches(e, d)

\* Who updates the sizes has a pointer to the entry in the index, or to one that was.
HeldOK(w) ==
  IF job[w].pc = "put"
  THEN /\ job[w].dir # Root /\ X!Above(w) \notin Excluded
       /\ IF old[w] = Nil THEN idx[X!Above(w)] # Nil ELSE Right(old[w], X!Above(w))
  ELSE old[w] = Nil
HeldTell == old \in [Workers -> Entries \cup {Nil}] /\ \A w \in Workers : HeldOK(w)

XInv == IndexTypes /\ ScanOK /\ FramesTell /\ JobsTell /\ EntriesTell /\ HeldTell

(* The invariant says what the index tells.                                      *)
LEMMA IndexIs == XInv => X!IndexTyped /\ X!TimeTells /\ X!ExcludedOut
<1> SUFFICES ASSUME XInv PROVE X!IndexTyped /\ X!TimeTells /\ X!ExcludedOut OBVIOUS
<1>1. X!IndexTyped
  <2>1. tree \in [X!Directories -> Sizes \cup {0, Nil}]
    <3>1. Lengths \cup {Nil} = Sizes \cup {0, Nil} BY DEF Lengths
    <3> QED BY <3>1 DEF XInv, IndexTypes
  <2>2. \A e \in {idx[d] : d \in X!Directories} \cup {old[w] : w \in Workers} : e # Nil =>
          /\ e.file \in Sizes \cup {0} /\ e.folders \subseteq X!Directories \ Excluded
          /\ e.size \in Int /\ e.cur \in BOOLEAN /\ e.lost \in {"no", "late", "back"}
    <3>1. \A e \in {idx[d] : d \in X!Directories} \cup {old[w] : w \in Workers} : e # Nil => e \in Entries
      BY DEF XInv, IndexTypes, HeldTell
    <3> QED BY <3>1 DEF Entries, Lengths, Indexed
  <2>3. \A t \in Tops : reg[t] = Nil \/ reg[t] \in {t} \X Copies BY DEF XInv, ScanOK
  <2>4. \A i \in X!Scanners : sc[i].pc \in {"scan", "adopt"} <=> scanning = i
    BY DEF XInv, ScanOK
  <2> QED BY <2>1, <2>2, <2>3, <2>4 DEF X!IndexTyped
<1>2. X!TimeTells
  <2> SUFFICES ASSUME NEW d \in X!Directories, idx[d] # Nil, idx[d].cur, X!There(d),
                      idx[d].lost = "late" => ~X!Pending(d), idx[d].lost # "back"
               PROVE  Matches(idx[d], d)
    BY DEF X!TimeTells, Matches
  <2>1. ~X!Pending(d) => \A w \in Workers : ~Unsettled(w, d) BY DEF X!Pending, Unsettled
  <2> QED BY <2>1 DEF XInv, EntriesTell, EntryOK
<1>3. X!ExcludedOut BY DEF XInv, IndexTypes, X!ExcludedOut
<1> QED BY <1>1, <1>2, <1>3

-------------------------------------------------------------------------------
(* Sums.                                                                       *)

(* The sizes of directories add up to an integer.                                 *)
LEMMA SizesAdd ==
  ASSUME IndexTypes, NEW S \in SUBSET X!Directories
  PROVE  X!MapThenSumSet(X!SizeOf, S) \in Int
<1>1. IsFiniteSet(S)
  <2>1. IsFiniteSet(X!Directories)
    BY SettlesAssumption DEF X!IndexingAssumption, X!IsFiniteSet, IsFiniteSet
  <2> QED BY <2>1, FS_Subset
<1>2. \A d \in S : X!SizeOf(d) \in Int
  <2>1. \A d \in X!Directories : idx[d] # Nil => idx[d].size \in Int BY DEF IndexTypes, Entries
  <2> QED BY <2>1 DEF X!SizeOf
<1>3. PICK f \in [S -> Int] : \A d \in S : f[d] = X!SizeOf(d)
  <2>1. [d \in S |-> X!SizeOf(d)] \in [S -> Int] BY <1>2
  <2> QED BY <2>1
<1>4. \A s \in SUBSET S : s # {} => Some(s) \in S BY DEF Some
<1>5. \A g : [s \in SUBSET S |-> IF s = {} THEN 0 ELSE X!SizeOf(Some(s)) + g[s \ {Some(s)}]]
              = [s \in SUBSET S |-> IF s = {} THEN 0 ELSE f[Some(s)] + g[s \ {Some(s)}]]
  BY <1>3, <1>4
<1>6. PICK h : h \in [SUBSET S -> Int] /\ Adds(h, f, S) BY <1>1, AdderExists
<1>7. h = [s \in SUBSET S |-> IF s = {} THEN 0 ELSE X!SizeOf(Some(s)) + h[s \ {Some(s)}]]
  BY <1>5, <1>6 DEF Adds
<1>8. PICK g : /\ g = [s \in SUBSET S |->
                         IF s = {} THEN 0 ELSE X!SizeOf(Some(s)) + g[s \ {Some(s)}]]
               /\ X!MapThenSumSet(X!SizeOf, S) = g[S]
  BY <1>7 DEF X!MapThenSumSet, X!MapThenFoldSet, Some
<1>9. Adds(g, f, S)
  <2>1. \A s \in SUBSET S : g[s] = IF s = {} THEN 0 ELSE X!SizeOf(Some(s)) + g[s \ {Some(s)}]
    BY <1>8
  <2> QED BY <2>1, <1>3, <1>4 DEF Adds
<1> QED BY <1>1, <1>8, <1>9, TotalAdds

-------------------------------------------------------------------------------
(* Calls.  What a step does to a goroutine's calls of indexDirectory.             *)

(* The innermost call has changed.                                             *)
LEMMA Replaces ==
  ASSUME NEW F, NEW s \in Seq(F), s # << >>, NEW a \in F
  PROVE  /\ <<a>> \o Tail(s) \in Seq(F) /\ Len(<<a>> \o Tail(s)) = Len(s) /\ Len(s) \in Nat \ {0}
         /\ (<<a>> \o Tail(s))[1] = a
         /\ \A n \in 2 .. Len(s) : (<<a>> \o Tail(s))[n] = s[n]
<1>1. Tail(s) \in Seq(F) /\ Len(Tail(s)) = Len(s) - 1 /\ Len(s) \in Nat \ {0} OBVIOUS
<1>2. <<a>> \in Seq(F) /\ Len(<<a>>) = 1 OBVIOUS
<1>3. \A n \in 1 .. Len(s) - 1 : Tail(s)[n] = s[n + 1] OBVIOUS
<1>4. <<a>> \o Tail(s) \in Seq(F) /\ Len(<<a>> \o Tail(s)) = Len(s) BY <1>1, <1>2
<1> QED BY <1>1, <1>2, <1>3, <1>4

(* A call within it has begun.                                                 *)
LEMMA Pushes ==
  ASSUME NEW F, NEW s \in Seq(F), s # << >>, NEW a \in F, NEW b \in F
  PROVE  /\ <<a, b>> \o Tail(s) \in Seq(F) /\ Len(<<a, b>> \o Tail(s)) = Len(s) + 1
         /\ Len(s) \in Nat \ {0}
         /\ (<<a, b>> \o Tail(s))[1] = a /\ (<<a, b>> \o Tail(s))[2] = b
         /\ \A n \in 3 .. Len(s) + 1 : (<<a, b>> \o Tail(s))[n] = s[n - 1]
<1>1. Tail(s) \in Seq(F) /\ Len(Tail(s)) = Len(s) - 1 /\ Len(s) \in Nat \ {0} OBVIOUS
<1>2. <<a, b>> \in Seq(F) /\ Len(<<a, b>>) = 2 OBVIOUS
<1>3. \A n \in 1 .. Len(s) - 1 : Tail(s)[n] = s[n + 1] OBVIOUS
<1>4. <<a, b>> \o Tail(s) \in Seq(F) /\ Len(<<a, b>> \o Tail(s)) = Len(s) + 1 BY <1>1, <1>2
<1> QED BY <1>1, <1>2, <1>3, <1>4

(* The innermost call is over.                                                 *)
LEMMA Pops ==
  ASSUME NEW F, NEW s \in Seq(F), s # << >>
  PROVE  /\ Tail(s) \in Seq(F) /\ Len(Tail(s)) = Len(s) - 1 /\ Len(s) \in Nat \ {0}
         /\ \A n \in 1 .. Len(s) - 1 : Tail(s)[n] = s[n + 1]
         /\ Tail(s) = << >> <=> Len(s) = 1
<1>1. Tail(s) \in Seq(F) /\ Len(Tail(s)) = Len(s) - 1 /\ Len(s) \in Nat \ {0} OBVIOUS
<1>2. \A n \in 1 .. Len(s) - 1 : Tail(s)[n] = s[n + 1] OBVIOUS
<1>3. \A q \in Seq(F) : q = << >> <=> Len(q) = 0 OBVIOUS
<1>4. Tail(s) = << >> <=> Len(s) - 1 = 0 BY <1>1, <1>3
<1> QED BY <1>1, <1>2, <1>4

(* The assumptions, one by one.                                                 *)
LEMMA Given ==
  /\ Root \in X!Directories /\ DOMAIN Parent \subseteq X!Directories /\ X!Directories = {Root} \cup DOMAIN Parent
  /\ Root \notin DOMAIN Parent /\ Root \notin Excluded /\ Root \notin Tops
  /\ \A d \in DOMAIN Parent : Parent[d] \in X!Directories
  /\ Tops \subseteq X!Directories /\ Excluded \subseteq X!Directories
  /\ \A w \in Workers : w \in X!Procs /\ w \notin X!Scanners
  /\ \A i \in X!Scanners : i \in X!Procs /\ i[1] \in Indexed
  /\ Nil \notin X!Procs /\ Nil \notin X!Directories /\ Nil \notin Lengths
  /\ Nil \notin Removals /\ Nil \notin Listings /\ Nil \notin Entries
  /\ 0 \notin Sizes /\ Sizes \subseteq Nat
<1> USE SettlesAssumption DEF X!IndexingAssumption
<1>1. /\ Root \in X!Directories /\ DOMAIN Parent \subseteq X!Directories /\ X!Directories = {Root} \cup DOMAIN Parent
      /\ Root \notin DOMAIN Parent /\ Root \notin Excluded /\ Root \notin Tops
      /\ \A d \in DOMAIN Parent : Parent[d] \in X!Directories
      /\ Tops \subseteq X!Directories /\ Excluded \subseteq X!Directories
  BY DEF X!Directories
<1>2. \A w \in Workers : w \in X!Procs /\ w \notin X!Scanners BY DEF X!Procs
<1>3. ASSUME NEW i \in X!Scanners PROVE i \in X!Procs /\ i[1] \in Indexed
  BY <1>1 DEF X!Procs, X!Scanners, Indexed
<1>4. Nil \notin X!Procs /\ Nil \notin X!Directories /\ Nil \notin Lengths BY DEF Lengths
<1>5. Nil \notin Removals BY DEF Removals
<1>6. Nil \notin Listings
  <2>1. Listings \subseteq [file : Sizes \cup {0}, folders : SUBSET X!Directories]
    BY DEF Listings, Lengths, Indexed
  <2> QED BY <2>1
<1>7. Nil \notin Entries
  <2>1. Entries \subseteq [file : Sizes \cup {0}, folders : SUBSET X!Directories, size : Int, cur : BOOLEAN,
                           lost : {"no", "late", "back"}]
    BY DEF Entries, Lengths, Indexed
  <2> QED BY <2>1
<1>8. 0 \notin Sizes /\ Sizes \subseteq Nat OBVIOUS
<1> QED BY <1>1, <1>2, <1>3, <1>4, <1>5, <1>6, <1>7, <1>8

-------------------------------------------------------------------------------
(* Changes to the files.                                                       *)

\* Where the modification time stays, what is listed stays.
Keeps(new, touched) ==
  /\ new \in [X!Directories -> Lengths \cup {Nil}] /\ new[Root] # Nil
  /\ \A d \in X!Directories \ touched : new[d] # Nil =>
       /\ X!There(d) /\ (new[d] # 0) = (tree[d] # 0)
       /\ \A e \in DOMAIN Parent : Parent[e] = d => (new[e] # Nil <=> X!There(e))

\* What a request then owes the index.
Job(w, job2) ==
  \/ w = Nil /\ job2 = job
  \/ /\ w \in Workers /\ job[w].pc = "idle"
     /\ \E unlist \in Removals \cup {Nil}, left \in SUBSET Refreshes :
          /\ job2 = [job EXCEPT ![w] = [X!Idle EXCEPT !.pc = IF unlist = Nil THEN "refresh" ELSE "unlist",
                                                      !.unlist = unlist, !.left = left]]
          /\ unlist # Nil =>
               /\ unlist.file \/ unlist.dir # Root
               /\ \E r \in left : r.dir = IF unlist.file THEN unlist.dir ELSE Parent[unlist.dir]

Changed(w) ==
  \E new, touched : X!Becomes(new, touched) /\ Keeps(new, touched) /\ Job(w, job')

(* What the plan has is a change to a directory.                                   *)
LEMMA PlanIs ==
  ASSUME IndexTypes, NEW c \in plan
  PROVE  /\ c.dir \in X!Directories /\ c.to \in X!Directories
         /\ c.op \in {"mkdir", "rmdir"} => c.dir # Root
         /\ c.op = "mvdir" => c.dir # Root /\ c.to # Root
BY SettlesAssumption DEF IndexTypes, X!IndexingAssumption

(* What a request is owed it gets.                                               *)
LEMMA OwesIs ==
  ASSUME NEW w \in Workers \cup {Nil}, w # Nil => job[w].pc = "idle",
         NEW unlist \in Removals \cup {Nil}, NEW left \in SUBSET Refreshes,
         unlist # Nil => /\ unlist.file \/ unlist.dir # Root
                         /\ \E r \in left : r.dir = IF unlist.file THEN unlist.dir ELSE Parent[unlist.dir],
         X!Owes(w, unlist, left)
  PROVE  Job(w, job')
BY DEF X!Owes, Job

(* A refresh is of a directory.                                                  *)
LEMMA RefreshesAre ==
  \A d \in X!Directories, deep \in BOOLEAN : X!Plain(d) \in Refreshes /\ X!Dropping(d, deep) \in Refreshes
BY DEF X!Plain, X!Dropping, Refreshes

(* A change of one directory's file.                                             *)
LEMMA OneKeeps ==
  ASSUME IndexTypes, NEW d \in X!Directories, X!There(d), NEW n \in Lengths, NEW touched,
         (n # 0) = (tree[d] # 0) \/ d \in touched
  PROVE  Keeps([tree EXCEPT ![d] = n], touched)
<1> DEFINE new == [tree EXCEPT ![d] = n]
<1>1. n # Nil /\ tree \in [X!Directories -> Lengths \cup {Nil}] /\ tree[Root] # Nil
  BY Given DEF IndexTypes, X!There
<1>2. new \in [X!Directories -> Lengths \cup {Nil}] /\ new[d] = n /\ \A e \in X!Directories \ {d} : new[e] = tree[e]
  BY <1>1
<1>3. \A e \in X!Directories : new[e] # Nil <=> X!There(e) BY <1>1, <1>2 DEF X!There
<1> HIDE DEF new
<1>4. new[Root] # Nil BY <1>1, <1>3, Given DEF X!There
<1>5. \A e \in X!Directories \ touched : (new[e] # 0) = (tree[e] # 0) BY <1>2
<1>6. \A e \in DOMAIN Parent : new[e] # Nil <=> X!There(e) BY <1>3, Given
<1>7. Keeps(new, touched) BY <1>2, <1>3, <1>4, <1>5, <1>6 DEF Keeps
<1> QED BY <1>7 DEF new

(* Where a directory appears or is gone, it and the one above it have changed.        *)
LEMMA DirKeeps ==
  ASSUME IndexTypes, NEW d \in X!Directories \ {Root}, NEW n \in Lengths \cup {Nil}, NEW touched,
         d \in touched, Parent[d] \in touched
  PROVE  Keeps([tree EXCEPT ![d] = n], touched)
<1> DEFINE new == [tree EXCEPT ![d] = n]
<1>1. tree \in [X!Directories -> Lengths \cup {Nil}] /\ tree[Root] # Nil
  BY DEF IndexTypes, X!There
<1>2. new \in [X!Directories -> Lengths \cup {Nil}] /\ \A e \in X!Directories \ {d} : new[e] = tree[e]
  BY <1>1
<1> HIDE DEF new
<1>3. new[Root] # Nil BY <1>1, <1>2, Given
<1>4. ASSUME NEW e \in X!Directories \ touched, new[e] # Nil
      PROVE  /\ X!There(e) /\ (new[e] # 0) = (tree[e] # 0)
             /\ \A b \in DOMAIN Parent : Parent[b] = e => (new[b] # Nil <=> X!There(b))
  <2>1. new[e] = tree[e] BY <1>2, <1>4
  <2>2. ASSUME NEW b \in DOMAIN Parent, Parent[b] = e PROVE new[b] = tree[b]
    BY <1>2, <1>4, <2>2, Given
  <2> QED BY <1>4, <2>1, <2>2 DEF X!There
<1>5. Keeps(new, touched) BY <1>2, <1>3, <1>4 DEF Keeps
<1> QED BY <1>5 DEF new

(* WriteFile.                                                                   *)
LEMMA WriteIs ==
  ASSUME IndexTypes, NEW c \in plan, NEW w \in Workers \cup {Nil}, w # Nil => job[w].pc = "idle",
         X!Write(c, w)
  PROVE  Changed(w)
<1> DEFINE d == c.dir
<1>1. d \in X!Directories BY PlanIs
<1>2. PICK size \in Sizes :
        X!Becomes([tree EXCEPT ![d] = size],
                  IF X!There(d) THEN IF tree[d] = 0 THEN {d} ELSE {} ELSE {d, Parent[d]})
  BY DEF X!Write
<1> DEFINE touched == IF X!There(d) THEN IF tree[d] = 0 THEN {d} ELSE {} ELSE {d, Parent[d]}
<1>3. size # 0 /\ size \in Lengths BY Given DEF Lengths
<1>4. Keeps([tree EXCEPT ![d] = size], touched)
  <2>1. CASE X!There(d)
    <3>1. (size # 0) = (tree[d] # 0) \/ d \in touched BY <2>1, <1>3
    <3> QED BY <1>1, <1>3, <2>1, <3>1, OneKeeps
  <2>2. CASE ~X!There(d)
    <3>1. d # Root BY <2>2 DEF IndexTypes
    <3> QED BY <1>1, <1>3, <2>2, <3>1, DirKeeps
  <2> QED BY <2>1, <2>2
<1>5. Job(w, job')
  <2>1. X!Owes(w, Nil, {X!Plain(d)}) BY DEF X!Write
  <2> QED BY <1>1, <2>1, OwesIs, RefreshesAre
<1> QED BY <1>2, <1>4, <1>5 DEF Changed

(* WriteDirectory.                                                               *)
LEMMA MakeDirIs ==
  ASSUME IndexTypes, NEW c \in plan, NEW w \in Workers \cup {Nil}, w # Nil => job[w].pc = "idle",
         X!MakeDir(c, w)
  PROVE  Changed(w)
<1>1. c.dir \in X!Directories \ {Root} BY PlanIs DEF X!MakeDir
<1>2. X!Becomes([tree EXCEPT ![c.dir] = 0], {c.dir, Parent[c.dir]})
  BY DEF X!MakeDir
<1>3. Keeps([tree EXCEPT ![c.dir] = 0], {c.dir, Parent[c.dir]}) BY <1>1, DirKeeps DEF Lengths
<1>4. Job(w, job')
  <2>1. X!Owes(w, Nil, {X!Dropping(c.dir, TRUE)}) BY DEF X!MakeDir
  <2> QED BY <1>1, <2>1, OwesIs, RefreshesAre
<1> QED BY <1>2, <1>3, <1>4 DEF Changed

(* DeleteFiles of a file.                                                        *)
LEMMA RemoveFileIs ==
  ASSUME IndexTypes, NEW c \in plan, NEW w \in Workers \cup {Nil}, w # Nil => job[w].pc = "idle",
         X!RemoveFile(c, w)
  PROVE  Changed(w)
<1>1. c.dir \in X!Directories /\ X!There(c.dir) BY PlanIs DEF X!RemoveFile
<1>2. X!Becomes([tree EXCEPT ![c.dir] = 0], {c.dir}) BY DEF X!RemoveFile
<1>3. Keeps([tree EXCEPT ![c.dir] = 0], {c.dir}) BY <1>1, OneKeeps DEF Lengths
<1>4. Job(w, job')
  <2>1. X!Owes(w, [dir |-> c.dir, file |-> TRUE], {X!Plain(c.dir)}) BY DEF X!RemoveFile
  <2>2. [dir |-> c.dir, file |-> TRUE] \in Removals BY <1>1 DEF Removals
  <2>3. X!Plain(c.dir).dir = c.dir BY DEF X!Plain
  <2>4. {X!Plain(c.dir)} \in SUBSET Refreshes BY <1>1, RefreshesAre
  <2> QED BY <2>1, <2>2, <2>3, <2>4, OwesIs
<1> QED BY <1>2, <1>3, <1>4 DEF Changed

(* DeleteFiles of a directory.                                                    *)
LEMMA RemoveDirIs ==
  ASSUME IndexTypes, NEW c \in plan, NEW w \in Workers \cup {Nil}, w # Nil => job[w].pc = "idle",
         X!RemoveDir(c, w)
  PROVE  Changed(w)
<1> DEFINE d == c.dir
<1> DEFINE new == [e \in X!Directories |-> IF e \in X!Within(d) THEN Nil ELSE tree[e]]
<1> DEFINE touched == X!Within(d) \cup {Parent[d]}
<1>1. d \in X!Directories \ {Root} /\ d \in DOMAIN Parent /\ Parent[d] \in X!Directories
  BY PlanIs, Given DEF X!RemoveDir
<1>2. X!Becomes(new, touched) BY DEF X!RemoveDir
<1>3. Keeps(new, touched)
  <2>1. tree \in [X!Directories -> Lengths \cup {Nil}] /\ tree[Root] # Nil BY DEF IndexTypes, X!There
  <2>2. new \in [X!Directories -> Lengths \cup {Nil}] BY <2>1
  <2>3. Root \notin X!Within(d) BY <1>1 DEF X!Within
  <2>4. new[Root] # Nil BY <2>1, <2>3, Given
  <2>5. ASSUME NEW e \in X!Directories \ touched, new[e] # Nil
        PROVE  /\ X!There(e) /\ (new[e] # 0) = (tree[e] # 0)
               /\ \A b \in DOMAIN Parent : Parent[b] = e => (new[b] # Nil <=> X!There(b))
    <3>1. new[e] = tree[e] BY <2>5
    <3>2. ASSUME NEW b \in DOMAIN Parent, Parent[b] = e PROVE b \notin X!Within(d)
      <4> SUFFICES ASSUME b \in X!Within(d) PROVE FALSE OBVIOUS
      <4>1. b # d BY <2>5, <3>2
      <4>2. b # Root /\ (Parent[b] = d \/ (Parent[b] # Root /\ Parent[Parent[b]] = d))
        BY <4>1 DEF X!Within
      <4>3. e = d \/ (e # Root /\ Parent[e] = d) BY <3>2, <4>2
      <4>4. e \in X!Within(d) BY <4>3, <1>1 DEF X!Within
      <4> QED BY <4>4, <2>5
    <3>3. \A b \in DOMAIN Parent : Parent[b] = e => new[b] = tree[b] BY <3>2, Given
    <3> QED BY <2>5, <3>1, <3>3 DEF X!There
  <2> HIDE DEF new, touched
  <2> QED BY <2>2, <2>4, <2>5 DEF Keeps
<1>4. Job(w, job')
  <2>1. X!Owes(w, [dir |-> d, file |-> FALSE], {X!Plain(Parent[d])}) BY DEF X!RemoveDir
  <2>2. [dir |-> d, file |-> FALSE] \in Removals BY <1>1 DEF Removals
  <2>3. X!Plain(Parent[d]).dir = Parent[d] BY DEF X!Plain
  <2>4. {X!Plain(Parent[d])} \in SUBSET Refreshes BY <1>1, RefreshesAre
  <2> QED BY <1>1, <2>1, <2>2, <2>3, <2>4, OwesIs
<1> QED BY <1>2, <1>3, <1>4 DEF Changed

(* MoveResource of a file.                                                        *)
LEMMA MoveFileIs ==
  ASSUME IndexTypes, NEW c \in plan, NEW w \in Workers \cup {Nil}, w # Nil => job[w].pc = "idle",
         X!MoveFile(c, w)
  PROVE  Changed(w)
<1> DEFINE new == [tree EXCEPT ![c.dir] = 0, ![c.to] = tree[c.dir]]
<1> DEFINE touched == {c.dir, c.to}
<1>1. /\ c.dir \in X!Directories /\ c.to \in X!Directories /\ X!There(c.dir) /\ X!There(c.to)
      /\ tree[c.dir] # 0 /\ tree[c.to] = 0
  BY PlanIs DEF X!MoveFile
<1>2. X!Becomes(new, touched) BY DEF X!MoveFile
<1>3. Keeps(new, touched)
  <2>1. tree \in [X!Directories -> Lengths \cup {Nil}] /\ tree[Root] # Nil /\ 0 \in Lengths /\ Nil \notin Lengths
    BY Given DEF IndexTypes, X!There, Lengths
  <2>2. /\ new \in [X!Directories -> Lengths \cup {Nil}]
        /\ \A e \in X!Directories \ touched : new[e] = tree[e]
        /\ new[c.dir] # Nil /\ new[c.to] # Nil
    BY <1>1, <2>1 DEF X!There
  <2>3. \A e \in X!Directories : new[e] # Nil <=> X!There(e) BY <1>1, <2>2 DEF X!There
  <2> HIDE DEF new
  <2>4. new[Root] # Nil BY <2>1, <2>3, Given DEF X!There
  <2>5. \A e \in DOMAIN Parent : new[e] # Nil <=> X!There(e) BY <2>3, Given
  <2> QED BY <2>2, <2>3, <2>4, <2>5 DEF Keeps
<1>4. Job(w, job')
  <2>1. X!Owes(w, [dir |-> c.dir, file |-> TRUE], {X!Dropping(c.dir, FALSE), X!Dropping(c.to, FALSE)})
    BY DEF X!MoveFile
  <2>2. [dir |-> c.dir, file |-> TRUE] \in Removals BY <1>1 DEF Removals
  <2>3. X!Dropping(c.dir, FALSE).dir = c.dir BY DEF X!Dropping
  <2>4. {X!Dropping(c.dir, FALSE), X!Dropping(c.to, FALSE)} \in SUBSET Refreshes
    BY <1>1, RefreshesAre
  <2> QED BY <2>1, <2>2, <2>3, <2>4, OwesIs
<1> QED BY <1>2, <1>3, <1>4 DEF Changed

(* MoveResource of a directory.                                                    *)
LEMMA MoveDirIs ==
  ASSUME IndexTypes, NEW c \in plan, NEW w \in Workers \cup {Nil}, w # Nil => job[w].pc = "idle",
         X!MoveDir(c, w)
  PROVE  Changed(w)
<1> DEFINE new == [tree EXCEPT ![c.dir] = Nil, ![c.to] = tree[c.dir]]
<1> DEFINE touched == {c.dir, c.to, Parent[c.dir], Parent[c.to]}
<1>1. /\ c.dir \in X!Directories \ {Root} /\ c.to \in X!Directories \ {Root}
      /\ c.dir \in DOMAIN Parent /\ c.to \in DOMAIN Parent
      /\ Parent[c.dir] \in X!Directories /\ Parent[c.to] \in X!Directories
  BY PlanIs, Given DEF X!MoveDir
<1>2. X!Becomes(new, touched) BY DEF X!MoveDir
<1>3. Keeps(new, touched)
  <2>1. tree \in [X!Directories -> Lengths \cup {Nil}] /\ tree[Root] # Nil BY DEF IndexTypes, X!There
  <2>2. /\ new \in [X!Directories -> Lengths \cup {Nil}]
        /\ \A e \in X!Directories \ {c.dir, c.to} : new[e] = tree[e]
    BY <1>1, <2>1
  <2> HIDE DEF new
  <2>3. new[Root] # Nil BY <1>1, <2>1, <2>2, Given
  <2>4. ASSUME NEW e \in X!Directories \ touched, new[e] # Nil
        PROVE  /\ X!There(e) /\ (new[e] # 0) = (tree[e] # 0)
               /\ \A b \in DOMAIN Parent : Parent[b] = e => (new[b] # Nil <=> X!There(b))
    <3>1. new[e] = tree[e] BY <2>2, <2>4
    <3>2. \A b \in DOMAIN Parent : Parent[b] = e => b \notin {c.dir, c.to} BY <2>4
    <3>3. \A b \in DOMAIN Parent : Parent[b] = e => new[b] = tree[b] BY <2>2, <3>2, Given
    <3> QED BY <2>4, <3>1, <3>3 DEF X!There
  <2> HIDE DEF touched
  <2> QED BY <2>2, <2>3, <2>4 DEF Keeps
<1>4. Job(w, job')
  <2>1. X!Owes(w, [dir |-> c.dir, file |-> FALSE],
               {X!Dropping(Parent[c.dir], FALSE), X!Dropping(c.to, TRUE), X!Dropping(Parent[c.to], FALSE)})
    BY DEF X!MoveDir
  <2>2. [dir |-> c.dir, file |-> FALSE] \in Removals BY <1>1 DEF Removals
  <2>3. X!Dropping(Parent[c.dir], FALSE).dir = Parent[c.dir] BY DEF X!Dropping
  <2>4. {X!Dropping(Parent[c.dir], FALSE), X!Dropping(c.to, TRUE), X!Dropping(Parent[c.to], FALSE)}
          \in SUBSET Refreshes
    BY <1>1, RefreshesAre
  <2> QED BY <1>1, <2>1, <2>2, <2>3, <2>4, OwesIs
<1> QED BY <1>2, <1>3, <1>4 DEF Changed

(* CopyResource of a file.                                                        *)
LEMMA CopyFileIs ==
  ASSUME IndexTypes, NEW c \in plan, NEW w \in Workers \cup {Nil}, w # Nil => job[w].pc = "idle",
         X!CopyFile(c, w)
  PROVE  Changed(w)
<1>1. /\ c.dir \in X!Directories /\ c.to \in X!Directories /\ X!There(c.dir) /\ X!There(c.to)
      /\ tree[c.dir] # 0
  BY PlanIs DEF X!CopyFile
<1> DEFINE touched == IF tree[c.to] = 0 THEN {c.to} ELSE {}
<1>2. X!Becomes([tree EXCEPT ![c.to] = tree[c.dir]], touched) BY DEF X!CopyFile
<1>3. tree[c.dir] \in Lengths BY <1>1 DEF IndexTypes, X!There
<1>4. (tree[c.dir] # 0) = (tree[c.to] # 0) \/ c.to \in touched BY <1>1
<1>5. Keeps([tree EXCEPT ![c.to] = tree[c.dir]], touched) BY <1>1, <1>3, <1>4, OneKeeps
<1>6. Job(w, job')
  <2>1. X!Owes(w, Nil, {X!Dropping(c.dir, FALSE), X!Dropping(c.to, TRUE)}) BY DEF X!CopyFile
  <2>2. {X!Dropping(c.dir, FALSE), X!Dropping(c.to, TRUE)} \in SUBSET Refreshes
    BY <1>1, RefreshesAre
  <2> QED BY <2>1, <2>2, OwesIs
<1> QED BY <1>2, <1>5, <1>6 DEF Changed

(* Every change to the files.                                                     *)
LEMMA AlterIs ==
  ASSUME IndexTypes, X!Alter
  PROVE  (\E w \in Workers \cup {Nil} : Changed(w)) /\ UNCHANGED <<sc, reg, scanning, setup, plan>>
<1>1. PICK c \in plan, w \in Workers \cup {Nil} :
        /\ IF c.past THEN w = Nil ELSE w # Nil /\ job[w].pc = "idle"
        /\ X!Change(c, w)
  BY DEF X!Alter
<1>2. w # Nil => job[w].pc = "idle" BY <1>1
<1>3. Changed(w)
  BY <1>1, <1>2, WriteIs, MakeDirIs, RemoveFileIs, RemoveDirIs, MoveFileIs, MoveDirIs, CopyFileIs
     DEF X!Change
<1> QED BY <1>3 DEF X!Alter

(* Where the modification time stayed, what was listed is what is there.             *)
LEMMA KeepsMatch ==
  ASSUME NEW new, NEW touched, Keeps(new, touched), tree' = new,
         NEW d \in X!Directories \ touched, X!There(d)'
  PROVE  X!There(d) /\ \A l : Matches(l, d) => Matches(l, d)'
<1>1. /\ X!There(d) /\ (new[d] # 0) = (tree[d] # 0)
      /\ \A e \in DOMAIN Parent : Parent[e] = d => (new[e] # Nil <=> X!There(e))
  BY DEF Keeps, X!There
<1>2. X!Inside(d)' = X!Inside(d) BY <1>1 DEF X!Inside, X!There
<1> QED BY <1>1, <1>2 DEF Matches

(* The calls under way, when directories change.                                     *)
LEMMA BecomesFrames ==
  ASSUME IndexTypes, NEW new, NEW touched, X!Becomes(new, touched), NEW p \in X!Procs
  PROVE  /\ frames'[p] \in Seq(Frames) /\ Len(frames'[p]) = Len(frames[p])
         /\ \A n \in 1 .. Len(frames[p]) :
              frames'[p][n] = IF frames[p][n].dir \in touched
                              THEN [frames[p][n] EXCEPT !.cur = FALSE] ELSE frames[p][n]
<1> DEFINE s == frames[p]
<1> DEFINE g == [n \in 1 .. Len(s) |-> IF s[n].dir \in touched THEN [s[n] EXCEPT !.cur = FALSE] ELSE s[n]]
<1>1. s \in Seq(Frames) /\ Len(s) \in Nat /\ DOMAIN s = 1 .. Len(s) BY DEF IndexTypes
<1>2. frames'[p] = g BY <1>1 DEF X!Becomes
<1>3. ASSUME NEW n \in 1 .. Len(s) PROVE g[n] \in Frames
  <2>1. s[n] \in Frames BY <1>1
  <2>2. [s[n] EXCEPT !.cur = FALSE] \in Frames BY <2>1 DEF Frames
  <2> QED BY <2>1, <2>2
<1>4. g \in [1 .. Len(s) -> Frames] BY <1>3
<1>5. g \in Seq(Frames) /\ Len(g) = Len(s) BY <1>1, <1>4
<1> QED BY <1>2, <1>5

(* A change to the files leaves the index no more sure than it may be.              *)
LEMMA AlterKeeps ==
  ASSUME IndexTypes, FramesTell, JobsTell, EntriesTell, HeldTell, NEW w \in Workers \cup {Nil}, Changed(w),
         plan' = plan
  PROVE  IndexTypes' /\ FramesTell' /\ JobsTell' /\ EntriesTell' /\ HeldTell'
<1>1. PICK new, touched : X!Becomes(new, touched) /\ Keeps(new, touched) /\ Job(w, job')
  BY DEF Changed
<1>2. /\ tree' = new
      /\ idx' = [d \in X!Directories |-> IF d \in touched /\ idx[d] # Nil
                                  THEN [idx[d] EXCEPT !.cur = FALSE] ELSE idx[d]]
      /\ frames' = [p \in X!Procs |-> frames'[p]]
  BY <1>1 DEF X!Becomes
<1>3. \A p \in X!Procs :
        /\ frames'[p] \in Seq(Frames) /\ Len(frames'[p]) = Len(frames[p])
        /\ \A n \in 1 .. Len(frames[p]) :
             frames'[p][n] = IF frames[p][n].dir \in touched
                             THEN [frames[p][n] EXCEPT !.cur = FALSE] ELSE frames[p][n]
  BY <1>1, BecomesFrames
<1>4. \A p \in X!Procs : \A n \in 1 .. Len(frames[p]) :
        /\ frames[p][n] \in Frames /\ frames'[p][n].dir = frames[p][n].dir
        /\ frames'[p][n].pc = frames[p][n].pc /\ frames'[p][n].list = frames[p][n].list
        /\ frames'[p][n].todo = frames[p][n].todo
        /\ frames'[p][n].cur => frames[p][n].cur /\ frames[p][n].dir \notin touched
  <2> SUFFICES ASSUME NEW p \in X!Procs, NEW n \in 1 .. Len(frames[p])
               PROVE  /\ frames[p][n] \in Frames /\ frames'[p][n].dir = frames[p][n].dir
                      /\ frames'[p][n].pc = frames[p][n].pc /\ frames'[p][n].list = frames[p][n].list
                      /\ frames'[p][n].todo = frames[p][n].todo
                      /\ frames'[p][n].cur => frames[p][n].cur /\ frames[p][n].dir \notin touched
    OBVIOUS
  <2>1. frames[p][n] \in Frames BY DEF IndexTypes
  <2> QED BY <2>1, <1>3 DEF Frames
<1>5. job' \in [Workers -> Jobs]
  <2>1. CASE job' = job BY <2>1 DEF IndexTypes
  <2>2. CASE job' # job
    <3>1. PICK unlist \in Removals \cup {Nil}, left \in SUBSET Refreshes :
            w \in Workers /\
            job' = [job EXCEPT ![w] = [X!Idle EXCEPT !.pc = IF unlist = Nil THEN "refresh" ELSE "unlist",
                                                     !.unlist = unlist, !.left = left]]
      BY <1>1, <2>2 DEF Job
    <3>2. [X!Idle EXCEPT !.pc = IF unlist = Nil THEN "refresh" ELSE "unlist",
                         !.unlist = unlist, !.left = left] \in Jobs
      <4>1. Root \in X!Directories BY Given
      <4>2. PICK now2 \in {"refresh", "unlist"} : now2 = IF unlist = Nil THEN "refresh" ELSE "unlist"
        OBVIOUS
      <4>3. X!Idle \in Jobs BY <4>1 DEF Jobs, X!Idle
      <4>4. [X!Idle EXCEPT !.pc = now2] \in Jobs BY <4>3 DEF Jobs
      <4>5. PICK j \in Jobs : j = [X!Idle EXCEPT !.pc = now2] BY <4>4
      <4>6. [j EXCEPT !.unlist = unlist, !.left = left] \in Jobs BY DEF Jobs
      <4> QED BY <4>2, <4>5, <4>6
    <3> QED BY <3>1, <3>2 DEF IndexTypes
  <2> QED BY <2>1, <2>2
<1>6. IndexTypes'
  <2>1. tree' \in [X!Directories -> Lengths \cup {Nil}] /\ X!There(Root)' BY <1>1, <1>2 DEF Keeps, X!There
  <2>2. ASSUME NEW d \in X!Directories PROVE idx'[d] \in Entries \cup {Nil}
    <3>1. idx[d] \in Entries \cup {Nil} BY DEF IndexTypes
    <3>2. idx[d] \in Entries => [idx[d] EXCEPT !.cur = FALSE] \in Entries BY DEF Entries
    <3> QED BY <1>2, <3>1, <3>2
  <2>3. idx' \in [X!Directories -> Entries \cup {Nil}] BY <1>2, <2>2
  <2>4. \A d \in Excluded : idx'[d] = Nil BY <1>2, Given DEF IndexTypes
  <2>5. frames' \in [X!Procs -> Seq(Frames)] BY <1>2, <1>3
  <2> QED BY <2>1, <2>3, <2>4, <2>5, <1>5 DEF IndexTypes
<1>7. FramesTell'
  <2> SUFFICES ASSUME NEW p \in X!Procs, NEW n \in 1 .. Len(frames[p])
               PROVE  FrameOK(frames[p][n])'
    BY <1>3 DEF FramesTell
  <2>1. PICK f : f = frames[p][n] OBVIOUS
  <2>2. PICK g : g = frames'[p][n] OBVIOUS
  <2>3. FrameOK(f) /\ f \in Frames BY <1>4, <2>1 DEF FramesTell
  <2>4. /\ g.dir = f.dir /\ g.pc = f.pc /\ g.list = f.list /\ g.todo = f.todo
        /\ g.cur => f.cur /\ f.dir \notin touched
    BY <1>4, <2>1, <2>2
  <2>5. f.dir \in X!Directories BY <2>3 DEF Frames, Indexed
  <2>6. ASSUME f.pc = "list", g.cur, X!There(f.dir)' PROVE Matches(f.list, f.dir)'
    <3>1. f.cur /\ f.dir \notin touched BY <2>4, <2>6
    <3>2. X!There(f.dir) /\ \A l : Matches(l, f.dir) => Matches(l, f.dir)'
      BY <1>1, <1>2, <2>5, <2>6, <3>1, KeepsMatch
    <3> QED BY <2>3, <2>6, <3>1, <3>2 DEF FrameOK
  <2>7. FrameOK(g)' BY <2>3, <2>4, <2>6 DEF FrameOK
  <2> QED BY <2>2, <2>7
<1>8. ASSUME NEW v \in Workers PROVE v \in X!Procs /\ (frames'[v] # << >> <=> frames[v] # << >>)
  <2>1. v \in X!Procs BY Given
  <2>2. frames[v] \in Seq(Frames) /\ frames'[v] \in Seq(Frames) /\ Len(frames'[v]) = Len(frames[v])
    BY <2>1, <1>3 DEF IndexTypes
  <2> QED BY <2>1, <2>2
<1>9. ASSUME NEW v \in Workers PROVE JobOK(v)'
  <2>1. JobOK(v) /\ v \in X!Procs BY <1>8 DEF JobsTell
  <2>2. CASE job'[v] = job[v]
    <3>1. frames'[v] # << >> => Len(frames[v]) \in 1 .. Len(frames[v])
      <4>1. frames[v] \in Seq(Frames) BY <2>1 DEF IndexTypes
      <4> QED BY <4>1, <1>8
    <3> QED BY <2>1, <2>2, <3>1, <1>3, <1>4, <1>8 DEF JobOK
  <2>3. CASE job'[v] # job[v]
    <3>1. PICK unlist \in Removals \cup {Nil}, left \in SUBSET Refreshes :
            /\ v = w /\ job[v].pc = "idle"
            /\ job' = [job EXCEPT ![w] = [X!Idle EXCEPT !.pc = IF unlist = Nil THEN "refresh" ELSE "unlist",
                                                        !.unlist = unlist, !.left = left]]
            /\ unlist # Nil =>
                 /\ unlist.file \/ unlist.dir # Root
                 /\ \E r \in left : r.dir = IF unlist.file THEN unlist.dir ELSE Parent[unlist.dir]
      BY <1>1, <2>3 DEF Job, IndexTypes
    <3>2. frames'[v] = << >> BY <2>1, <3>1, <1>8 DEF JobOK
    <3>3. /\ job'[v].pc = IF unlist = Nil THEN "refresh" ELSE "unlist"
          /\ job'[v].unlist = unlist /\ job'[v].left = left
      BY <3>1 DEF IndexTypes, X!Idle
    <3> QED BY <3>1, <3>2, <3>3 DEF JobOK
  <2> QED BY <2>2, <2>3
<1>10. ASSUME NEW d \in X!Directories PROVE EntryOK(d)'
  <2> SUFFICES ASSUME idx'[d] # Nil, idx'[d].cur, X!There(d)', idx'[d].lost # "back",
                      idx'[d].lost = "late" => \A v \in Workers : ~Unsettled(v, d)'
               PROVE  Matches(idx[d], d)'
    BY DEF EntryOK
  <2>1. d \notin touched /\ idx'[d] = idx[d]
    <3>1. idx[d] \in Entries \cup {Nil} BY DEF IndexTypes
    <3>2. idx[d] \in Entries => [idx[d] EXCEPT !.cur = FALSE].cur = FALSE BY DEF Entries
    <3> QED BY <1>2, <3>1, <3>2
  <2>2. X!There(d) /\ \A l : Matches(l, d) => Matches(l, d)' BY <1>1, <1>2, <2>1, KeepsMatch
  <2>3. idx[d].lost = "late" => \A v \in Workers : ~Unsettled(v, d)
    <3> SUFFICES ASSUME NEW v \in Workers, Unsettled(v, d) PROVE Unsettled(v, d)' BY <2>1
    <3>1. job'[v] = job[v] BY <1>1 DEF Unsettled, Job, IndexTypes
    <3> QED BY <3>1, <1>8 DEF Unsettled
  <2>4. Matches(idx[d], d) BY <2>1, <2>2, <2>3 DEF EntriesTell, EntryOK
  <2>5. PICK l : l = idx[d] OBVIOUS
  <2>6. Matches(l, d)' BY <2>2, <2>4, <2>5
  <2> QED BY <2>1, <2>5, <2>6 DEF Matches, X!Inside, X!There
<1>11. ASSUME NEW v \in Workers PROVE HeldOK(v)' /\ old'[v] \in Entries \cup {Nil}
  <2>1. /\ HeldOK(v) /\ old[v] \in Entries \cup {Nil}
        /\ old'[v] = IF old[v] # Nil /\ X!Above(v) \in touched THEN [old[v] EXCEPT !.cur = FALSE] ELSE old[v]
    BY <1>1 DEF HeldTell, X!Becomes
  <2>2. CASE job[v].pc # "put"
    <3>1. job'[v].pc # "put"
      <4>1. job'[v].pc \in {job[v].pc, "refresh", "unlist"} BY <1>1 DEF Job, IndexTypes, X!Idle
      <4> QED BY <2>2, <4>1
    <3> QED BY <2>1, <2>2, <3>1 DEF HeldOK
  <2>3. CASE job[v].pc = "put"
    <3>1. job'[v] = job[v] BY <1>1, <2>3 DEF Job, IndexTypes
    <3>2. PICK a : a = X!Above(v) OBVIOUS
    <3>3. X!Above(v)' = a BY <3>1, <3>2 DEF X!Above
    <3>4. /\ job[v].dir # Root /\ a \notin Excluded
          /\ IF old[v] = Nil THEN idx[a] # Nil ELSE Right(old[v], a)
      BY <2>1, <2>3, <3>2 DEF HeldOK
    <3>5. a \in X!Directories
      <4>1. job[v].dir \in X!Directories BY DEF IndexTypes, Jobs
      <4> QED BY <3>2, <3>4, <4>1, Given DEF X!Above
    <3>6. CASE old[v] = Nil
      <4>1. old'[v] = Nil BY <2>1, <3>6
      <4>2. idx'[a] # Nil
        <5>1. idx[a] \in Entries BY <3>4, <3>5, <3>6 DEF IndexTypes
        <5>2. [idx[a] EXCEPT !.cur = FALSE] \in Entries BY <5>1 DEF Entries
        <5> QED BY <1>2, <3>4, <3>5, <3>6, <5>2, Given
      <4> QED BY <2>3, <3>1, <3>3, <3>4, <4>1, <4>2 DEF HeldOK
    <3>7. CASE old[v] # Nil
      <4>1. PICK e : e = old'[v] OBVIOUS
      <4>2. e \in Entries /\ (e.cur => e = old[v] /\ a \notin touched)
        <5>1. old[v] \in Entries BY <2>1, <3>7
        <5>2. [old[v] EXCEPT !.cur = FALSE] \in Entries /\ ~[old[v] EXCEPT !.cur = FALSE].cur
          BY <5>1 DEF Entries
        <5> QED BY <2>1, <3>2, <3>7, <4>1, <5>1, <5>2
      <4>3. Right(e, a)'
        <5> SUFFICES ASSUME e.cur, X!There(a)', e.lost = "no" PROVE Matches(e, a)' BY DEF Right
        <5>1. e = old[v] /\ a \in X!Directories \ touched BY <3>5, <4>2
        <5>2. X!There(a) /\ \A l : Matches(l, a) => Matches(l, a)' BY <1>1, <1>2, <5>1, KeepsMatch
        <5>3. Matches(e, a) BY <3>4, <3>7, <5>1, <5>2 DEF Right
        <5> QED BY <5>2, <5>3
      <4>4. e # Nil BY <4>2, Given
      <4> QED BY <2>3, <3>1, <3>3, <3>4, <4>1, <4>2, <4>3, <4>4 DEF HeldOK
    <3> QED BY <3>6, <3>7
  <2> QED BY <2>2, <2>3
<1>12. HeldTell'
  <2>1. old' = [v \in Workers |-> old'[v]] BY <1>1 DEF X!Becomes
  <2>2. old' \in [Workers -> Entries \cup {Nil}] BY <1>11, <2>1
  <2> QED BY <1>11, <2>2 DEF HeldTell
<1> QED BY <1>6, <1>7, <1>9, <1>10, <1>12 DEF JobsTell, EntriesTell

-------------------------------------------------------------------------------
(* Steps of the index: the files stay as they are.                                *)

\* What the index knows, but for the scanners.
Knows == IndexTypes /\ FramesTell /\ JobsTell /\ EntriesTell /\ HeldTell

(* What a call has read stays right.                                             *)
LEMMA FrameStays == ASSUME NEW f, UNCHANGED tree PROVE FrameOK(f)' = FrameOK(f)
BY DEF FrameOK, Matches, X!There, X!Inside

(* Only the calls of one goroutine have changed.                                  *)
LEMMA FramesAre ==
  ASSUME IndexTypes, FramesTell, UNCHANGED tree, NEW p \in X!Procs, NEW s \in Seq(Frames),
         frames' = [frames EXCEPT ![p] = s], \A n \in 1 .. Len(s) : FrameOK(s[n])
  PROVE  /\ frames' \in [X!Procs -> Seq(Frames)] /\ FramesTell'
         /\ frames'[p] = s /\ \A q \in X!Procs \ {p} : frames'[q] = frames[q]
<1>1. frames' \in [X!Procs -> Seq(Frames)] /\ frames'[p] = s
      /\ \A q \in X!Procs \ {p} : frames'[q] = frames[q]
  BY DEF IndexTypes
<1>2. ASSUME NEW q \in X!Procs, NEW n \in 1 .. Len(frames'[q]) PROVE FrameOK(frames[q][n])'
  <2>1. PICK f : f = frames'[q][n] OBVIOUS
  <2>2. FrameOK(f) BY <1>1, <2>1, <1>2 DEF FramesTell
  <2>3. FrameOK(f)' BY <2>2, FrameStays
  <2> QED BY <2>1, <2>3
<1> QED BY <1>1, <1>2 DEF FramesTell

(* A request that is left alone.                                                 *)
LEMMA JobStays ==
  ASSUME NEW w \in Workers, JobOK(w), job'[w] = job[w], frames'[w] = frames[w]
  PROVE  JobOK(w)'
BY DEF JobOK

(* An entry that lists what it listed, and counts as current only if it did.          *)
LEMMA EntryStays ==
  ASSUME NEW d \in X!Directories, EntryOK(d), UNCHANGED tree,
         idx'[d] # Nil => /\ idx[d] # Nil /\ (idx'[d].cur => idx[d].cur)
                          /\ idx'[d].file = idx[d].file /\ idx'[d].folders = idx[d].folders
                          /\ idx'[d].lost = idx[d].lost,
         \A w \in Workers : Unsettled(w, d) => Unsettled(w, d)'
  PROVE  EntryOK(d)'
<1> SUFFICES ASSUME idx'[d] # Nil, idx'[d].cur, X!There(d), idx'[d].lost # "back",
                    idx'[d].lost = "late" => \A w \in Workers : ~Unsettled(w, d)'
             PROVE  (idx'[d].file # 0) = (tree[d] # 0) /\ idx'[d].folders = X!Inside(d) \ Excluded
  BY DEF EntryOK, Matches, X!There, X!Inside
<1> QED BY DEF EntryOK, Matches

(* A pointer is left alone that is to the entry in the index, or to one that was.       *)
LEMMA HolderKept ==
  ASSUME IndexTypes, EntriesTell, HeldTell, UNCHANGED tree, NEW D,
         \A d \in X!Directories \ D : idx[d] # Nil => idx'[d] # Nil,
         NEW v \in Workers, old'[v] = X!Kept(D)[v], job'[v].pc = "put" <=> job[v].pc = "put",
         job[v].pc = "put" => job'[v].dir = job[v].dir
  PROVE  HeldOK(v)' /\ old'[v] \in Entries \cup {Nil}
<1>0. /\ HeldOK(v) /\ old[v] \in Entries \cup {Nil}
      /\ old'[v] = IF job[v].pc = "put" /\ old[v] = Nil /\ X!Above(v) \in D
                   THEN idx[X!Above(v)] ELSE old[v]
  BY DEF HeldTell, X!Kept
<1>1. CASE job[v].pc # "put" BY <1>0, <1>1 DEF HeldOK
<1>2. CASE job[v].pc = "put"
  <2>1. PICK a : a = X!Above(v) OBVIOUS
  <2>2. /\ job[v].dir # Root /\ a \notin Excluded
        /\ IF old[v] = Nil THEN idx[a] # Nil ELSE Right(old[v], a)
    BY <1>0, <1>2, <2>1 DEF HeldOK
  <2>3. X!Above(v)' = a /\ job'[v].pc = "put" /\ job'[v].dir # Root BY <1>2, <2>1, <2>2 DEF X!Above
  <2>4. a \in X!Directories
    <3>1. job[v].dir \in X!Directories BY DEF IndexTypes, Jobs
    <3> QED BY <2>1, <2>2, <3>1, Given DEF X!Above
  <2>5. CASE old[v] = Nil /\ a \notin D
    <3>1. old'[v] = Nil /\ idx'[a] # Nil BY <1>0, <2>1, <2>2, <2>4, <2>5
    <3> QED BY <2>2, <2>3, <3>1 DEF HeldOK
  <2>6. CASE ~(old[v] = Nil /\ a \notin D)
    <3>1. PICK e : e = old'[v] OBVIOUS
    <3>2. e \in Entries /\ Right(e, a)
      <4>1. CASE old[v] = Nil
        <5>1. e = idx[a] /\ idx[a] # Nil BY <1>0, <1>2, <2>1, <2>2, <2>6, <3>1, <4>1
        <5>2. e \in Entries BY <2>4, <5>1 DEF IndexTypes
        <5>3. EntryOK(a) BY <2>4 DEF EntriesTell
        <5> QED BY <5>1, <5>2, <5>3 DEF EntryOK, Right
      <4>2. CASE old[v] # Nil BY <1>0, <2>2, <3>1, <4>2
      <4> QED BY <4>1, <4>2
    <3>3. Right(e, a)' BY <3>2 DEF Right, Matches, X!There, X!Inside
    <3>4. e # Nil BY <3>2, Given
    <3> QED BY <2>2, <2>3, <3>1, <3>2, <3>3, <3>4 DEF HeldOK
  <2> QED BY <2>5, <2>6
<1> QED BY <1>1, <1>2

(* ... by whoever has one, where the entries of D are replaced or removed.             *)
LEMMA HeldKept ==
  ASSUME IndexTypes, EntriesTell, HeldTell, UNCHANGED tree, NEW D, X!Detach(D),
         \A d \in X!Directories \ D : idx[d] # Nil => idx'[d] # Nil,
         \A w \in Workers : /\ job'[w].pc = "put" <=> job[w].pc = "put"
                            /\ job[w].pc = "put" => job'[w].dir = job[w].dir
  PROVE  HeldTell'
<1>1. ASSUME NEW v \in Workers PROVE HeldOK(v)' /\ old'[v] \in Entries \cup {Nil}
  <2>1. old'[v] = X!Kept(D)[v] BY DEF X!Detach
  <2>2. job'[v].pc = "put" <=> job[v].pc = "put" OBVIOUS
  <2>3. job[v].pc = "put" => job'[v].dir = job[v].dir OBVIOUS
  <2> QED BY <2>1, <2>2, <2>3, HolderKept
<1>2. old' = [v \in Workers |-> old'[v]] BY DEF X!Detach, X!Kept
<1>3. old' \in [Workers -> Entries \cup {Nil}] BY <1>1, <1>2
<1> QED BY <1>1, <1>3 DEF HeldTell

(* ... and where no entry is replaced or removed.                                      *)
LEMMA HeldStays ==
  ASSUME IndexTypes, EntriesTell, HeldTell, UNCHANGED <<tree, old>>,
         \A d \in X!Directories : idx[d] # Nil => idx'[d] # Nil,
         \A w \in Workers : /\ job'[w].pc = "put" <=> job[w].pc = "put"
                            /\ job[w].pc = "put" => job'[w].dir = job[w].dir
  PROVE  HeldTell'
<1>1. X!Detach({}) BY DEF X!Detach, X!Kept, HeldTell
<1> QED BY <1>1, HeldKept

(* Only the calls of one goroutine have changed, and it is not done.                *)
LEMMA CallKeeps ==
  ASSUME Knows, UNCHANGED <<tree, idx, job, old, plan>>, NEW p \in X!Procs, X!Busy(p),
         NEW s \in Seq(Frames), s # << >>, frames' = [frames EXCEPT ![p] = s],
         \A n \in 1 .. Len(s) : FrameOK(s[n]),
         p \in Workers => /\ s[Len(s)].dir = frames[p][Len(frames[p])].dir
                          /\ \A n \in 1 .. Len(s) : s[n].pc # "skip"
  PROVE  Knows'
<1>1. /\ frames' \in [X!Procs -> Seq(Frames)] /\ FramesTell'
      /\ frames'[p] = s /\ \A q \in X!Procs \ {p} : frames'[q] = frames[q]
  BY FramesAre DEF Knows
<1>2. IndexTypes' BY <1>1 DEF Knows, IndexTypes, X!There
<1>3. ASSUME NEW w \in Workers PROVE w \in X!Procs /\ (frames'[w] # << >> <=> frames[w] # << >>)
  BY <1>1, Given DEF X!Busy
<1>4. ASSUME NEW w \in Workers PROVE JobOK(w)'
  <2>1. JobOK(w) BY DEF Knows, JobsTell
  <2>2. CASE w = p
    <3>1. s # << >> /\ frames[w] # << >> BY <2>2 DEF X!Busy
    <3> QED BY <1>1, <2>1, <2>2, <3>1 DEF JobOK
  <2>3. CASE w # p BY <1>1, <1>3, <2>1, <2>3, JobStays
  <2> QED BY <2>2, <2>3
<1>5. ASSUME NEW d \in X!Directories PROVE EntryOK(d)'
  <2>1. \A w \in Workers : Unsettled(w, d) => Unsettled(w, d)' BY <1>3 DEF Unsettled
  <2> QED BY <2>1, EntryStays DEF Knows, EntriesTell
<1>6. HeldTell' BY HeldStays DEF Knows
<1> QED BY <1>1, <1>2, <1>4, <1>5, <1>6 DEF Knows, JobsTell, EntriesTell

(* What a busy goroutine is at.                                                  *)
LEMMA TopIs ==
  ASSUME Knows, NEW p \in X!Procs, X!Busy(p)
  PROVE  /\ frames[p] \in Seq(Frames) /\ frames[p] # << >> /\ Len(frames[p]) \in Nat \ {0}
         /\ X!Top(p) = frames[p][1] /\ X!Top(p) \in Frames /\ FrameOK(X!Top(p))
         /\ \A n \in 1 .. Len(frames[p]) : FrameOK(frames[p][n])
         /\ p \in Workers => /\ job[p].pc = "index"
                             /\ frames[p][Len(frames[p])].dir = job[p].dir
                             /\ \A n \in 1 .. Len(frames[p]) : frames[p][n].pc # "skip"
<1>1. frames[p] \in Seq(Frames) /\ frames[p] # << >> BY DEF Knows, IndexTypes, X!Busy
<1>2. Len(frames[p]) \in Nat \ {0} /\ Head(frames[p]) = frames[p][1] /\ Head(frames[p]) \in Frames
  BY <1>1
<1>3. \A n \in 1 .. Len(frames[p]) : FrameOK(frames[p][n]) BY DEF Knows, FramesTell
<1>4. p \in Workers => /\ job[p].pc = "index"
                       /\ frames[p][Len(frames[p])].dir = job[p].dir
                       /\ \A n \in 1 .. Len(frames[p]) : frames[p][n].pc # "skip"
  BY <1>1 DEF Knows, JobsTell, JobOK
<1>5. FrameOK(frames[p][1]) BY <1>2, <1>3
<1> QED BY <1>1, <1>2, <1>3, <1>4, <1>5 DEF X!Top

(* A directory is read.                                                         *)
LEMMA ReadDirKeeps ==
  ASSUME Knows, NEW p \in X!Procs, X!ReadDir(p)
  PROVE  Knows'
<1>1. PICK f : f = X!Top(p) OBVIOUS
<1> DEFINE list == IF X!There(f.dir)
                   THEN [file |-> tree[f.dir], folders |-> X!Inside(f.dir) \ Excluded]
                   ELSE [file |-> 0, folders |-> {}]
<1> DEFINE todo2 == IF X!Recursive(p) THEN list.folders ELSE {}
<1>2. /\ X!Busy(p) /\ UNCHANGED <<tree, idx, job, old, plan>>
      /\ frames' = [frames EXCEPT ![p] =
                      <<[f EXCEPT !.pc = "list", !.list = list, !.todo = todo2]>> \o Tail(frames[p])]
  BY <1>1 DEF X!ReadDir, X!SetTop
<1>3. f \in Frames /\ f.dir \in X!Directories /\ tree[f.dir] \in Lengths \cup {Nil}
  BY <1>1, <1>2, TopIs DEF Frames, Indexed, Knows, IndexTypes
<1>4. list \in Listings /\ list.folders \subseteq Indexed
  <2>1. X!Inside(f.dir) \ Excluded \subseteq Indexed BY Given DEF X!Inside, Indexed
  <2> QED BY <1>3, <2>1 DEF Listings, X!There, Lengths
<1>5. todo2 \subseteq list.folders OBVIOUS
<1>6. X!There(f.dir) => Matches(list, f.dir) BY DEF Matches
<1>7. PICK l, t : l = list /\ t = todo2 OBVIOUS
<1>8. /\ l \in Listings /\ t \subseteq l.folders /\ t \in SUBSET Indexed
      /\ X!There(f.dir) => Matches(l, f.dir)
      /\ frames' = [frames EXCEPT ![p] =
                      <<[f EXCEPT !.pc = "list", !.list = l, !.todo = t]>> \o Tail(frames[p])]
  BY <1>2, <1>4, <1>5, <1>6, <1>7
<1> HIDE DEF list, todo2
<1>9. PICK a : a = [f EXCEPT !.pc = "list", !.list = l, !.todo = t] OBVIOUS
<1>10. a \in Frames /\ a.dir = f.dir /\ a.pc = "list" /\ a.list = l /\ a.todo = t
  BY <1>3, <1>8, <1>9 DEF Frames
<1>11. FrameOK(a) BY <1>8, <1>10 DEF FrameOK
<1>12. PICK s : s = <<a>> \o Tail(frames[p]) OBVIOUS
<1>13. /\ s \in Seq(Frames) /\ Len(s) = Len(frames[p]) /\ s[1] = a /\ Len(s) \in Nat \ {0}
       /\ \A n \in 2 .. Len(s) : s[n] = frames[p][n]
  BY <1>2, <1>10, <1>12, TopIs, Replaces
<1>14. s # << >> /\ frames' = [frames EXCEPT ![p] = s] BY <1>8, <1>9, <1>12, <1>13
<1>15. \A n \in 1 .. Len(s) : n = 1 \/ (n \in 2 .. Len(s) /\ n \in 1 .. Len(frames[p])) BY <1>13
<1>16. \A n \in 1 .. Len(s) : FrameOK(s[n]) BY <1>2, <1>11, <1>13, <1>15, TopIs
<1>17. ASSUME p \in Workers
       PROVE  /\ s[Len(s)].dir = frames[p][Len(frames[p])].dir
              /\ \A n \in 1 .. Len(s) : s[n].pc # "skip"
  <2>1. s[Len(s)].dir = frames[p][Len(frames[p])].dir
    <3>1. Len(s) = 1 \/ Len(s) \in 2 .. Len(s)
      <4>1. \A k \in Nat \ {0} : k = 1 \/ k \in 2 .. k OBVIOUS
      <4> QED BY <1>13, <4>1
    <3> QED BY <1>1, <1>2, <1>10, <1>13, <3>1, TopIs
  <2>2. \A n \in 1 .. Len(s) : s[n].pc # "skip" BY <1>2, <1>10, <1>13, <1>15, <1>17, TopIs
  <2> QED BY <2>1, <2>2
<1> QED BY <1>2, <1>13, <1>14, <1>16, <1>17, CallKeeps

(* A directory is opened: what is known of it, where it is not read, is of directories.  *)
LEMMA OpenedIs ==
  ASSUME IndexTypes, NEW p, NEW d \in Indexed
  PROVE  /\ X!Opened(p, d) \in Frames /\ FrameOK(X!Opened(p, d))
         /\ p \in Workers => X!Opened(p, d).pc # "skip"
<1>1. idx[d] # Nil => idx[d].folders \in SUBSET Indexed BY DEF IndexTypes, Entries, Indexed
<1>2. X!Opened(p, d) \in Frames
  <2>1. (IF idx[d] = Nil THEN {} ELSE idx[d].folders) \in SUBSET Indexed BY <1>1
  <2> QED BY <2>1 DEF X!Opened, Frames
<1>3. X!Opened(p, d).pc # "list" BY DEF X!Opened
<1>4. p \in Workers => ~X!Quick(p) BY Given DEF X!Quick
<1> QED BY <1>2, <1>3, <1>4 DEF FrameOK, X!Opened

(* A directory in it is opened, or found to be gone.                               *)
LEMMA DescendKeeps ==
  ASSUME Knows, NEW p \in X!Procs, X!Descend(p)
  PROVE  Knows'
<1>1. PICK f : f = X!Top(p) OBVIOUS
<1>2. PICK d \in f.todo :
        IF X!There(d)
        THEN frames' = [frames EXCEPT ![p] =
                          <<X!Opened(p, d), [f EXCEPT !.todo = @ \ {d}]>> \o Tail(@)]
        ELSE frames' = [frames EXCEPT ![p] =
               <<[f EXCEPT !.todo = @ \ {d},
                           !.list = IF f.list = Nil THEN Nil
                                    ELSE [f.list EXCEPT !.folders = @ \ {d}]]>> \o Tail(@)]
  BY <1>1 DEF X!Descend, X!SetTop
<1>3. X!Busy(p) /\ UNCHANGED <<tree, idx, job, old, plan>> BY DEF X!Descend
<1>4. f \in Frames /\ FrameOK(f) /\ f.todo \in SUBSET Indexed /\ d \in Indexed
  BY <1>1, <1>3, TopIs DEF Frames
<1>5. IndexTypes BY DEF Knows
<1>6. /\ frames[p] \in Seq(Frames) /\ frames[p] # << >> /\ Len(frames[p]) \in Nat \ {0}
      /\ f = frames[p][1] /\ \A n \in 1 .. Len(frames[p]) : FrameOK(frames[p][n])
      /\ p \in Workers => \A n \in 1 .. Len(frames[p]) : frames[p][n].pc # "skip"
  BY <1>1, <1>3, TopIs
<1>7. CASE X!There(d)
  <2>1. PICK a, b : a = X!Opened(p, d) /\ b = [f EXCEPT !.todo = @ \ {d}] OBVIOUS
  <2>2. a \in Frames /\ FrameOK(a) /\ (p \in Workers => a.pc # "skip")
    BY <1>4, <1>5, <2>1, OpenedIs
  <2>3. /\ b \in Frames /\ b.dir = f.dir /\ b.pc = f.pc /\ b.list = f.list /\ b.cur = f.cur
        /\ b.todo = f.todo \ {d}
    BY <1>4, <2>1 DEF Frames
  <2>4. FrameOK(b) BY <1>4, <2>3 DEF FrameOK
  <2>5. PICK s : s = <<a, b>> \o Tail(frames[p]) OBVIOUS
  <2>6. /\ s \in Seq(Frames) /\ Len(s) = Len(frames[p]) + 1 /\ s[1] = a /\ s[2] = b
        /\ \A n \in 3 .. Len(frames[p]) + 1 : s[n] = frames[p][n - 1]
    BY <1>6, <2>2, <2>3, <2>5, Pushes
  <2>7. s # << >> /\ frames' = [frames EXCEPT ![p] = s]
    <3>1. s # << >> BY <1>6, <2>6
    <3>2. frames' = [frames EXCEPT ![p] = <<a, b>> \o Tail(frames[p])] BY <1>2, <1>7, <2>1
    <3> QED BY <2>5, <3>1, <3>2
  <2>8. ASSUME NEW n \in 1 .. Len(s)
        PROVE  n = 1 \/ n = 2 \/ (n \in 3 .. Len(frames[p]) + 1 /\ n - 1 \in 1 .. Len(frames[p]))
    BY <1>6, <2>6
  <2>9. \A n \in 1 .. Len(s) : FrameOK(s[n]) BY <1>6, <2>2, <2>4, <2>6, <2>8
  <2>10. s[Len(s)].dir = frames[p][Len(frames[p])].dir
    <3>1. Len(s) = 2 \/ Len(s) \in 3 .. Len(frames[p]) + 1 BY <1>6, <2>6
    <3> QED BY <1>6, <2>3, <2>6, <3>1
  <2>11. p \in Workers => \A n \in 1 .. Len(s) : s[n].pc # "skip"
    <3>1. p \in Workers => f.pc # "skip" BY <1>6
    <3> QED BY <1>6, <2>2, <2>3, <2>6, <2>8, <3>1
  <2> QED BY <1>3, <2>6, <2>7, <2>9, <2>10, <2>11, CallKeeps
<1>8. CASE ~X!There(d)
  <2>1. PICK l : l = IF f.list = Nil THEN Nil ELSE [f.list EXCEPT !.folders = @ \ {d}] OBVIOUS
  <2>2. PICK a : a = [f EXCEPT !.todo = @ \ {d}, !.list = l] OBVIOUS
  <2>3. /\ l \in Listings \cup {Nil}
        /\ f.list \in Listings => l \in Listings /\ l.file = f.list.file /\ l.folders = f.list.folders \ {d}
    BY <1>4, <2>1, Given DEF Frames, Listings
  <2>4. a \in Frames /\ a.dir = f.dir /\ a.pc = f.pc /\ a.cur = f.cur /\ a.list = l /\ a.todo = f.todo \ {d}
    BY <1>4, <2>2, <2>3 DEF Frames
  <2>5. FrameOK(a)
    <3> SUFFICES ASSUME f.pc = "list"
                 PROVE  l \in Listings /\ a.todo \subseteq l.folders
                        /\ (a.cur /\ X!There(a.dir) => Matches(l, a.dir))
      BY <2>4 DEF FrameOK
    <3>1. f.list \in Listings /\ f.todo \subseteq f.list.folders BY <1>4 DEF FrameOK
    <3>2. f.cur /\ X!There(f.dir) => Matches(f.list, f.dir) BY <1>4 DEF FrameOK
    <3>3. \A e : d \notin X!Inside(e) BY <1>8 DEF X!Inside
    <3>4. Matches(f.list, f.dir) => Matches(l, f.dir) BY <2>3, <3>1, <3>3 DEF Matches
    <3> QED BY <2>3, <2>4, <3>1, <3>2, <3>4
  <2>6. PICK s : s = <<a>> \o Tail(frames[p]) OBVIOUS
  <2>7. /\ s \in Seq(Frames) /\ Len(s) = Len(frames[p]) /\ s[1] = a
        /\ \A n \in 2 .. Len(s) : s[n] = frames[p][n]
    BY <1>6, <2>4, <2>6, Replaces
  <2>8. s # << >> /\ frames' = [frames EXCEPT ![p] = s]
    <3>1. s # << >> BY <1>6, <2>7
    <3>2. frames' = [frames EXCEPT ![p] = <<a>> \o Tail(frames[p])] BY <1>2, <1>8, <2>1, <2>2
    <3> QED BY <2>6, <3>1, <3>2
  <2>9. \A n \in 1 .. Len(s) : n = 1 \/ (n \in 2 .. Len(s) /\ n \in 1 .. Len(frames[p])) BY <1>6, <2>7
  <2>10. \A n \in 1 .. Len(s) : FrameOK(s[n]) BY <1>6, <2>5, <2>7, <2>9
  <2>11. s[Len(s)].dir = frames[p][Len(frames[p])].dir
    <3>1. Len(s) = 1 \/ Len(s) \in 2 .. Len(s)
      <4>1. \A k \in Nat \ {0} : k = 1 \/ k \in 2 .. k OBVIOUS
      <4>2. Len(s) \in Nat \ {0} BY <1>6, <2>7
      <4> QED BY <4>1, <4>2
    <3> QED BY <1>6, <2>4, <2>7, <3>1
  <2>12. p \in Workers => \A n \in 1 .. Len(s) : s[n].pc # "skip"
    <3>1. p \in Workers => f.pc # "skip" BY <1>6
    <3> QED BY <1>6, <2>4, <2>7, <2>9, <3>1
  <2> QED BY <1>3, <2>7, <2>8, <2>10, <2>11, <2>12, CallKeeps
<1> QED BY <1>7, <1>8

\* An index without the entries of gone, where the directory above d does not list it.
Taken(new, d, gone) ==
  /\ new \in [X!Directories -> Entries \cup {Nil}]
  /\ \A e \in X!Directories : (idx[e] # Nil /\ e \notin gone) => new[e] # Nil
  /\ \A e \in X!Directories : new[e] # Nil =>
       /\ idx[e] # Nil /\ e \notin gone /\ new[e].cur = idx[e].cur /\ new[e].file = idx[e].file
       /\ new[e].folders = IF e = Parent[d] THEN idx[e].folders \ {d} ELSE idx[e].folders
       /\ new[e].lost = IF e = Parent[d] /\ X!There(d) /\ d \in idx[e].folders THEN "late" ELSE idx[e].lost

(* Entries that are taken out of the index, and what lists them, are entries still.     *)
LEMMA UnlistedIs ==
  ASSUME IndexTypes, NEW d, NEW gone
  PROVE  Taken(X!Unlisted(d, gone), d, gone)
<1> DEFINE new == X!Unlisted(d, gone)
<1> DEFINE mark(e) == IF X!There(d) /\ d \in idx[e].folders THEN "late" ELSE idx[e].lost
<1> DEFINE less(e) == [idx[e] EXCEPT !.folders = @ \ {d}, !.lost = mark(e)]
<1>1. ASSUME NEW e \in X!Directories, idx[e] # Nil
      PROVE  /\ less(e) \in Entries /\ less(e).cur = idx[e].cur /\ less(e).file = idx[e].file
             /\ less(e).folders = idx[e].folders \ {d} /\ less(e).lost = mark(e)
  <2>1. idx[e] \in Entries BY <1>1 DEF IndexTypes
  <2>2. PICK m : m = mark(e) OBVIOUS
  <2>3. m \in {"no", "late", "back"} BY <2>1, <2>2 DEF Entries
  <2>4. less(e) = [idx[e] EXCEPT !.folders = @ \ {d}, !.lost = m] BY <2>2
  <2> HIDE DEF less, mark
  <2> QED BY <2>1, <2>2, <2>3, <2>4 DEF Entries
<1>2. ASSUME NEW e \in X!Directories
      PROVE  new[e] = IF e \in gone THEN Nil
                      ELSE IF idx[e] # Nil /\ e = Parent[d] THEN less(e) ELSE idx[e]
  BY DEF X!Unlisted
<1>3. new = [e \in X!Directories |-> new[e]] BY DEF X!Unlisted
<1>4. \A e \in X!Directories : idx[e] \in Entries \cup {Nil} BY DEF IndexTypes
<1> HIDE DEF new, less
<1>5. \A e \in X!Directories : new[e] \in Entries \cup {Nil} BY <1>1, <1>2, <1>4
<1>6. new \in [X!Directories -> Entries \cup {Nil}] BY <1>3, <1>5
<1>7. ASSUME NEW e \in X!Directories, new[e] # Nil
      PROVE  /\ idx[e] # Nil /\ e \notin gone /\ new[e].cur = idx[e].cur /\ new[e].file = idx[e].file
             /\ new[e].folders = IF e = Parent[d] THEN idx[e].folders \ {d} ELSE idx[e].folders
             /\ new[e].lost = IF e = Parent[d] /\ X!There(d) /\ d \in idx[e].folders THEN "late" ELSE idx[e].lost
  <2>1. e \notin gone /\ idx[e] # Nil BY <1>2, <1>7
  <2>2. CASE e = Parent[d]
    <3>1. new[e] = less(e) BY <1>2, <2>1, <2>2
    <3> QED BY <1>1, <2>1, <2>2, <3>1
  <2>3. CASE e # Parent[d] BY <1>2, <2>1, <2>3
  <2> QED BY <2>2, <2>3
<1>8. ASSUME NEW e \in X!Directories, idx[e] # Nil, e \notin gone PROVE new[e] # Nil
  <2>1. new[e] \in Entries
    <3>1. idx[e] \in Entries BY <1>4, <1>8
    <3> QED BY <1>1, <1>2, <1>8, <3>1
  <2> QED BY <2>1, Given
<1>9. Taken(new, d, gone) BY <1>6, <1>7, <1>8 DEF Taken
<1> QED BY <1>9 DEF new

(* Only one request has changed, and no call is under way in it.                     *)
LEMMA JobsAre ==
  ASSUME Knows, UNCHANGED <<tree, frames, plan>>, NEW w \in Workers, NEW j \in Jobs,
         job' = [job EXCEPT ![w] = j], j.pc # "unlist", frames[w] = << >>,
         idx' \in [X!Directories -> Entries \cup {Nil}], \A d \in Excluded : idx'[d] = Nil,
         \A d \in X!Directories : EntryOK(d)', HeldTell'
  PROVE  Knows'
<1>1. /\ job' \in [Workers -> Jobs] /\ job'[w] = j
      /\ \A v \in Workers \ {w} : job'[v] = job[v]
  BY DEF Knows, IndexTypes
<1>2. IndexTypes' BY <1>1 DEF Knows, IndexTypes, X!There
<1>3. FramesTell'
  <2>1. ASSUME NEW p \in X!Procs, NEW n \in 1 .. Len(frames[p]) PROVE FrameOK(frames[p][n])'
    <3>1. PICK f : f = frames[p][n] OBVIOUS
    <3>2. FrameOK(f)' BY <3>1, FrameStays DEF Knows, FramesTell
    <3>3. frames'[p][n] = f BY <3>1
    <3> QED BY <3>2, <3>3
  <2> QED BY <2>1 DEF FramesTell
<1>4. ASSUME NEW v \in Workers PROVE JobOK(v)'
  <2>1. JobOK(v) BY DEF Knows, JobsTell
  <2>2. CASE v = w BY <1>1, <2>2 DEF JobOK
  <2>3. CASE v # w BY <1>1, <2>1, <2>3, JobStays
  <2> QED BY <2>2, <2>3
<1> QED BY <1>2, <1>3, <1>4 DEF Knows, JobsTell, EntriesTell

(* Who is not reading has no call under way.                                        *)
LEMMA NoCall == ASSUME Knows, NEW w \in Workers, job[w].pc # "index" PROVE frames[w] = << >>
BY DEF Knows, JobsTell, JobOK

(* DeleteMetadata: the request has still to refresh what it has taken something from.     *)
LEMMA UnlistKeeps ==
  ASSUME Knows, NEW w \in Workers, X!Unlist(w)
  PROVE  Knows'
<1>1. PICK u : u = job[w].unlist OBVIOUS
<1>2. /\ job[w].pc = "unlist" /\ UNCHANGED <<tree, frames, plan>>
      /\ idx' = IF ~u.file THEN X!Unlisted(u.dir, X!Within(u.dir))
                ELSE IF idx[u.dir] = Nil \/ idx[u.dir].file = 0 THEN idx
                ELSE [idx EXCEPT ![u.dir].file = 0,
                                 ![u.dir].lost = IF tree[u.dir] \in Sizes THEN "late" ELSE @]
      /\ X!Detach(IF u.file THEN {} ELSE X!Within(u.dir))
      /\ job' = [job EXCEPT ![w].pc = "refresh", ![w].unlist = Nil]
  BY <1>1 DEF X!Unlist
<1>3. job[w] \in Jobs /\ IndexTypes BY DEF Knows, IndexTypes
<1>4. PICK j : j = [job[w] EXCEPT !.pc = "refresh", !.unlist = Nil] OBVIOUS
<1>5. j \in Jobs /\ j.pc = "refresh" /\ j.left = job[w].left BY <1>3, <1>4 DEF Jobs
<1>6. job' = [job EXCEPT ![w] = j] BY <1>2, <1>3, <1>4 DEF IndexTypes, Jobs
<1>7. /\ u \in Removals /\ (u.file \/ u.dir # Root)
      /\ \E r \in job[w].left : r.dir = IF u.file THEN u.dir ELSE Parent[u.dir]
  BY <1>1, <1>2 DEF Knows, JobsTell, JobOK
<1> DEFINE hit == IF u.file THEN u.dir ELSE Parent[u.dir]
<1>8. /\ idx' \in [X!Directories -> Entries \cup {Nil}]
      /\ \A e \in X!Directories \ (IF u.file THEN {} ELSE X!Within(u.dir)) : idx[e] # Nil => idx'[e] # Nil
      /\ \A e \in X!Directories : idx'[e] # Nil =>
           /\ idx[e] # Nil /\ idx'[e].cur = idx[e].cur
           /\ \/ /\ idx'[e].file = idx[e].file /\ idx'[e].folders = idx[e].folders
                 /\ idx'[e].lost = idx[e].lost
              \/ e = hit /\ idx'[e].lost = "late"
              \/ /\ e = hit /\ idx'[e].lost = idx[e].lost
                 /\ X!There(e) /\ Matches(idx[e], e) => Matches(idx'[e], e)
  <2>1. CASE u.file /\ idx[u.dir] # Nil /\ idx[u.dir].file # 0
    <3>1. PICK m : m = IF tree[u.dir] \in Sizes THEN "late" ELSE idx[u.dir].lost OBVIOUS
    <3>2. idx[u.dir] \in Entries /\ u.dir \in X!Directories BY <1>3, <1>7, <2>1 DEF IndexTypes, Removals
    <3>3. PICK n : n = [idx[u.dir] EXCEPT !.file = 0, !.lost = m] OBVIOUS
    <3>4. m \in {"no", "late", "back"} BY <3>1, <3>2 DEF Entries
    <3>5. /\ n \in Entries /\ n.cur = idx[u.dir].cur /\ n.file = 0 /\ n.lost = m
          /\ n.folders = idx[u.dir].folders
      BY <3>2, <3>3, <3>4 DEF Entries, Lengths
    <3>6. idx \in [X!Directories -> Entries \cup {Nil}] BY <1>3 DEF IndexTypes
    <3>7. idx' = [idx EXCEPT ![u.dir] = n] BY <1>2, <2>1, <3>1, <3>2, <3>3, <3>6 DEF Entries
    <3>8. idx' \in [X!Directories -> Entries \cup {Nil}] BY <3>5, <3>6, <3>7
    <3>9. \A e \in X!Directories : idx'[e] = IF e = u.dir THEN n ELSE idx[e] BY <3>6, <3>7
    <3>10. n # Nil BY <3>5, Given
    <3>11. m = "late" \/ (m = idx[u.dir].lost /\ (X!There(u.dir) => tree[u.dir] = 0))
      <4>1. tree[u.dir] \in Lengths \cup {Nil} BY <1>3, <3>2 DEF IndexTypes
      <4> QED BY <3>1, <4>1 DEF Lengths, X!There
    <3>12. X!There(u.dir) /\ Matches(idx[u.dir], u.dir) /\ tree[u.dir] = 0 => Matches(n, u.dir)
      BY <3>5 DEF Matches
    <3>13. ASSUME NEW e \in X!Directories, idx'[e] # Nil, e = u.dir
           PROVE  /\ idx[e] # Nil /\ idx'[e].cur = idx[e].cur
                  /\ \/ e = hit /\ idx'[e].lost = "late"
                     \/ /\ e = hit /\ idx'[e].lost = idx[e].lost
                        /\ X!There(e) /\ Matches(idx[e], e) => Matches(idx'[e], e)
      <4>1. idx'[e] = n /\ e = hit BY <2>1, <3>9, <3>13
      <4> QED BY <2>1, <3>5, <3>11, <3>12, <3>13, <4>1
    <3> QED BY <3>8, <3>9, <3>10, <3>13
  <2>2. CASE u.file /\ (idx[u.dir] = Nil \/ idx[u.dir].file = 0) BY <1>2, <1>3, <2>2 DEF IndexTypes
  <2>3. CASE ~u.file
    <3>1. idx' = X!Unlisted(u.dir, X!Within(u.dir)) BY <1>2, <2>3
    <3>2. Taken(idx', u.dir, X!Within(u.dir)) BY <1>3, <3>1, UnlistedIs
    <3>3. ASSUME NEW e \in X!Directories, idx'[e] # Nil, e = Parent[u.dir], idx'[e].lost # "late"
          PROVE  idx'[e].lost = idx[e].lost /\ (Matches(idx[e], e) => Matches(idx'[e], e))
      <4>1. /\ idx'[e].file = idx[e].file /\ idx'[e].folders = idx[e].folders \ {u.dir}
            /\ idx'[e].lost = idx[e].lost /\ (X!There(u.dir) => u.dir \notin idx[e].folders)
        BY <3>2, <3>3 DEF Taken
      <4>2. ASSUME Matches(idx[e], e) PROVE u.dir \notin idx[e].folders
        BY <4>1, <4>2 DEF Matches, X!Inside
      <4> QED BY <4>1, <4>2 DEF Matches
    <3>4. ASSUME NEW e \in X!Directories, idx'[e] # Nil
          PROVE  /\ idx[e] # Nil /\ idx'[e].cur = idx[e].cur
                 /\ e # Parent[u.dir] => /\ idx'[e].file = idx[e].file /\ idx'[e].folders = idx[e].folders
                                         /\ idx'[e].lost = idx[e].lost
      BY <3>2, <3>4 DEF Taken
    <3>5. \A e \in X!Directories \ X!Within(u.dir) : idx[e] # Nil => idx'[e] # Nil BY <3>2 DEF Taken
    <3>6. idx' \in [X!Directories -> Entries \cup {Nil}] BY <3>2 DEF Taken
    <3> QED BY <2>3, <3>3, <3>4, <3>5, <3>6
  <2> QED BY <2>1, <2>2, <2>3
<1>9. \A d \in Excluded : idx'[d] = Nil BY <1>3, <1>8, Given DEF IndexTypes
<1>10. ASSUME NEW d \in X!Directories PROVE EntryOK(d)'
  <2>1. ASSUME NEW v \in Workers, Unsettled(v, d) PROVE Unsettled(v, d)'
    <3>1. CASE v = w BY <1>2, <1>3, <1>5, <1>6, <2>1, <3>1 DEF Unsettled, IndexTypes
    <3>2. CASE v # w BY <1>2, <1>3, <1>6, <2>1, <3>2 DEF Unsettled, IndexTypes
    <3> QED BY <3>1, <3>2
  <2>2. ASSUME d = hit PROVE Unsettled(w, d)'
    <3>1. job'[w] = j BY <1>3, <1>6 DEF IndexTypes
    <3>2. \E r \in j.left : r.dir = d BY <1>5, <1>7, <2>2
    <3>3. j.pc # "idle" BY <1>5
    <3> QED BY <3>1, <3>2, <3>3 DEF Unsettled
  <2>3. CASE idx'[d] # Nil => /\ idx[d] # Nil /\ (idx'[d].cur => idx[d].cur)
                              /\ idx'[d].file = idx[d].file /\ idx'[d].folders = idx[d].folders
                              /\ idx'[d].lost = idx[d].lost
    BY <1>2, <2>1, <2>3, EntryStays DEF Knows, EntriesTell
  <2>4. CASE d = hit /\ idx'[d].lost = "late" BY <2>2, <2>4 DEF EntryOK
  <2>5. CASE /\ idx'[d] # Nil /\ idx[d] # Nil /\ idx'[d].cur = idx[d].cur /\ d = hit
             /\ idx'[d].lost = idx[d].lost /\ (X!There(d) /\ Matches(idx[d], d) => Matches(idx'[d], d))
    <3>1. PICK e : e = idx'[d] OBVIOUS
    <3>2. EntryOK(d) BY DEF Knows, EntriesTell
    <3>3. (e.cur /\ X!There(d) /\ e.lost # "back" /\ e.lost # "late") => Matches(e, d)
      BY <2>5, <3>1, <3>2 DEF EntryOK
    <3>4. X!There(d)' = X!There(d) /\ Matches(e, d)' = Matches(e, d)
      BY <1>2 DEF Matches, X!There, X!Inside
    <3>5. (e.cur /\ X!There(d)' /\ e.lost # "back" /\ e.lost # "late") => Matches(e, d)' BY <3>3, <3>4
    <3> QED BY <2>2, <2>5, <3>1, <3>5 DEF EntryOK
  <2> QED BY <1>8, <2>3, <2>4, <2>5
<1>11. frames[w] = << >> BY <1>2, NoCall
<1>12. j.pc # "unlist" BY <1>5
<1>13. HeldTell'
  <2>1. job' = [job EXCEPT ![w] = j] /\ job \in [Workers -> Jobs] BY <1>3, <1>6 DEF IndexTypes
  <2>2. ASSUME NEW v \in Workers
        PROVE  /\ job'[v].pc = "put" <=> job[v].pc = "put"
               /\ job[v].pc = "put" => job'[v].dir = job[v].dir
    BY <1>2, <1>5, <2>1
  <2> QED BY <1>2, <1>8, <2>2, HeldKept DEF Knows
<1> QED BY <1>2, <1>5, <1>6, <1>8, <1>9, <1>10, <1>11, <1>12, <1>13, JobsAre

(* A directory is refreshed, or it is gone: then there is nothing for the index to tell.   *)
LEMMA RefreshKeeps ==
  ASSUME Knows, NEW w \in Workers, X!Refresh(w)
  PROVE  Knows'
<1>1. job[w].pc = "refresh" /\ UNCHANGED <<tree, plan>> BY DEF X!Refresh
<1>2. PICK r \in job[w].left :
        IF X!There(r.dir) /\ r.dir \notin Excluded
        THEN /\ job' = [job EXCEPT ![w] = [[job[w] EXCEPT !.left = @ \ {r}] EXCEPT
                          !.pc = "index", !.dir = r.dir, !.rec = r.rec, !.prev = X!SizeOf(r.dir)]]
             /\ frames' = [frames EXCEPT ![w] =
                  <<[dir |-> r.dir, cur |-> TRUE, pc |-> "read", list |-> Nil, todo |-> {}]>>]
             /\ UNCHANGED <<idx, old>>
        ELSE /\ job' = [job EXCEPT ![w] = [job[w] EXCEPT !.left = @ \ {r}]]
             /\ IF r.drop /\ ~X!There(r.dir) THEN idx' = X!Unlisted(r.dir, {r.dir}) /\ X!Detach({r.dir})
                ELSE UNCHANGED <<idx, old>>
             /\ UNCHANGED frames
  BY DEF X!Refresh
<1>3. /\ job[w] \in Jobs /\ IndexTypes /\ job \in [Workers -> Jobs] /\ r \in Refreshes
      /\ r.dir \in X!Directories /\ r.rec \in BOOLEAN
  BY DEF Knows, IndexTypes, Jobs, Refreshes
<1>4. frames[w] = << >> /\ w \in X!Procs BY <1>1, NoCall, Given
<1>5. CASE X!There(r.dir) /\ r.dir \notin Excluded
  <2>1. PICK size : size = X!SizeOf(r.dir) OBVIOUS
  <2>2. size \in Int BY <1>3, <2>1 DEF X!SizeOf, IndexTypes, Entries
  <2>3. PICK j : j = [[job[w] EXCEPT !.left = @ \ {r}] EXCEPT
                        !.pc = "index", !.dir = r.dir, !.rec = r.rec, !.prev = size]
    OBVIOUS
  <2>4. j \in Jobs /\ j.pc = "index" /\ j.dir = r.dir /\ j.left = job[w].left \ {r}
    BY <1>3, <2>2, <2>3 DEF Jobs
  <2>5. job' = [job EXCEPT ![w] = j] /\ idx' = idx /\ old' = old BY <1>2, <1>5, <2>1, <2>3
  <2>6. PICK f : f = [dir |-> r.dir, cur |-> TRUE, pc |-> "read", list |-> Nil, todo |-> {}] OBVIOUS
  <2>7. f \in Frames /\ f.dir = r.dir /\ f.pc = "read" BY <1>3, <1>5, <2>6 DEF Frames, Indexed
  <2>8. FrameOK(f) BY <2>7 DEF FrameOK
  <2>9. PICK s : s = <<f>> OBVIOUS
  <2>10. s \in Seq(Frames) /\ Len(s) = 1 /\ s[1] = f /\ s # << >> BY <2>7, <2>9
  <2>11. frames' = [frames EXCEPT ![w] = s] BY <1>2, <1>5, <2>6, <2>9
  <2>12. \A n \in 1 .. Len(s) : FrameOK(s[n]) BY <2>8, <2>10
  <2>13. /\ frames' \in [X!Procs -> Seq(Frames)] /\ FramesTell'
         /\ frames'[w] = s /\ \A q \in X!Procs \ {w} : frames'[q] = frames[q]
    BY <1>1, <1>3, <1>4, <2>10, <2>11, <2>12, FramesAre DEF Knows
  <2>14. job' \in [Workers -> Jobs] /\ job'[w] = j /\ \A v \in Workers \ {w} : job'[v] = job[v]
    BY <1>3, <2>4, <2>5
  <2>15. IndexTypes' BY <1>1, <1>3, <2>5, <2>13, <2>14 DEF IndexTypes, X!There
  <2>16. ASSUME NEW v \in Workers PROVE JobOK(v)'
    <3>1. CASE v = w BY <2>4, <2>7, <2>10, <2>13, <2>14, <3>1 DEF JobOK
    <3>2. CASE v # w
      <4>1. JobOK(v) /\ v \in X!Procs \ {w} BY <3>2, Given DEF Knows, JobsTell
      <4> QED BY <2>13, <2>14, <3>2, <4>1, JobStays
    <3> QED BY <3>1, <3>2
  <2>17. ASSUME NEW d \in X!Directories PROVE EntryOK(d)'
    <3>1. ASSUME NEW v \in Workers, Unsettled(v, d) PROVE Unsettled(v, d)'
      <4>1. CASE v = w
        <5>1. \E r2 \in job[w].left : r2.dir = d BY <1>1, <3>1, <4>1 DEF Unsettled
        <5>2. d = r.dir \/ \E r2 \in j.left : r2.dir = d BY <2>4, <5>1
        <5> QED BY <2>4, <2>10, <2>13, <2>14, <4>1, <5>2 DEF Unsettled
      <4>2. CASE v # w
        <5>1. v \in X!Procs \ {w} BY <4>2, Given
        <5> QED BY <2>13, <2>14, <3>1, <4>2, <5>1 DEF Unsettled
      <4> QED BY <4>1, <4>2
    <3> QED BY <1>1, <2>5, <3>1, EntryStays DEF Knows, EntriesTell
  <2>18. HeldTell'
    <3>1. ASSUME NEW v \in Workers
          PROVE  /\ job'[v].pc = "put" <=> job[v].pc = "put"
                 /\ job[v].pc = "put" => job'[v].dir = job[v].dir
      BY <1>1, <2>4, <2>14
    <3> QED BY <1>1, <2>5, <3>1, HeldStays DEF Knows
  <2> QED BY <2>13, <2>15, <2>16, <2>17, <2>18 DEF Knows, JobsTell, EntriesTell
<1>6. CASE ~(X!There(r.dir) /\ r.dir \notin Excluded)
  <2>1. PICK j : j = [job[w] EXCEPT !.left = @ \ {r}] OBVIOUS
  <2>2. j \in Jobs /\ j.pc = "refresh" /\ j.left = job[w].left \ {r}
    BY <1>1, <1>3, <2>1 DEF Jobs
  <2>3. /\ job' = [job EXCEPT ![w] = j] /\ frames' = frames
        /\ IF r.drop /\ ~X!There(r.dir) THEN idx' = X!Unlisted(r.dir, {r.dir}) /\ X!Detach({r.dir})
           ELSE UNCHANGED <<idx, old>>
    BY <1>2, <1>6, <2>1
  <2>4. job'[w] = j /\ \A v \in Workers \ {w} : job'[v] = job[v] BY <1>3, <2>2, <2>3
  <2>5. (idx' = idx /\ old' = old) \/ (~X!There(r.dir) /\ Taken(idx', r.dir, {r.dir}) /\ X!Detach({r.dir}))
    BY <1>3, <2>3, UnlistedIs
  <2>6. /\ idx' \in [X!Directories -> Entries \cup {Nil}]
        /\ \A d \in X!Directories : idx'[d] # Nil => idx[d] # Nil
    BY <1>3, <2>5 DEF Taken, IndexTypes
  <2>7. \A d \in Excluded : idx'[d] = Nil BY <1>3, <2>6, Given DEF IndexTypes
  <2>8. ASSUME NEW d \in X!Directories PROVE EntryOK(d)'
    <3> SUFFICES ASSUME idx'[d] # Nil, idx'[d].cur, X!There(d), idx'[d].lost # "back",
                        idx'[d].lost = "late" => \A v \in Workers : ~Unsettled(v, d)'
                 PROVE  (idx'[d].file # 0) = (tree[d] # 0) /\ idx'[d].folders = X!Inside(d) \ Excluded
      BY <1>1 DEF EntryOK, Matches, X!There, X!Inside
    <3>1. idx[d] # Nil /\ d \notin Excluded BY <1>3, <2>6 DEF IndexTypes
    <3>2. d # r.dir BY <1>6, <3>1
    <3>3. ASSUME idx'[d].lost = "late", NEW v \in Workers PROVE ~Unsettled(v, d)
      <4>1. CASE v = w
        <5>1. ~\E r2 \in j.left : r2.dir = d BY <2>2, <2>4, <3>3, <4>1 DEF Unsettled
        <5>2. ~\E r2 \in job[w].left : r2.dir = d BY <2>2, <3>2, <5>1
        <5> QED BY <1>1, <4>1, <5>2 DEF Unsettled
      <4>2. CASE v # w BY <2>3, <2>4, <3>3, <4>2 DEF Unsettled
      <4> QED BY <4>1, <4>2
    <3>4. CASE idx' = idx BY <3>1, <3>3, <3>4 DEF Knows, EntriesTell, EntryOK, Matches
    <3>5. CASE ~X!There(r.dir) /\ Taken(idx', r.dir, {r.dir})
      <4>1. /\ idx[d].cur /\ idx'[d].file = idx[d].file /\ idx'[d].lost = idx[d].lost
            /\ idx'[d].folders = idx[d].folders \/ idx'[d].folders = idx[d].folders \ {r.dir}
        BY <3>5 DEF Taken
      <4>2. Matches(idx[d], d) BY <3>1, <3>3, <4>1 DEF Knows, EntriesTell, EntryOK
      <4>3. r.dir \notin X!Inside(d) BY <3>5 DEF X!Inside
      <4> QED BY <4>1, <4>2, <4>3 DEF Matches
    <3> QED BY <2>5, <3>4, <3>5
  <2>9. j.pc # "unlist" BY <2>2
  <2>10. HeldTell'
    <3>1. ASSUME NEW v \in Workers
          PROVE  /\ job'[v].pc = "put" <=> job[v].pc = "put"
                 /\ job[v].pc = "put" => job'[v].dir = job[v].dir
      BY <1>1, <2>2, <2>4
    <3>2. CASE idx' = idx /\ old' = old BY <1>1, <3>1, <3>2, HeldStays DEF Knows
    <3>3. CASE Taken(idx', r.dir, {r.dir}) /\ X!Detach({r.dir})
      <4>1. \A e \in X!Directories \ {r.dir} : idx[e] # Nil => idx'[e] # Nil BY <3>3 DEF Taken
      <4> QED BY <1>1, <3>1, <3>3, <4>1, HeldKept DEF Knows
    <3> QED BY <2>5, <3>2, <3>3
  <2> QED BY <1>1, <1>4, <2>2, <2>3, <2>6, <2>7, <2>8, <2>9, <2>10, JobsAre
<1> QED BY <1>5, <1>6

(* A request at the next refresh.                                                *)
LEMMA AgainIs ==
  ASSUME NEW i \in Jobs
  PROVE  X!Again(i) \in Jobs /\ X!Again(i).pc = "refresh" /\ X!Again(i).left = i.left
<1>1. X!Idle \in Jobs
  <2>1. Root \in X!Directories BY Given
  <2> QED BY <2>1 DEF Jobs, X!Idle
<1>2. i.left \in SUBSET Refreshes BY DEF Jobs
<1> QED BY <1>1, <1>2 DEF X!Again, Jobs

(* A directory has been refreshed.                                                  *)
LEMMA RefreshedKeeps ==
  ASSUME Knows, NEW w \in Workers, X!Refreshed(w)
  PROVE  Knows'
<1>1. /\ job[w].pc = "index" /\ frames[w] = << >> /\ UNCHANGED <<tree, idx, frames, old, plan>>
      /\ IF idx[job[w].dir] = Nil \/ X!SizeOf(job[w].dir) = job[w].prev
         THEN job' = [job EXCEPT ![w] = X!Again(@)]
         ELSE job' = [job EXCEPT ![w].pc = "grow", ![w].delta = idx[job[w].dir].size - job[w].prev]
  BY DEF X!Refreshed, X!Busy
<1>2. job \in [Workers -> Jobs] /\ job[w] \in Jobs /\ job[w].dir \in X!Directories /\ job[w].prev \in Int
      /\ job[w].left \in SUBSET Refreshes
  BY DEF Knows, IndexTypes, Jobs
<1>3. PICK j \in Jobs : /\ job' = [job EXCEPT ![w] = j] /\ j.pc \in {"refresh", "grow"}
                        /\ j.left = job[w].left
  <2>1. CASE idx[job[w].dir] = Nil \/ X!SizeOf(job[w].dir) = job[w].prev
    <3>1. PICK j : j = X!Again(job[w]) OBVIOUS
    <3>2. j \in Jobs /\ j.pc = "refresh" /\ j.left = job[w].left BY <1>2, <3>1, AgainIs
    <3>3. job' = [job EXCEPT ![w] = j] BY <1>1, <2>1, <3>1
    <3> QED BY <3>2, <3>3
  <2>2. CASE ~(idx[job[w].dir] = Nil \/ X!SizeOf(job[w].dir) = job[w].prev)
    <3>1. PICK n : n = idx[job[w].dir].size - job[w].prev OBVIOUS
    <3>2. idx[job[w].dir] \in Entries BY <1>2, <2>2 DEF Knows, IndexTypes
    <3>3. n \in Int BY <1>2, <3>1, <3>2 DEF Entries
    <3>4. PICK j : j = [job[w] EXCEPT !.pc = "grow", !.delta = n] OBVIOUS
    <3>5. j \in Jobs /\ j.pc = "grow" /\ j.left = job[w].left BY <1>2, <3>3, <3>4 DEF Jobs
    <3>6. job' = [job EXCEPT ![w] = j] BY <1>1, <1>2, <2>2, <3>1, <3>4 DEF Jobs
    <3> QED BY <3>5, <3>6
  <2> QED BY <2>1, <2>2
<1>4. idx' \in [X!Directories -> Entries \cup {Nil}] /\ \A d \in Excluded : idx'[d] = Nil
  BY <1>1 DEF Knows, IndexTypes
<1>5. ASSUME NEW d \in X!Directories PROVE EntryOK(d)'
  <2>1. ASSUME NEW v \in Workers, Unsettled(v, d) PROVE Unsettled(v, d)'
    <3>1. job'[w] = j /\ (v # w => job'[v] = job[v]) BY <1>2, <1>3
    <3>2. CASE v = w
      <4>1. \E r \in job[w].left : r.dir = d BY <1>1, <2>1, <3>2 DEF Unsettled
      <4>2. j.pc # "idle" BY <1>3
      <4> QED BY <1>3, <3>1, <3>2, <4>1, <4>2 DEF Unsettled
    <3>3. CASE v # w BY <1>1, <2>1, <3>1, <3>3 DEF Unsettled
    <3> QED BY <3>2, <3>3
  <2> QED BY <1>1, <2>1, EntryStays DEF Knows, EntriesTell
<1>6. j.pc # "unlist" BY <1>3
<1>7. HeldTell'
  <2>1. ASSUME NEW v \in Workers
        PROVE  /\ job'[v].pc = "put" <=> job[v].pc = "put"
               /\ job[v].pc = "put" => job'[v].dir = job[v].dir
    BY <1>1, <1>2, <1>3
  <2> QED BY <1>1, <2>1, HeldStays DEF Knows
<1> QED BY <1>1, <1>3, <1>4, <1>5, <1>6, <1>7, JobsAre

(* The sizes of the directories above grow.                                          *)
LEMMA GrowKeeps ==
  ASSUME Knows, NEW w \in Workers, X!Grow(w)
  PROVE  Knows'
<1>1. PICK d : d = job[w].dir OBVIOUS
<1>2. /\ job[w].pc = "grow" /\ UNCHANGED <<tree, frames, plan>>
      /\ IF d = Root \/ idx[Parent[d]] = Nil
         THEN job' = [job EXCEPT ![w] = X!Again(@)] /\ UNCHANGED idx
         ELSE /\ idx' = [idx EXCEPT ![Parent[d]].size = @ + job[w].delta]
              /\ job' = [job EXCEPT ![w].pc = "put", ![w].prev = idx[Parent[d]].size]
      /\ UNCHANGED old
  BY <1>1 DEF X!Grow, X!Above
<1>3. /\ job \in [Workers -> Jobs] /\ job[w] \in Jobs /\ d \in X!Directories /\ job[w].delta \in Int
      /\ idx \in [X!Directories -> Entries \cup {Nil}] /\ \A e \in Excluded : idx[e] = Nil
  BY <1>1 DEF Knows, IndexTypes, Jobs
<1>4. PICK j \in Jobs : /\ job' = [job EXCEPT ![w] = j] /\ j.left = job[w].left
                        /\ \/ j.pc = "refresh"
                           \/ j.pc = "put" /\ j.dir = d /\ d # Root /\ idx[Parent[d]] # Nil
  <2>1. CASE d = Root \/ idx[Parent[d]] = Nil
    <3>1. PICK j : j = X!Again(job[w]) OBVIOUS
    <3>2. j \in Jobs /\ j.pc = "refresh" /\ j.left = job[w].left BY <1>3, <3>1, AgainIs
    <3>3. job' = [job EXCEPT ![w] = j] BY <1>2, <2>1, <3>1
    <3> QED BY <3>2, <3>3
  <2>2. CASE ~(d = Root \/ idx[Parent[d]] = Nil)
    <3>1. Parent[d] \in X!Directories BY <1>3, <2>2, Given
    <3>2. PICK n : n = idx[Parent[d]].size OBVIOUS
    <3>3. n \in Int
      <4>1. idx[Parent[d]] \in Entries BY <1>3, <2>2, <3>1
      <4> QED BY <3>2, <4>1 DEF Entries
    <3>4. PICK j : j = [job[w] EXCEPT !.pc = "put", !.prev = n] OBVIOUS
    <3>5. j \in Jobs /\ j.pc = "put" /\ j.left = job[w].left /\ j.dir = d
      BY <1>1, <1>3, <3>3, <3>4 DEF Jobs
    <3>6. job' = [job EXCEPT ![w] = j] BY <1>2, <1>3, <2>2, <3>2, <3>4 DEF Jobs
    <3> QED BY <2>2, <3>5, <3>6
  <2> QED BY <2>1, <2>2
<1>5. /\ idx' \in [X!Directories -> Entries \cup {Nil}]
      /\ \A e \in X!Directories : idx[e] # Nil => idx'[e] # Nil
      /\ \A e \in X!Directories : idx'[e] # Nil =>
           /\ idx[e] # Nil /\ idx'[e].cur = idx[e].cur
           /\ idx'[e].file = idx[e].file /\ idx'[e].folders = idx[e].folders /\ idx'[e].lost = idx[e].lost
  <2>1. CASE idx' = idx BY <1>3, <2>1
  <2>2. CASE ~(d = Root \/ idx[Parent[d]] = Nil)
    <3>1. Parent[d] \in X!Directories BY <1>3, <2>2, Given
    <3>2. PICK e : e = Parent[d] OBVIOUS
    <3>3. idx[e] \in Entries BY <1>3, <2>2, <3>1, <3>2
    <3>4. PICK size : size = idx[e].size + job[w].delta OBVIOUS
    <3>5. size \in Int BY <1>3, <3>3, <3>4 DEF Entries
    <3>6. PICK n : n = [idx[e] EXCEPT !.size = size] OBVIOUS
    <3>7. /\ n \in Entries /\ n.cur = idx[e].cur /\ n.file = idx[e].file /\ n.folders = idx[e].folders
          /\ n.lost = idx[e].lost /\ n # Nil
      BY <3>3, <3>5, <3>6, Given DEF Entries
    <3>8. idx' = [idx EXCEPT ![e] = n] BY <1>2, <2>2, <3>2, <3>4, <3>6
    <3>9. \A b \in X!Directories : idx'[b] = IF b = e THEN n ELSE idx[b] BY <1>3, <3>8
    <3>10. idx' \in [X!Directories -> Entries \cup {Nil}] BY <1>3, <3>7, <3>8
    <3>11. n # Nil => idx[e] # Nil BY <2>2, <3>2
    <3> QED BY <3>7, <3>9, <3>10, <3>11
  <2> QED BY <1>2, <2>1, <2>2
<1>6. \A e \in Excluded : idx'[e] = Nil BY <1>3, <1>5, Given
<1>7. ASSUME NEW e \in X!Directories PROVE EntryOK(e)'
  <2>1. ASSUME NEW v \in Workers, Unsettled(v, e) PROVE Unsettled(v, e)'
    <3>1. job'[w] = j /\ (v # w => job'[v] = job[v]) BY <1>3, <1>4
    <3>2. CASE v = w
      <4>1. \E r \in job[w].left : r.dir = e BY <1>2, <2>1, <3>2 DEF Unsettled
      <4>2. j.pc # "idle" BY <1>4
      <4> QED BY <1>4, <3>1, <3>2, <4>1, <4>2 DEF Unsettled
    <3>3. CASE v # w BY <1>2, <2>1, <3>1, <3>3 DEF Unsettled
    <3> QED BY <3>2, <3>3
  <2>2. idx'[e] # Nil => /\ idx[e] # Nil /\ (idx'[e].cur => idx[e].cur)
                         /\ idx'[e].file = idx[e].file /\ idx'[e].folders = idx[e].folders
                         /\ idx'[e].lost = idx[e].lost
    BY <1>5
  <2> QED BY <1>2, <2>1, <2>2, EntryStays DEF Knows, EntriesTell
<1>8. j.pc # "unlist" /\ frames[w] = << >> BY <1>2, <1>4, NoCall
<1>9. ASSUME NEW v \in Workers PROVE HeldOK(v)'
  <2>1. CASE v # w
    <3>1. job'[v] = job[v] BY <1>3, <1>4, <2>1
    <3>2. old'[v] = X!Kept({})[v] BY <1>2 DEF X!Kept
    <3> QED BY <1>2, <1>5, <3>1, <3>2, HolderKept DEF Knows
  <2>2. CASE v = w
    <3>1. job'[w] = j BY <1>3, <1>4
    <3>2. old'[w] = Nil BY <1>2 DEF Knows, HeldTell, HeldOK
    <3>3. CASE j.pc = "refresh" BY <2>2, <3>1, <3>2, <3>3 DEF HeldOK
    <3>4. CASE j.pc = "put" /\ j.dir = d /\ d # Root /\ idx[Parent[d]] # Nil
      <4>1. X!Above(w)' = Parent[d] /\ Parent[d] \in X!Directories BY <1>3, <3>1, <3>4, Given DEF X!Above
      <4>2. Parent[d] \notin Excluded /\ idx'[Parent[d]] # Nil BY <1>3, <1>5, <3>4, <4>1
      <4> QED BY <2>2, <3>1, <3>2, <3>4, <4>1, <4>2 DEF HeldOK
    <3> QED BY <1>4, <3>3, <3>4
  <2> QED BY <2>1, <2>2
<1>10. HeldTell' BY <1>2, <1>9 DEF Knows, HeldTell
<1> QED BY <1>2, <1>4, <1>5, <1>6, <1>7, <1>8, <1>10, JobsAre

(* An entry is put back: it was right for what it counts as current for.                 *)
LEMMA PutBackKeeps ==
  ASSUME Knows, NEW w \in Workers, X!PutBack(w)
  PROVE  Knows'
<1>1. PICK a, mine : a = X!Above(w) /\ mine = IF old[w] = Nil THEN idx[a] ELSE old[w] OBVIOUS
<1>2. /\ job[w].pc = "put" /\ UNCHANGED <<tree, frames, plan>>
      /\ job' = [job EXCEPT ![w].pc = "grow", ![w].dir = a, ![w].prev = 0, ![w].delta = mine.size - job[w].prev]
      /\ old[w] = Nil => UNCHANGED <<idx, old>>
      /\ old[w] # Nil => idx' = [idx EXCEPT ![a] = [mine EXCEPT !.lost = IF @ = "late" THEN "back" ELSE @]]
      /\ old[w] # Nil => \E same \in SUBSET {v \in Workers \ {w} : old[v] = old[w] /\ X!Above(v) = a} :
                           old' = [v \in Workers |-> IF v \in same \cup {w} THEN Nil ELSE X!Kept({a})[v]]
  <2>1. job[w].pc = "put" /\ UNCHANGED <<tree, frames, plan>> BY DEF X!PutBack
  <2>2. job' = [job EXCEPT ![w].pc = "grow", ![w].dir = a, ![w].prev = 0, ![w].delta = mine.size - job[w].prev]
    BY <1>1, Zenon DEF X!PutBack
  <2>3. old[w] = Nil => UNCHANGED <<idx, old>> BY DEF X!PutBack
  <2>4. old[w] # Nil => idx' = [idx EXCEPT ![a] = [mine EXCEPT !.lost = IF @ = "late" THEN "back" ELSE @]]
    BY <1>1 DEF X!PutBack
  <2>5. old[w] # Nil => \E same \in SUBSET {v \in Workers \ {w} : old[v] = old[w] /\ X!Above(v) = a} :
                         old' = [v \in Workers |-> IF v \in same \cup {w} THEN Nil ELSE X!Kept({a})[v]]
    BY <1>1 DEF X!PutBack
  <2> QED BY <2>1, <2>2, <2>3, <2>4, <2>5
<1>3. /\ job \in [Workers -> Jobs] /\ job[w] \in Jobs /\ job[w].dir \in X!Directories /\ job[w].prev \in Int
      /\ idx \in [X!Directories -> Entries \cup {Nil}] /\ \A e \in Excluded : idx[e] = Nil
  BY DEF Knows, IndexTypes, Jobs
<1>4. /\ job[w].dir # Root /\ a \notin Excluded
      /\ IF old[w] = Nil THEN idx[a] # Nil ELSE Right(old[w], a)
      /\ old[w] \in Entries \cup {Nil}
  BY <1>1, <1>2 DEF Knows, HeldTell, HeldOK
<1>5. a \in X!Directories BY <1>1, <1>3, <1>4, Given DEF X!Above
<1>6. mine \in Entries BY <1>1, <1>3, <1>4, <1>5
<1>7. PICK j \in Jobs : job' = [job EXCEPT ![w] = j] /\ j.left = job[w].left /\ j.pc = "grow"
  <2>1. PICK n : n = mine.size - job[w].prev OBVIOUS
  <2>2. n \in Int BY <1>3, <1>6, <2>1 DEF Entries
  <2>3. PICK j : j = [job[w] EXCEPT !.pc = "grow", !.dir = a, !.prev = 0, !.delta = n] OBVIOUS
  <2>4. 0 \in Int OBVIOUS
  <2>5. j \in Jobs BY <1>3, <1>5, <2>2, <2>3, <2>4 DEF Jobs
  <2>6. j.left = job[w].left /\ j.pc = "grow" BY <1>3, <2>3 DEF Jobs
  <2>7. job' = [job EXCEPT ![w] = j] BY <1>2, <1>3, <2>1, <2>3 DEF Jobs
  <2> QED BY <2>5, <2>6, <2>7
<1>8. job'[w] = j /\ \A v \in Workers \ {w} : job'[v] = job[v] BY <1>3, <1>7
<1>9. PICK back : back = [mine EXCEPT !.lost = IF @ = "late" THEN "back" ELSE @] OBVIOUS
<1>10. /\ back \in Entries /\ back # Nil /\ back.cur = mine.cur /\ back.file = mine.file
       /\ back.folders = mine.folders /\ back.lost # "late" /\ (back.lost # "back" => mine.lost = "no")
  BY <1>6, <1>9, Given DEF Entries
<1>11. idx' = idx \/ (idx' = [idx EXCEPT ![a] = back] /\ old[w] # Nil) BY <1>2, <1>9
<1>12. /\ idx' \in [X!Directories -> Entries \cup {Nil}]
       /\ \A e \in X!Directories : idx[e] # Nil => idx'[e] # Nil
       /\ \A e \in X!Directories \ {a} : idx'[e] = idx[e]
  BY <1>3, <1>10, <1>11
<1>13. \A e \in Excluded : idx'[e] = Nil BY <1>3, <1>4, <1>12, Given
<1>14. ASSUME NEW e \in X!Directories PROVE EntryOK(e)'
  <2>1. ASSUME NEW v \in Workers, Unsettled(v, e) PROVE Unsettled(v, e)'
    <3>1. CASE v = w BY <1>2, <1>7, <1>8, <2>1, <3>1 DEF Unsettled
    <3>2. CASE v # w BY <1>2, <1>8, <2>1, <3>2 DEF Unsettled
    <3> QED BY <3>1, <3>2
  <2>2. CASE idx'[e] = idx[e] BY <1>2, <2>1, <2>2, EntryStays DEF Knows, EntriesTell
  <2>3. CASE idx'[e] # idx[e]
    <3>1. e = a /\ idx'[e] = back /\ mine = old[w] /\ old[w] # Nil BY <1>1, <1>3, <1>5, <1>11, <1>12, <2>3
    <3>2. ASSUME back.cur, X!There(e), back.lost # "back"
          PROVE  (back.file # 0) = (tree[e] # 0) /\ back.folders = X!Inside(e) \ Excluded
      <4>1. Matches(mine, e) BY <1>4, <1>10, <3>1, <3>2 DEF Right
      <4> QED BY <1>10, <4>1 DEF Matches
    <3>3. X!There(e)' = X!There(e) /\ X!Inside(e)' = X!Inside(e) /\ tree' = tree
      BY <1>2 DEF X!There, X!Inside
    <3> QED BY <3>1, <3>2, <3>3 DEF EntryOK, Matches
  <2> QED BY <2>2, <2>3
<1>15. ASSUME NEW v \in Workers PROVE HeldOK(v)' /\ old'[v] \in Entries \cup {Nil}
  <2>1. CASE v = w
    <3>1. old'[w] = Nil BY <1>2
    <3> QED BY <1>7, <1>8, <2>1, <3>1 DEF HeldOK
  <2>2. CASE v # w /\ old'[v] = Nil /\ old[v] # Nil
    <3>1. X!Above(v) = a /\ idx'[a] = back BY <1>2, <1>3, <1>5, <1>9, <2>2 DEF X!Kept
    <3>2. HeldOK(v) BY DEF Knows, HeldTell
    <3>3. job[v].pc = "put" BY <2>2, <3>2 DEF HeldOK
    <3>4. job'[v] = job[v] /\ X!Above(v)' = a BY <1>8, <2>2, <3>1 DEF X!Above
    <3> QED BY <1>4, <1>10, <2>2, <3>1, <3>2, <3>3, <3>4 DEF HeldOK
  <2>3. CASE v # w /\ ~(old'[v] = Nil /\ old[v] # Nil)
    <3>1. job'[v] = job[v] BY <1>8, <2>3
    <3>2. CASE old[w] = Nil
      <4>1. old'[v] = X!Kept({})[v] BY <1>2, <3>2 DEF X!Kept
      <4> QED BY <1>2, <1>12, <3>1, <4>1, HolderKept DEF Knows
    <3>3. CASE old[w] # Nil
      <4>1. old'[v] = X!Kept({a})[v]
        <5>1. PICK same \in SUBSET {u \in Workers \ {w} : old[u] = old[w] /\ X!Above(u) = a} :
                old' = [u \in Workers |-> IF u \in same \cup {w} THEN Nil ELSE X!Kept({a})[u]]
          BY <1>2, <3>3
        <5>2. v \notin same BY <2>3, <3>3, <5>1
        <5> QED BY <2>3, <5>1, <5>2
      <4> QED BY <1>2, <1>12, <3>1, <4>1, HolderKept DEF Knows
    <3> QED BY <3>2, <3>3
  <2> QED BY <2>1, <2>2, <2>3
<1>16. HeldTell'
  <2>1. old' = [v \in Workers |-> old'[v]] BY <1>2 DEF Knows, HeldTell
  <2>2. old' \in [Workers -> Entries \cup {Nil}] BY <1>15, <2>1
  <2> QED BY <1>15, <2>2 DEF HeldTell
<1>17. frames[w] = << >> /\ j.pc # "unlist" BY <1>2, <1>7, NoCall
<1> QED BY <1>2, <1>7, <1>12, <1>13, <1>14, <1>16, <1>17, JobsAre


(* A request is answered that has nothing left to refresh.                             *)
LEMMA AnswerKeeps ==
  ASSUME Knows, NEW w \in Workers, X!Answer(w)
  PROVE  Knows'
<1>1. /\ job[w].pc = "refresh" /\ job[w].left = {} /\ UNCHANGED <<tree, idx, frames, old, plan>>
      /\ job' = [job EXCEPT ![w] = X!Idle]
  BY DEF X!Answer
<1>2. PICK j : j = X!Idle OBVIOUS
<1>3. j \in Jobs /\ j.pc = "idle"
  <2>1. Root \in X!Directories BY Given
  <2> QED BY <1>2, <2>1 DEF Jobs, X!Idle
<1>4. job' = [job EXCEPT ![w] = j] /\ job \in [Workers -> Jobs]
  BY <1>1, <1>2 DEF Knows, IndexTypes
<1>5. idx' \in [X!Directories -> Entries \cup {Nil}] /\ \A d \in Excluded : idx'[d] = Nil
  BY <1>1 DEF Knows, IndexTypes
<1>6. ASSUME NEW d \in X!Directories PROVE EntryOK(d)'
  <2>1. ASSUME NEW v \in Workers, Unsettled(v, d) PROVE Unsettled(v, d)'
    <3>1. v # w BY <1>1, <2>1 DEF Unsettled
    <3>2. job'[v] = job[v] BY <1>4, <3>1
    <3> QED BY <1>1, <2>1, <3>2 DEF Unsettled
  <2> QED BY <1>1, <2>1, EntryStays DEF Knows, EntriesTell
<1>7. frames[w] = << >> BY <1>1, NoCall
<1>8. HeldTell'
  <2>1. ASSUME NEW v \in Workers
        PROVE  /\ job'[v].pc = "put" <=> job[v].pc = "put"
               /\ job[v].pc = "put" => job'[v].dir = job[v].dir
    BY <1>1, <1>3, <1>4
  <2> QED BY <1>1, <2>1, HeldStays DEF Knows
<1>9. j.pc # "unlist" BY <1>3
<1> QED BY <1>1, <1>3, <1>4, <1>5, <1>6, <1>7, <1>8, <1>9, JobsAre

(* What has been read of a directory gets into the index.                              *)
LEMMA UpdateKeeps ==
  ASSUME Knows, NEW p \in X!Procs, X!Update(p)
  PROVE  Knows'
<1>1. PICK f : f = X!Top(p) OBVIOUS
<1>2. /\ X!Busy(p) /\ f.pc # "read" /\ UNCHANGED <<tree, job, plan>>
      /\ frames' = [frames EXCEPT ![p] = Tail(@)]
      /\ idx' = IF f.pc = "skip" THEN idx
                ELSE [idx EXCEPT ![f.dir] =
                        [file |-> f.list.file, folders |-> f.list.folders, cur |-> X!Stat(f),
                         size |-> f.list.file + X!MapThenSumSet(X!SizeOf, f.list.folders), lost |-> "no"]]
      /\ X!Detach(IF f.pc = "skip" THEN {} ELSE {f.dir})
  BY <1>1 DEF X!Update
<1>3. IndexTypes /\ f \in Frames /\ FrameOK(f) /\ f.dir \in X!Directories \ Excluded /\ f.cur \in BOOLEAN
  BY <1>1, <1>2, TopIs DEF Knows, Frames, Indexed
<1>4. /\ frames[p] \in Seq(Frames) /\ frames[p] # << >> /\ f = frames[p][1]
      /\ \A n \in 1 .. Len(frames[p]) : FrameOK(frames[p][n])
      /\ p \in Workers => /\ job[p].pc = "index"
                          /\ frames[p][Len(frames[p])].dir = job[p].dir
                          /\ \A n \in 1 .. Len(frames[p]) : frames[p][n].pc # "skip"
  BY <1>1, <1>2, TopIs
<1>5. PICK s : s = Tail(frames[p]) OBVIOUS
<1>6. /\ s \in Seq(Frames) /\ Len(s) = Len(frames[p]) - 1 /\ Len(frames[p]) \in Nat \ {0}
      /\ \A n \in 1 .. Len(s) : s[n] = frames[p][n + 1]
      /\ s = << >> <=> Len(frames[p]) = 1
  BY <1>4, <1>5, Pops
<1>7. \A n \in 1 .. Len(s) : n + 1 \in 1 .. Len(frames[p]) BY <1>6
<1>8. \A n \in 1 .. Len(s) : FrameOK(s[n]) BY <1>4, <1>6, <1>7
<1>9. frames' = [frames EXCEPT ![p] = s] BY <1>2, <1>5
<1>10. /\ frames' \in [X!Procs -> Seq(Frames)] /\ FramesTell'
       /\ frames'[p] = s /\ \A q \in X!Procs \ {p} : frames'[q] = frames[q]
  BY <1>2, <1>3, <1>6, <1>8, <1>9, FramesAre DEF Knows
<1>11. \/ idx' = idx /\ f.pc = "skip"
       \/ /\ idx' \in [X!Directories -> Entries \cup {Nil}] /\ f.pc = "list"
          /\ idx'[f.dir].file = f.list.file /\ idx'[f.dir].folders = f.list.folders
          /\ idx'[f.dir].cur = f.cur /\ idx'[f.dir] # Nil /\ \A d \in X!Directories \ {f.dir} : idx'[d] = idx[d]
  <2>1. CASE f.pc = "skip" BY <1>2, <2>1
  <2>2. CASE f.pc = "list"
    <3>1. f.list \in Listings /\ f.list.folders \in SUBSET X!Directories
      BY <1>3, <2>2 DEF FrameOK, Listings, Indexed
    <3>2. PICK total : total = X!MapThenSumSet(X!SizeOf, f.list.folders) OBVIOUS
    <3>3. total \in Int BY <1>3, <3>1, <3>2, SizesAdd
    <3>4. f.list.file \in Nat BY <3>1, Given DEF Listings, Lengths
    <3>5. PICK size : size = f.list.file + total OBVIOUS
    <3>6. size \in Int BY <3>3, <3>4, <3>5
    <3>7. PICK n : n = [file |-> f.list.file, folders |-> f.list.folders, cur |-> f.cur, size |-> size,
                        lost |-> "no"]
      OBVIOUS
    <3>8. /\ n \in Entries /\ n.file = f.list.file /\ n.folders = f.list.folders /\ n.cur = f.cur
          /\ n # Nil
      BY <1>3, <3>1, <3>6, <3>7, Given DEF Entries, Listings
    <3>9. idx' = [idx EXCEPT ![f.dir] = n] BY <1>2, <2>2, <3>2, <3>5, <3>7 DEF X!Stat
    <3>10. idx \in [X!Directories -> Entries \cup {Nil}] BY <1>3 DEF IndexTypes
    <3> QED BY <1>3, <2>2, <3>8, <3>9, <3>10
  <2> QED BY <1>2, <1>3, <2>1, <2>2 DEF Frames
<1>12. IndexTypes'
  <2>1. idx' \in [X!Directories -> Entries \cup {Nil}] BY <1>3, <1>11 DEF IndexTypes
  <2>2. \A d \in Excluded : idx'[d] = Nil BY <1>3, <1>11, Given DEF IndexTypes
  <2> QED BY <1>2, <1>3, <1>10, <2>1, <2>2 DEF IndexTypes, X!There
<1>13. ASSUME NEW w \in Workers PROVE JobOK(w)'
  <2>1. JobOK(w) /\ w \in X!Procs BY Given DEF Knows, JobsTell
  <2>2. CASE w = p
    <3>1. ASSUME s # << >>
          PROVE  s[Len(s)].dir = job[p].dir /\ \A n \in 1 .. Len(s) : s[n].pc # "skip"
      <4>1. Len(s) \in 1 .. Len(s) /\ Len(s) + 1 = Len(frames[p]) BY <1>6, <3>1
      <4>2. s[Len(s)] = frames[p][Len(frames[p])] BY <1>6, <4>1
      <4>3. \A n \in 1 .. Len(s) : s[n].pc # "skip" BY <1>4, <1>6, <1>7, <2>2
      <4> QED BY <1>4, <2>2, <4>2, <4>3
    <3>2. job[p].pc = "index" BY <1>4, <2>2
    <3>3. frames'[w] = s /\ job'[w] = job[p] BY <1>2, <1>10, <2>2
    <3> QED BY <3>1, <3>2, <3>3 DEF JobOK
  <2>3. CASE w # p BY <1>2, <1>10, <2>1, <2>3, JobStays
  <2> QED BY <2>2, <2>3
<1>14. ASSUME NEW d \in X!Directories PROVE EntryOK(d)'
  <2>1. CASE d = f.dir /\ f.pc = "list"
    <3>1. f.cur /\ X!There(d) => Matches(f.list, d) BY <1>3, <2>1 DEF FrameOK
    <3>2. idx'[d].file = f.list.file /\ idx'[d].folders = f.list.folders /\ idx'[d].cur = f.cur
      BY <1>11, <2>1
    <3>3. f.cur /\ X!There(d) => (f.list.file # 0) = (tree[d] # 0) /\ f.list.folders = X!Inside(d) \ Excluded
      BY <3>1 DEF Matches
    <3>4. X!There(d)' = X!There(d) /\ X!Inside(d)' = X!Inside(d) /\ tree' = tree
      BY <1>2 DEF X!There, X!Inside
    <3> QED BY <3>2, <3>3, <3>4 DEF EntryOK, Matches
  <2>2. CASE ~(d = f.dir /\ f.pc = "list")
    <3>1. idx'[d] = idx[d] BY <1>11, <2>2
    <3>2. CASE p \in Workers /\ s = << >> /\ d = f.dir
      <4>1. FALSE BY <1>2, <1>3, <1>4, <1>6, <2>2, <3>2 DEF Frames
      <4> QED BY <4>1
    <3>3. CASE ~(p \in Workers /\ s = << >> /\ d = f.dir)
      <4>1. ASSUME NEW v \in Workers, Unsettled(v, d) PROVE Unsettled(v, d)'
        <5>1. CASE v = p /\ s = << >>
          <6>1. frames[p][1].dir = job[p].dir BY <1>4, <1>6, <5>1
          <6>2. d # job[p].dir BY <1>4, <3>3, <5>1, <6>1
          <6> QED BY <1>2, <4>1, <5>1, <6>2 DEF Unsettled
        <5>2. CASE v = p /\ s # << >> BY <1>2, <1>10, <4>1, <5>2 DEF Unsettled
        <5>3. CASE v # p
          <6>1. frames'[v] = frames[v] BY <1>10, <5>3, Given
          <6> QED BY <1>2, <4>1, <6>1 DEF Unsettled
        <5> QED BY <5>1, <5>2, <5>3
      <4> QED BY <1>2, <3>1, <4>1, EntryStays DEF Knows, EntriesTell
    <3> QED BY <3>2, <3>3
  <2> QED BY <2>1, <2>2
<1>15. HeldTell'
  <2>1. \A v \in Workers : job'[v] = job[v] BY <1>2
  <2>2. PICK D : D = IF f.pc = "skip" THEN {} ELSE {f.dir} OBVIOUS
  <2>3. \A d \in X!Directories \ D : idx[d] # Nil => idx'[d] # Nil BY <1>11, <2>2
  <2>4. X!Detach(D) BY <1>2, <2>2
  <2> QED BY <1>2, <2>1, <2>3, <2>4, HeldKept DEF Knows
<1> QED BY <1>10, <1>12, <1>13, <1>14, <1>15 DEF Knows, JobsTell, EntriesTell

(* Where neither the files nor the index nor a call has changed, all that is known is.    *)
LEMMA KnowsStays == ASSUME Knows, UNCHANGED <<tree, idx, frames, job, old, plan>> PROVE Knows'
<1>1. IndexTypes' BY DEF Knows, IndexTypes, X!There
<1>2. ASSUME NEW p \in X!Procs, NEW n \in 1 .. Len(frames[p]) PROVE FrameOK(frames[p][n])'
  <2>1. PICK f : f = frames[p][n] OBVIOUS
  <2>2. FrameOK(f)' BY <2>1, FrameStays DEF Knows, FramesTell
  <2>3. frames'[p][n] = f BY <2>1
  <2> QED BY <2>2, <2>3
<1>3. \A w \in Workers : JobOK(w)' BY JobStays DEF Knows, JobsTell
<1>4. ASSUME NEW d \in X!Directories PROVE EntryOK(d)'
  <2>1. \A w \in Workers : Unsettled(w, d) => Unsettled(w, d)' BY DEF Unsettled
  <2> QED BY <2>1, EntryStays DEF Knows, EntriesTell
<1>5. HeldTell' BY HeldStays DEF Knows
<1> QED BY <1>1, <1>2, <1>3, <1>4, <1>5 DEF Knows, FramesTell, JobsTell, EntriesTell

(* A scan begins: the scanner has one call, of its directory.                            *)
LEMMA AcquireKeeps ==
  ASSUME Knows, NEW i \in X!Scanners, X!Acquire(i)
  PROVE  Knows'
<1>1. /\ UNCHANGED <<tree, idx, job, old, plan>>
      /\ frames' = [frames EXCEPT ![i] =
           IF X!There(i[1])
           THEN <<[dir |-> i[1], cur |-> TRUE, pc |-> "read", list |-> Nil, todo |-> {}]>> ELSE << >>]
  BY DEF X!Acquire
<1>2. i \in X!Procs /\ i[1] \in Indexed /\ \A w \in Workers : w \in X!Procs \ {i} BY Given
<1>3. PICK f : f = [dir |-> i[1], cur |-> TRUE, pc |-> "read", list |-> Nil, todo |-> {}] OBVIOUS
<1>4. f \in Frames /\ f.pc = "read" BY <1>2, <1>3 DEF Frames
<1>5. FrameOK(f) BY <1>4 DEF FrameOK
<1>6. PICK s : s = IF X!There(i[1]) THEN <<f>> ELSE << >> OBVIOUS
<1>7. s \in Seq(Frames) /\ \A n \in 1 .. Len(s) : FrameOK(s[n])
  <2>1. CASE X!There(i[1])
    <3>1. s = <<f>> BY <1>6, <2>1
    <3>2. s \in Seq(Frames) /\ Len(s) = 1 /\ s[1] = f BY <1>4, <3>1
    <3> QED BY <1>5, <3>2
  <2>2. CASE ~X!There(i[1])
    <3>1. s = << >> BY <1>6, <2>2
    <3>2. << >> \in Seq(Frames) /\ Len(<< >>) = 0 OBVIOUS
    <3> QED BY <3>1, <3>2
  <2> QED BY <2>1, <2>2
<1>8. frames' = [frames EXCEPT ![i] = s] BY <1>1, <1>3, <1>6
<1>9. /\ frames' \in [X!Procs -> Seq(Frames)] /\ FramesTell'
      /\ \A q \in X!Procs \ {i} : frames'[q] = frames[q]
  BY <1>1, <1>2, <1>7, <1>8, FramesAre DEF Knows
<1>10. IndexTypes' BY <1>1, <1>9 DEF Knows, IndexTypes, X!There
<1>11. \A w \in Workers : JobOK(w)' BY <1>1, <1>2, <1>9, JobStays DEF Knows, JobsTell
<1>12. ASSUME NEW d \in X!Directories PROVE EntryOK(d)'
  <2>1. \A w \in Workers : Unsettled(w, d) => Unsettled(w, d)' BY <1>1, <1>2, <1>9 DEF Unsettled
  <2> QED BY <1>1, <2>1, EntryStays DEF Knows, EntriesTell
<1>13. HeldTell' BY <1>1, HeldStays DEF Knows
<1> QED BY <1>9, <1>10, <1>11, <1>12, <1>13 DEF Knows, JobsTell, EntriesTell

-------------------------------------------------------------------------------
(* Scanners.                                                                   *)

(* What has not run yet, or runs no more.                                           *)
LEMMA OffIs ==
  /\ X!Off \in ScanRecs /\ X!Off.pc = "off"
  /\ X!Made \in ScanRecs /\ X!Made.pc = "want"
<1>1. X!Off \in ScanRecs /\ X!Off.pc = "off" BY DEF X!Off, ScanRecs
<1>2. [X!Off EXCEPT !.pc = "want"] \in ScanRecs /\ [X!Off EXCEPT !.pc = "want"].pc = "want"
  BY <1>1 DEF ScanRecs
<1> QED BY <1>1, <1>2 DEF X!Made

(* Nothing becomes of scanners elsewhere.                                            *)
LEMMA ScanStays == ASSUME ScanOK, UNCHANGED <<sc, reg, scanning>> PROVE ScanOK'
BY DEF ScanOK

(* One scanner changes; it holds the mutex where it scans.                              *)
LEMMA ScannerIs ==
  ASSUME ScanOK, NEW i \in X!Scanners, NEW a \in ScanRecs, sc' = [sc EXCEPT ![i] = a],
         \A j \in X!Scanners \ {i} : scanning' = j <=> scanning = j,
         a.pc \in {"scan", "adopt"} <=> scanning' = i,
         reg' \in [Tops -> (Tops \X Copies) \cup {Nil}],
         \A t \in Tops : reg'[t] = Nil \/ reg'[t] \in {t} \X Copies
  PROVE  ScanOK'
<1>1. sc \in [X!Scanners -> ScanRecs] BY DEF ScanOK
<1>2. sc' \in [X!Scanners -> ScanRecs] /\ sc'[i] = a /\ \A j \in X!Scanners \ {i} : sc'[j] = sc[j]
  BY <1>1
<1>3. ASSUME NEW j \in X!Scanners PROVE sc'[j].pc \in {"scan", "adopt"} <=> scanning' = j
  <2>1. CASE j = i BY <1>2, <2>1
  <2>2. CASE j # i BY <1>2, <2>2 DEF ScanOK
  <2> QED BY <2>1, <2>2
<1> QED BY <1>2, <1>3 DEF ScanOK

(* Of a directory setupMultiScanner has found.                                          *)
LEMMA SetupScans == ASSUME ScanOK, X!SetupMakes PROVE ScanOK'
<1>1. PICK t \in setup, n \in Copies :
        /\ X!Spare(t, n) /\ sc' = [sc EXCEPT ![<<t, n>>] = X!Made]
        /\ reg' = [reg EXCEPT ![t] = <<t, n>>]
  BY DEF X!SetupMakes
<1>2. scanning' = scanning BY DEF X!SetupMakes
<1>3. PICK i : i = <<t, n>> OBVIOUS
<1>4. i \in X!Scanners /\ sc[i].pc = "off" BY <1>1, <1>3 DEF X!Spare, X!Runs
<1>5. PICK a : a = X!Made OBVIOUS
<1>6. a \in ScanRecs /\ a.pc = "want" BY <1>5, OffIs
<1>7. scanning # i BY <1>4 DEF ScanOK
<1>8. reg' \in [Tops -> (Tops \X Copies) \cup {Nil}]
      /\ \A u \in Tops : reg'[u] = Nil \/ reg'[u] \in {u} \X Copies
  BY <1>1 DEF ScanOK
<1>9. sc' = [sc EXCEPT ![i] = a] BY <1>1, <1>3, <1>5
<1>10. ~(a.pc \in {"scan", "adopt"}) BY <1>6
<1> QED BY <1>2, <1>4, <1>6, <1>7, <1>8, <1>9, <1>10, ScannerIs

(* The mutex is taken by one.                                                           *)
LEMMA AcquireScans == ASSUME ScanOK, NEW i \in X!Scanners, X!Acquire(i) PROVE ScanOK'
<1>1. /\ scanning = Nil /\ scanning' = i /\ reg' = reg
      /\ sc' = [sc EXCEPT ![i] = [sc[i] EXCEPT !.pc = "scan",
                                    !.count = IF i = X!RootScanner THEN @ ELSE (@ + 1) % Every]]
  BY DEF X!Acquire
<1>2. sc[i] \in ScanRecs BY DEF ScanOK
<1>3. PICK count : count = IF i = X!RootScanner THEN sc[i].count ELSE (sc[i].count + 1) % Every OBVIOUS
<1>4. count \in Nat
  <2>1. sc[i].count \in Nat BY <1>2 DEF ScanRecs
  <2>2. Every \in Nat \ {0} BY SettlesAssumption DEF X!IndexingAssumption
  <2>3. \A k \in Nat, m \in Nat \ {0} : (k + 1) % m \in Nat OBVIOUS
  <2> QED BY <1>3, <2>1, <2>2, <2>3
<1>5. PICK a : a = [sc[i] EXCEPT !.pc = "scan", !.count = count] OBVIOUS
<1>6. a \in ScanRecs /\ a.pc = "scan" BY <1>2, <1>4, <1>5 DEF ScanRecs
<1>7. sc' = [sc EXCEPT ![i] = a] BY <1>1, <1>3, <1>5
<1>8. \A j \in X!Scanners : j # Nil BY Given
<1>9. \A j \in X!Scanners \ {i} : scanning' = j <=> scanning = j BY <1>1, <1>8
<1>10. /\ reg' \in [Tops -> (Tops \X Copies) \cup {Nil}]
       /\ \A t \in Tops : reg'[t] = Nil \/ reg'[t] \in {t} \X Copies
  BY <1>1 DEF ScanOK
<1> QED BY <1>1, <1>6, <1>7, <1>9, <1>10, ScannerIs

(* A scanner between two scans, or after its last.                                       *)
LEMMA ScanScans == ASSUME ScanOK, NEW i \in X!Scanners, X!Scan(i) \/ X!Stop(i) PROVE ScanOK'
<1> USE Given
<1>1. CASE X!ScanEnds(i)
  <2>1. sc[i].pc = "scan" /\ scanning' = Nil /\ sc' = [sc EXCEPT ![i].pc = "loop"] /\ reg' = reg
    BY <1>1 DEF X!ScanEnds, X!At, X!Goes
  <2>2. scanning = i /\ sc[i] \in ScanRecs BY <2>1 DEF ScanOK
  <2>3. PICK a : a = [sc[i] EXCEPT !.pc = "loop"] OBVIOUS
  <2>4. a \in ScanRecs /\ a.pc = "loop" BY <2>2, <2>3 DEF ScanRecs
  <2>5. sc' = [sc EXCEPT ![i] = a] BY <2>1, <2>3
  <2>6. \A j \in X!Scanners : scanning' # j BY <2>1
  <2>7. ~(a.pc \in {"scan", "adopt"}) BY <2>4
  <2>8. reg' \in [Tops -> (Tops \X Copies) \cup {Nil}]
        /\ \A t \in Tops : reg'[t] = Nil \/ reg'[t] \in {t} \X Copies
    BY <2>1 DEF ScanOK
  <2>9. \A j \in X!Scanners \ {i} : scanning' = j <=> scanning = j BY <2>2, <2>6
  <2> QED BY <2>4, <2>5, <2>6, <2>7, <2>8, <2>9, ScannerIs
<1>2. CASE X!Loop(i)
  <2>1. sc[i].pc = "loop" /\ scanning' = scanning
    BY <1>2 DEF X!Loop, X!At
  <2>2. scanning # i /\ sc[i] \in ScanRecs BY <2>1 DEF ScanOK
  <2>3. PICK a \in ScanRecs : sc' = [sc EXCEPT ![i] = a] /\ a.pc \in {"asleep", "off"}
    <3>1. CASE X!There(i[1])
      <4>1. PICK a : a = [sc[i] EXCEPT !.pc = "asleep"] OBVIOUS
      <4>2. a \in ScanRecs /\ a.pc = "asleep" BY <2>2, <4>1 DEF ScanRecs
      <4>3. sc' = [sc EXCEPT ![i] = a] BY <1>2, <3>1, <4>1 DEF X!Loop, X!Goes
      <4> QED BY <4>2, <4>3
    <3>2. CASE ~X!There(i[1])
      <4>1. sc' = [sc EXCEPT ![i] = X!Off] BY <1>2, <3>2 DEF X!Loop
      <4> QED BY <4>1, OffIs
    <3> QED BY <3>1, <3>2
  <2>4. reg' \in [Tops -> (Tops \X Copies) \cup {Nil}]
        /\ \A t \in Tops : reg'[t] = Nil \/ reg'[t] \in {t} \X Copies
    <3>1. reg' = reg \/ reg' = [reg EXCEPT ![i[1]] = Nil] BY <1>2 DEF X!Loop
    <3> QED BY <3>1 DEF ScanOK
  <2>5. ~(a.pc \in {"scan", "adopt"}) BY <2>3
  <2> QED BY <2>1, <2>2, <2>3, <2>4, <2>5, ScannerIs
<1>3. CASE X!Stop(i)
  <2>1. sc[i].pc = "asleep" /\ scanning' = scanning /\ reg' = reg /\ sc' = [sc EXCEPT ![i] = X!Off]
    BY <1>3 DEF X!Stop, X!At
  <2>2. scanning # i BY <2>1 DEF ScanOK
  <2>3. PICK a : a = X!Off OBVIOUS
  <2>4. a \in ScanRecs /\ ~(a.pc \in {"scan", "adopt"}) BY <2>3, OffIs
  <2>5. reg' \in [Tops -> (Tops \X Copies) \cup {Nil}]
        /\ \A t \in Tops : reg'[t] = Nil \/ reg'[t] \in {t} \X Copies
    BY <2>1 DEF ScanOK
  <2>6. sc' = [sc EXCEPT ![i] = a] BY <2>1, <2>3
  <2> QED BY <2>1, <2>2, <2>4, <2>5, <2>6, ScannerIs
<1>4. CASE i = X!RootScanner /\ X!LookAround
  <2>1. /\ sc[i].pc = "scan" /\ scanning' = scanning /\ reg' = reg
        /\ sc' = [sc EXCEPT ![i] = [sc[i] EXCEPT !.pc = "adopt", !.seen = X!Inside(Root) \ Excluded]]
    BY <1>4 DEF X!LookAround, X!At
  <2>2. scanning = i /\ sc[i] \in ScanRecs BY <2>1 DEF ScanOK
  <2>3. PICK seen : seen = X!Inside(Root) \ Excluded OBVIOUS
  <2>4. seen \subseteq X!Directories BY <2>3 DEF X!Inside
  <2>5. PICK a : a = [sc[i] EXCEPT !.pc = "adopt", !.seen = seen] OBVIOUS
  <2>6. a \in ScanRecs /\ a.pc = "adopt" BY <2>2, <2>4, <2>5 DEF ScanRecs
  <2>7. sc' = [sc EXCEPT ![i] = a] BY <2>1, <2>3, <2>5
  <2>8. reg' \in [Tops -> (Tops \X Copies) \cup {Nil}]
        /\ \A t \in Tops : reg'[t] = Nil \/ reg'[t] \in {t} \X Copies
    BY <2>1 DEF ScanOK
  <2> QED BY <2>1, <2>2, <2>6, <2>7, <2>8, ScannerIs
<1>5. CASE i = X!RootScanner /\ X!Adopt
  <2> DEFINE seen == sc[X!RootScanner].seen
  <2> DEFINE gone == {t \in Tops : reg[t] # Nil /\ t \notin seen}
  <2> DEFINE new == {t \in seen : reg[t] = Nil}
  <2>1. PICK n \in [new -> Copies] :
          /\ reg' = [t \in Tops |-> IF t \in new THEN <<t, n[t]>> ELSE reg[t]]
          /\ sc' = [j \in X!Scanners |->
                      IF j = X!RootScanner THEN [sc[j] EXCEPT !.pc = "asleep", !.seen = {}]
                      ELSE IF j[1] \in new /\ j[2] = n[j[1]] THEN X!Made
                      ELSE IF j[1] \in gone /\ reg[j[1]] = j THEN [sc[j] EXCEPT !.stopped = TRUE] ELSE sc[j]]
    BY <1>5 DEF X!Adopt
  <2> HIDE DEF gone, new
  <2>2. sc[i].pc = "adopt" /\ scanning' = Nil BY <1>5 DEF X!Adopt, X!At
  <2>3. scanning = i /\ sc \in [X!Scanners -> ScanRecs] BY <2>2 DEF ScanOK
  <2>4. \A j \in X!Scanners : sc[j] \in ScanRecs /\ (j # i => ~(sc[j].pc \in {"scan", "adopt"}))
    BY <2>3 DEF ScanOK
  <2>5. \A a \in ScanRecs : /\ [a EXCEPT !.stopped = TRUE] \in ScanRecs
                            /\ [a EXCEPT !.stopped = TRUE].pc = a.pc
                            /\ [a EXCEPT !.pc = "asleep", !.seen = {}] \in ScanRecs
                            /\ [a EXCEPT !.pc = "asleep", !.seen = {}].pc = "asleep"
    BY DEF ScanRecs
  <2>6. ASSUME NEW j \in X!Scanners
        PROVE  sc'[j] \in ScanRecs /\ ~(sc'[j].pc \in {"scan", "adopt"})
    <3>1. CASE j = i BY <1>5, <2>1, <2>4, <2>5, <3>1
    <3>2. CASE j # i
      <4>1. sc'[j] = X!Made \/ sc'[j] = [sc[j] EXCEPT !.stopped = TRUE] \/ sc'[j] = sc[j]
        BY <1>5, <2>1, <3>2
      <4>2. X!Made \in ScanRecs /\ ~(X!Made.pc \in {"scan", "adopt"}) BY OffIs
      <4> QED BY <2>4, <2>5, <3>2, <4>1, <4>2
    <3> QED BY <3>1, <3>2
  <2>7. \A j \in X!Scanners : scanning' # j BY <2>2
  <2>8. sc' \in [X!Scanners -> ScanRecs] BY <2>1, <2>6
  <2>9. ASSUME NEW t \in Tops
        PROVE  reg'[t] \in (Tops \X Copies) \cup {Nil} /\ (reg'[t] = Nil \/ reg'[t] \in {t} \X Copies)
    <3>1. reg[t] \in (Tops \X Copies) \cup {Nil} /\ (reg[t] = Nil \/ reg[t] \in {t} \X Copies)
      BY DEF ScanOK
    <3>2. CASE t \in new
      <4>1. reg'[t] = <<t, n[t]>> /\ n[t] \in Copies BY <2>1, <3>2
      <4> QED BY <4>1
    <3>3. CASE t \notin new BY <2>1, <3>1, <3>3
    <3> QED BY <3>2, <3>3
  <2>10. reg' \in [Tops -> (Tops \X Copies) \cup {Nil}] BY <2>1, <2>9
  <2> QED BY <2>6, <2>7, <2>8, <2>9, <2>10 DEF ScanOK
<1> QED BY <1>1, <1>2, <1>3, <1>4, <1>5 DEF X!Scan

-------------------------------------------------------------------------------
(* A server that has just been started knows nothing yet; one that has run for a while    *)
(* knows directories that are still empty.                                             *)
LEMMA IndexStarts == ASSUME X!Init PROVE XInv
<1>1. /\ tree = [d \in X!Directories |-> IF d \in Present \cup {Root} THEN 0 ELSE Nil]
      /\ frames = [p \in X!Procs |-> << >>] /\ job = [w \in Workers |-> X!Idle] /\ scanning = Nil
      /\ old = [w \in Workers |-> Nil]
      /\ (\E c \in Casts : plan = c.plan) /\ (X!Starting \/ X!Started)
  BY DEF X!Init
<1>2. 0 \in Lengths /\ 0 # Nil BY Given DEF Lengths
<1>3. tree \in [X!Directories -> {0, Nil}] /\ X!There(Root) BY <1>1, <1>2, Given DEF X!There
<1>4. idx \in [X!Directories -> Entries \cup {Nil}] /\ \A d \in X!Directories : idx[d] # Nil =>
        d \notin Excluded /\ (idx[d].file # 0) = (tree[d] # 0) /\ idx[d].folders = X!Inside(d) \ Excluded
  <2>1. CASE X!Starting
    <3>1. idx = [d \in X!Directories |-> Nil] BY <2>1 DEF X!Starting
    <3> QED BY <3>1
  <2>2. CASE X!Started
    <3>1. \A d \in X!Directories :
            idx[d] = IF X!There(d) /\ d \notin Excluded
                     THEN [file |-> 0, folders |-> X!Inside(d) \ Excluded, size |-> 0, cur |-> TRUE, lost |-> "no"] ELSE Nil
      BY <2>2 DEF X!Started
    <3>2. ASSUME NEW d \in X!Directories
          PROVE  [file |-> 0, folders |-> X!Inside(d) \ Excluded, size |-> 0, cur |-> TRUE, lost |-> "no"] \in Entries
      <4>1. X!Inside(d) \ Excluded \subseteq Indexed BY Given DEF X!Inside, Indexed
      <4> QED BY <1>2, <4>1 DEF Entries
    <3>3. \A d \in X!Directories : idx[d] \in Entries \cup {Nil} BY <3>1, <3>2
    <3>4. idx = [d \in X!Directories |-> idx[d]] BY <2>2 DEF X!Started
    <3>5. idx \in [X!Directories -> Entries \cup {Nil}] BY <3>3, <3>4
    <3>6. ASSUME NEW d \in X!Directories, idx[d] # Nil
          PROVE  d \notin Excluded /\ (idx[d].file # 0) = (tree[d] # 0)
                 /\ idx[d].folders = X!Inside(d) \ Excluded
      <4>1. X!There(d) /\ d \notin Excluded BY <3>1, <3>6
      <4>2. tree[d] = 0 BY <1>3, <4>1 DEF X!There
      <4>3. idx[d] = [file |-> 0, folders |-> X!Inside(d) \ Excluded, size |-> 0, cur |-> TRUE, lost |-> "no"]
        BY <3>1, <4>1
      <4>4. idx[d].file = 0 /\ idx[d].folders = X!Inside(d) \ Excluded BY <4>3
      <4> QED BY <4>1, <4>2, <4>4
    <3> QED BY <3>5, <3>6
  <2> QED BY <1>1, <2>1, <2>2
<1>5. frames \in [X!Procs -> Seq(Frames)] /\ \A p \in X!Procs : frames[p] = << >> /\ Len(frames[p]) = 0
  <2>1. << >> \in Seq(Frames) /\ Len(<< >>) = 0 OBVIOUS
  <2> QED BY <1>1, <2>1
<1>6. X!Idle \in Jobs /\ X!Idle.pc = "idle"
  <2>1. Root \in X!Directories BY Given
  <2> QED BY <2>1 DEF Jobs, X!Idle
<1>7. job \in [Workers -> Jobs] /\ \A w \in Workers : job[w].pc = "idle" BY <1>1, <1>6
<1>8. tree \in [X!Directories -> Lengths \cup {Nil}] BY <1>2, <1>3
<1>9. \A d \in Excluded : idx[d] = Nil BY <1>4, Given
<1>10. IndexTypes BY <1>1, <1>3, <1>4, <1>5, <1>7, <1>8, <1>9 DEF IndexTypes
<1>11. FramesTell BY <1>5 DEF FramesTell
<1>12. JobsTell BY <1>5, <1>7, Given DEF JobsTell, JobOK
<1>13. EntriesTell BY <1>4 DEF EntriesTell, EntryOK, Matches
<1>14. X!Off \in ScanRecs /\ X!Off.pc = "off" BY OffIs
<1>15. /\ [X!Off EXCEPT !.pc = "want"] \in ScanRecs /\ [X!Off EXCEPT !.pc = "want"].pc = "want"
       /\ [X!Off EXCEPT !.pc = "asleep"] \in ScanRecs /\ [X!Off EXCEPT !.pc = "asleep"].pc = "asleep"
  BY <1>14 DEF ScanRecs
<1>16. sc \in [X!Scanners -> ScanRecs] /\ \A i \in X!Scanners : ~(sc[i].pc \in {"scan", "adopt"})
  <2>1. CASE X!Starting
    <3>1. sc = [i \in X!Scanners |-> IF i = X!RootScanner THEN [X!Off EXCEPT !.pc = "want"] ELSE X!Off]
      BY <2>1 DEF X!Starting
    <3> QED BY <1>14, <1>15, <3>1
  <2>2. CASE X!Started
    <3>1. sc = [i \in X!Scanners |-> IF X!There(i[1]) /\ i[1] \notin Excluded /\ i[2] \in {0, X!First}
                                     THEN [X!Off EXCEPT !.pc = "asleep"] ELSE X!Off]
      BY <2>2 DEF X!Started
    <3> QED BY <1>14, <1>15, <3>1
  <2> QED BY <1>1, <2>1, <2>2
<1>17. /\ reg \in [Tops -> (Tops \X Copies) \cup {Nil}]
       /\ \A t \in Tops : reg[t] = Nil \/ reg[t] \in {t} \X Copies
  <2>1. CASE X!Starting
    <3>1. reg = [t \in Tops |-> Nil] BY <2>1 DEF X!Starting
    <3> QED BY <3>1
  <2>2. CASE X!Started
    <3>1. reg = [t \in Tops |-> IF X!There(t) /\ t \notin Excluded THEN <<t, X!First>> ELSE Nil]
      BY <2>2 DEF X!Started
    <3>2. X!First \in Copies BY SettlesAssumption DEF X!First, X!IndexingAssumption
    <3> QED BY <3>1, <3>2
  <2> QED BY <1>1, <2>1, <2>2
<1>18. \A i \in X!Scanners : i # Nil BY Given
<1>19. ScanOK BY <1>1, <1>16, <1>17, <1>18 DEF ScanOK
<1>20. HeldTell BY <1>1, <1>7 DEF HeldTell, HeldOK
<1> QED BY <1>10, <1>11, <1>12, <1>13, <1>19, <1>20 DEF XInv

(* Every step of the index preserves the invariant.                                      *)
LEMMA IndexSteps == ASSUME XInv, X!Next PROVE XInv'
<1>1. Knows /\ ScanOK BY DEF XInv, Knows
<1>2. CASE X!Alter
  <2>1. IndexTypes /\ FramesTell /\ JobsTell /\ EntriesTell /\ HeldTell BY DEF XInv
  <2>2. (\E w \in Workers \cup {Nil} : Changed(w)) /\ UNCHANGED <<sc, reg, scanning, setup, plan>>
    BY <1>2, <2>1, AlterIs
  <2>3. PICK w \in Workers \cup {Nil} : Changed(w) BY <2>2
  <2>4. plan' = plan BY <2>2
  <2>5. IndexTypes' /\ FramesTell' /\ JobsTell' /\ EntriesTell' /\ HeldTell' BY <2>1, <2>3, <2>4, AlterKeeps
  <2>6. ScanOK' BY <1>1, <2>2, ScanStays
  <2> QED BY <2>5, <2>6 DEF XInv
<1>3. CASE X!SetupReads
  <2>1. UNCHANGED <<tree, idx, frames, job, old, plan, sc, reg, scanning>> BY <1>3 DEF X!SetupReads
  <2> QED BY <1>1, <2>1, KnowsStays, ScanStays DEF XInv, Knows
<1>4. CASE X!SetupMakes
  <2>1. UNCHANGED <<tree, idx, frames, job, old, plan>> BY <1>4 DEF X!SetupMakes
  <2> QED BY <1>1, <1>4, <2>1, KnowsStays, SetupScans DEF XInv, Knows
<1>5. ASSUME NEW p \in X!Procs, X!Index(p) PROVE XInv'
  <2>1. UNCHANGED <<sc, reg, scanning>>
    BY <1>5 DEF X!Index, X!ReadDir, X!Descend, X!Update
  <2>2. Knows' BY <1>1, <1>5, ReadDirKeeps, DescendKeeps, UpdateKeeps DEF X!Index
  <2> QED BY <1>1, <2>1, <2>2, ScanStays DEF XInv, Knows
<1>6. ASSUME NEW w \in Workers, X!Request(w) PROVE XInv'
  <2>1. UNCHANGED <<sc, reg, scanning>>
    BY <1>6 DEF X!Request, X!Unlist, X!Refresh, X!Refreshed, X!Grow, X!PutBack, X!Answer
  <2>2. Knows'
    BY <1>1, <1>6, UnlistKeeps, RefreshKeeps, RefreshedKeeps, GrowKeeps, PutBackKeeps, AnswerKeeps DEF X!Request
  <2> QED BY <1>1, <2>1, <2>2, ScanStays DEF XInv, Knows
<1>7. ASSUME NEW i \in X!Scanners, X!Acquire(i) PROVE XInv'
  BY <1>1, <1>7, AcquireKeeps, AcquireScans DEF XInv, Knows
<1>8. ASSUME NEW i \in X!Scanners, X!Scan(i) \/ X!Stop(i) PROVE XInv'
  <2>1. UNCHANGED <<tree, idx, frames, job, old, plan>>
    BY <1>8 DEF X!Scan, X!ScanEnds, X!Loop, X!LookAround, X!Adopt, X!Stop
  <2> QED BY <1>1, <1>8, <2>1, KnowsStays, ScanScans DEF XInv, Knows
<1> QED BY <1>2, <1>3, <1>4, <1>5, <1>6, <1>7, <1>8 DEF X!Next

(* Where the index has the modification time a directory has, it lists what is there, and   *)
(* nothing the rules exclude is in it, whatever scans, refreshes, removals and changes past   *)
(* Drive overlapped and whatever a refresh of sizes puts back of a parent it read earlier:  *)
(* unless a request is still about to read the directory again, or the entry put back is    *)
(* one that a removal from it came too late for.  However many directories, scanners and    *)
(* requests there are.                                                                    *)
THEOREM IndexTellsAlways == SettlesSpec => []IndexTells
<1> DEFINE I == part = "index" => XInv
<1>1. SettlesInit => I BY IndexStarts DEF SettlesInit
<1>2. I /\ [SettlesNext]_settlesVars => I'
  <2> SUFFICES ASSUME I, [SettlesNext]_settlesVars, part' = "index" PROVE XInv' OBVIOUS
  <2>1. part = "index" /\ (X!Next \/ UNCHANGED indexVars)
    BY DEF SettlesNext, settlesVars
  <2>2. CASE X!Next BY <2>1, <2>2, IndexSteps
  <2>3. CASE UNCHANGED indexVars
    <3>1. UNCHANGED <<tree, idx, frames, job, old, plan, sc, reg, scanning>> BY <2>3 DEF indexVars
    <3> QED BY <2>1, <3>1, KnowsStays, ScanStays DEF XInv, Knows
  <2> QED BY <2>1, <2>2, <2>3
<1>3. I => IndexTells BY IndexIs DEF IndexTells
<1> QED BY <1>1, <1>2, <1>3, PTL DEF SettlesSpec
===============================================================================
