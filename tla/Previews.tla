------------------------------ MODULE Previews ------------------------------
(***************************************************************************)
(* Thumbnails: http/preview.go, the generators of preview/ and ffmpeg/ with *)
(* their semaphores, and adapters/fs/diskcache/file_cache.go.              *)
(*                                                                         *)
(* A request looks at the file, looks into the cache under a key made of   *)
(* path, size and modification time, and otherwise makes the picture: with *)
(* one of the slots of the generator for that kind of file, then with one  *)
(* of the slots for images to reduce it, then stores it.  Requests for one *)
(* picture do not know of each other.  Who overwrites, deletes or moves a  *)
(* file removes its thumbnail before.                                      *)
(*                                                                         *)
(* A content is a number, new at every write; with it comes a modification *)
(* time that no other content at that path has.                            *)
(***************************************************************************)
EXTENDS Naturals, FiniteSets

CONSTANTS
  Viewers,     \* requests for a preview
  Names,       \* the files of a directory, 1..n, in the order of its listing
  Mixes,       \* what kinds the files may be of: "image", "heic", "video", "doc", "office" or "audio"
  Broken,      \* contents no picture can be made of
  Limit,       \* numImageProcessors
  MaxContent,  \* bound: contents written
  Faults       \* bound: changed files, cancelled requests, full disks and restarts

None == 0
Empty == MaxContent + 1                   \* a file of the cache without bytes
Contents == 1..MaxContent
PreviewSizes == {"small", "large"}
Kinds == {"doc", "office", "video", "image"}

PreviewsAssumption ==
  /\ IsFiniteSet(Viewers) /\ IsFiniteSet(Names)
  /\ MaxContent \in Nat /\ \E n \in 1..MaxContent : Names = 1..n
  /\ Mixes \subseteq [Names -> {"image", "heic", "video", "doc", "office", "audio"}]
  /\ Limit \in Nat

CacheKeys == (Names \cup {None}) \X Contents \X PreviewSizes

\* NewPreviewGenerator, where ffmpeg was found.
Capacity == [k \in Kinds |-> CASE k = "doc" -> 1
                               [] k = "video" -> (Limit + 1) \div 2
                               [] OTHER -> Limit]

VARIABLES
  kind,       \* the kinds of the files, from their names: constant
  file,       \* the content at a path, or None
  born,       \* contents so far
  cache,      \* the picture under a key: of which content, Empty, or None
  locked,     \* the keys whose granular lock is held
  slots,      \* slots in use, by semaphore
  req,        \* the requests
  change,     \* the request that changes files
  faults,
  \* what the properties need to remember
  poisoned,   \* path and content under which another content was read
  returned    \* those of poisoned where the content came back to the path

vars == <<kind, file, born, cache, locked, slots, req, change, faults, poisoned, returned>>

Nobody == [at |-> "idle", path |-> None, size |-> "small", ver |-> None, seen |-> {}, pic |-> None,
           left |-> {}, want |-> "small", gone |-> FALSE]
Resting == [at |-> "idle", what |-> "none", path |-> None, ver |-> None]

Init ==
  /\ kind \in Mixes
  /\ \E P \in (SUBSET Names) \ {{}} :
       /\ file = [p \in Names |-> IF p \in P THEN p ELSE None]
       /\ born = Cardinality(Names)
  /\ cache = [k \in CacheKeys |-> None]
  /\ locked = {}
  /\ slots = [k \in Kinds |-> 0]
  /\ req = [r \in Viewers |-> Nobody]
  /\ change = Resting
  /\ faults = 0
  /\ poisoned = {} /\ returned = {}

Fault == faults < Faults /\ faults' = faults + 1

CacheKeyByPath(p, v, s) == <<p, 1, s>>
\* GetPreviewForFile: album art is filed under its own hash.
CacheKey(p, v, s) == IF kind[p] = "audio" THEN <<None, v, s>> ELSE <<p, v, s>>
KeyOf(r) == CacheKey(req[r].path, req[r].ver, req[r].size)

-----------------------------------------------------------------------------
(* Requests: previewHandler, previewHelperFunc, getDirectoryPreview *)

Steps(r, at) == req' = [req EXCEPT ![r].at = at]

\* FileInfoFaster
Stat(r, p, s) ==
  req' = [req EXCEPT ![r].at = "load", ![r].path = p, ![r].size = s, ![r].ver = file[p],
                     ![r].seen = {file[p]}]

AskFile(r, p, s) ==
  /\ req[r].at = "idle" /\ file[p] # None
  /\ Stat(r, p, s)
  /\ UNCHANGED <<kind, file, born, cache, locked, slots, change, faults, poisoned, returned>>

\* A folder shows the first of its files whose small picture can be made.
AskFolder(r, s) ==
  /\ req[r].at = "idle"
  /\ req' = [req EXCEPT ![r].at = "probe", ![r].left = Names, ![r].want = s]
  /\ UNCHANGED <<kind, file, born, cache, locked, slots, change, faults, poisoned, returned>>

Probe(r) ==
  /\ req[r].at = "probe"
  /\ IF req[r].left = {}
       THEN req' = [req EXCEPT ![r] = [Nobody EXCEPT !.at = "failed"]]
       ELSE LET p == CHOOSE n \in req[r].left : \A m \in req[r].left : n <= m IN
            IF file[p] = None THEN req' = [req EXCEPT ![r].left = @ \ {p}]
                             ELSE Stat(r, p, "small")
  /\ UNCHANGED <<kind, file, born, cache, locked, slots, change, faults, poisoned, returned>>

Probing(r) == req[r].path \in req[r].left

\* The picture is there: it is answered, or the folder takes this file.
Succeeds(r, pic) ==
  req' = [req EXCEPT ![r] = IF Probing(r)
            THEN [@ EXCEPT !.at = "load", !.size = req[r].want, !.left = {}, !.pic = None]
            ELSE [@ EXCEPT !.at = "served", !.pic = pic]]

\* No picture.  A folder tries its next file, unless the time is over.
Fails(r) ==
  req' = [req EXCEPT ![r] = IF Probing(r) /\ ~req[r].gone
            THEN [Nobody EXCEPT !.at = "probe", !.left = req[r].left \ {req[r].path}, !.want = req[r].want]
            ELSE [Nobody EXCEPT !.at = "failed"]]

\* The client navigates away, or 5 or 60 seconds are over.
Cancel(r) ==
  /\ Fault
  /\ req[r].at \notin {"idle", "served", "failed"} /\ ~req[r].gone
  /\ req' = [req EXCEPT ![r].gone = TRUE]
  /\ UNCHANGED <<kind, file, born, cache, locked, slots, change, poisoned, returned>>

-----------------------------------------------------------------------------
(* Making a picture: GetPreviewForFile, GeneratePreviewWithMD5, CreatePreview *)

\* The semaphore of the generator; images and album art need none.
SlotOf(r) ==
  LET k == kind[req[r].path] IN
  CASE k = "heic" -> "image" [] k \in {"doc", "office", "video"} -> k [] OTHER -> "none"

\* FileCache.Load takes no lock.
Load(r) ==
  /\ req[r].at = "load"
  /\ IF req[r].gone THEN Fails(r)
     ELSE IF cache[KeyOf(r)] # None THEN Succeeds(r, cache[KeyOf(r)])
     ELSE Steps(r, IF SlotOf(r) = "none" THEN "work" ELSE "acquire")
  /\ UNCHANGED <<kind, file, born, cache, locked, slots, change, faults, poisoned, returned>>

Take(k) == slots[k] < Capacity[k] /\ slots' = [slots EXCEPT ![k] = @ + 1]
Release(k) == slots' = [slots EXCEPT ![k] = @ - 1]

\* FFmpegService.Acquire and its like: a slot, or the end of the request.
Acquire(r) ==
  /\ req[r].at = "acquire"
  /\ \/ Take(SlotOf(r)) /\ Steps(r, "work")
     \/ req[r].gone /\ Fails(r) /\ UNCHANGED slots
  /\ UNCHANGED <<kind, file, born, cache, locked, change, faults, poisoned, returned>>

GiveBackWhenDone(r) ==
  IF SlotOf(r) = "none" \/ req[r].gone THEN UNCHANGED slots ELSE Release(SlotOf(r))
\* The slot is given back when the generator returns, in every case.
GiveBack(r) == IF SlotOf(r) = "none" THEN UNCHANGED slots ELSE Release(SlotOf(r))

\* A generator opens the file by its path, whatever is there by now.  Who is
\* gone gets no further than this, except with a picture to be stored as it is.
Generates(r, pic, next) ==
  /\ GiveBack(r)
  /\ IF pic = None \/ (pic \in Broken /\ SlotOf(r) # "none")
       THEN Fails(r) /\ UNCHANGED poisoned
       ELSE /\ IF req[r].gone /\ next = "resize"
                 THEN Fails(r)
                 ELSE req' = [req EXCEPT ![r].pic = pic, ![r].at = next]
            /\ poisoned' = IF pic # req[r].ver
                             THEN poisoned \cup {<<req[r].path, req[r].ver>>} ELSE poisoned

GenerateImageFromDoc(r, p) == kind[p] = "doc" /\ Generates(r, file[p], "resize")
\* The document server fetches the file from this server.
GenerateOfficePreview(r, p) == kind[p] = "office" /\ Generates(r, file[p], "resize")
GenerateVideoPreview(r, p) == kind[p] = "video" /\ Generates(r, file[p], "resize")
\* Has the size that was asked for.
ConvertHEIC(r, p) == kind[p] = "heic" /\ Generates(r, file[p], "store")
ReadImage(r, p) == kind[p] = "image" /\ Generates(r, file[p], "resize")
\* Came with what FileInfoFaster told.
AlbumArt(r, p) == kind[p] = "audio" /\ Generates(r, req[r].ver, "resize")

Work(r) ==
  LET p == req[r].path IN
  /\ req[r].at = "work"
  /\ \/ GenerateImageFromDoc(r, p) \/ GenerateOfficePreview(r, p) \/ GenerateVideoPreview(r, p)
     \/ ConvertHEIC(r, p) \/ ReadImage(r, p) \/ AlbumArt(r, p)
  /\ UNCHANGED <<kind, file, born, cache, locked, change, faults, returned>>

\* Resize waits for its slot with a context of its own, which nobody ends.
StartResize(r) ==
  /\ req[r].at = "resize"
  /\ Take("image")
  /\ Steps(r, "resizing")
  /\ UNCHANGED <<kind, file, born, cache, locked, change, faults, poisoned, returned>>

Resize(r) ==
  /\ req[r].at = "resizing"
  /\ Release("image")
  /\ IF req[r].pic \in Broken THEN Fails(r) ELSE Steps(r, "store")
  /\ UNCHANGED <<kind, file, born, cache, locked, change, faults, poisoned, returned>>

-----------------------------------------------------------------------------
(* The cache: FileCache *)

\* os.WriteFile makes or empties the file first ...
Store(r) ==
  /\ req[r].at = "store"
  /\ KeyOf(r) \notin locked
  /\ locked' = locked \cup {KeyOf(r)}
  /\ cache' = [cache EXCEPT ![KeyOf(r)] = Empty]
  /\ Steps(r, "write")
  /\ UNCHANGED <<kind, file, born, slots, change, faults, poisoned, returned>>

\* Mutant: a write that fails returns without its lock.
WriteKeepsLock(r) ==
  /\ req[r].at = "write"
  /\ \/ cache' = [cache EXCEPT ![KeyOf(r)] = req[r].pic] /\ locked' = locked \ {KeyOf(r)} /\ UNCHANGED faults
     \/ Fault /\ UNCHANGED <<cache, locked>>
  /\ Succeeds(r, req[r].pic)
  /\ UNCHANGED <<kind, file, born, slots, change, poisoned, returned>>

\* ... and writes the picture.  A full disk is logged, and the picture answered.
Write(r) ==
  /\ req[r].at = "write"
  /\ locked' = locked \ {KeyOf(r)}
  /\ \/ cache' = [cache EXCEPT ![KeyOf(r)] = req[r].pic] /\ UNCHANGED faults
     \/ Fault /\ UNCHANGED cache
  /\ Succeeds(r, req[r].pic)
  /\ UNCHANGED <<kind, file, born, slots, change, poisoned, returned>>

\* The large thumbnail is deleted only when the deletion of the small one failed.
DelThumbs ==
  LET k == CacheKey(change.path, change.ver, "small") IN
  /\ change.at = "looked"
  /\ k \notin locked
  /\ cache' = [cache EXCEPT ![k] = None]
  /\ change' = [change EXCEPT !.at = "deleted"]
  /\ UNCHANGED <<kind, file, born, locked, slots, req, faults, poisoned, returned>>

-----------------------------------------------------------------------------
(* Changing files: resourcePostHandler, resourceDeleteHandler, patchAction *)

Look(p, what) ==
  /\ Fault
  /\ change.at = "idle" /\ file[p] # None
  /\ born < MaxContent \/ what # "overwrite"
  /\ change' = [at |-> "looked", what |-> what, path |-> p, ver |-> file[p]]
  /\ UNCHANGED <<kind, file, born, cache, locked, slots, req, poisoned, returned>>

\* Whoever is at work for a path has now seen what it became.
Becomes(f) ==
  /\ file' = f
  /\ req' = [r \in Viewers |->
       IF req[r].path # None THEN [req[r] EXCEPT !.seen = @ \cup {f[req[r].path]}] ELSE req[r]]

Apply ==
  LET p == change.path IN
  /\ change.at = "deleted"
  /\ change' = Resting
  /\ \/ /\ change.what = "overwrite"
        /\ born' = born + 1
        /\ Becomes([file EXCEPT ![p] = born + 1])
        /\ UNCHANGED returned
     \/ /\ change.what = "delete"
        /\ Becomes([file EXCEPT ![p] = None])
        /\ UNCHANGED <<born, returned>>
     \/ /\ change.what = "move"
        /\ \E q \in Names :
             /\ file[q] = None /\ Becomes([file EXCEPT ![q] = file[p], ![p] = None])
             /\ returned' = returned \cup ({<<q, file[p]>>} \cap poisoned)
        /\ UNCHANGED born
     \/ /\ change.what = "move" /\ \A q \in Names : file[q] # None
        /\ UNCHANGED <<file, born, req, returned>>
  /\ UNCHANGED <<kind, cache, locked, slots, faults, poisoned>>

\* What was being written to the cache stays as it is.
Restart ==
  /\ Fault
  /\ req' = [r \in Viewers |->
       IF req[r].at \in {"idle", "served", "failed"} THEN req[r] ELSE [Nobody EXCEPT !.at = "failed"]]
  /\ slots' = [k \in Kinds |-> 0]
  /\ locked' = {}
  /\ change' = Resting
  /\ UNCHANGED <<kind, file, born, cache, poisoned, returned>>

Serve(r) ==
  \/ \E p \in Names, s \in PreviewSizes : AskFile(r, p, s)
  \/ \E s \in PreviewSizes : AskFolder(r, s)
  \/ Probe(r) \/ Cancel(r) \/ Load(r) \/ Acquire(r) \/ Work(r)
  \/ StartResize(r) \/ Resize(r) \/ Store(r) \/ Write(r)

Next ==
  \/ \E r \in Viewers : Serve(r)
  \/ \E p \in Names, what \in {"overwrite", "delete", "move"} : Look(p, what)
  \/ DelThumbs \/ Apply \/ Restart

Spec == Init /\ [][Next]_vars

-----------------------------------------------------------------------------
(* Properties *)

Holds(r, k) ==
  \/ req[r].at = "work" /\ SlotOf(r) = k
  \/ req[r].at = "resizing" /\ k = "image"

\* Every slot in use is held by a request that will give it back, however that
\* request ends, and no more are in use than there are: one for documents,
\* because of the C library.
SlotsHeld ==
  \A k \in Kinds : /\ slots[k] = Cardinality({r \in Viewers : Holds(r, k)})
                   /\ slots[k] <= Capacity[k]

\* Every lock of the cache is held by one request that is writing that picture and
\* will give it back, whether or not the disk is full.
LocksHeld ==
  /\ locked = {KeyOf(r) : r \in {q \in Viewers : req[q].at = "write"}}
  /\ \A q, r \in Viewers : req[q].at = "write" /\ req[r].at = "write" /\ KeyOf(q) = KeyOf(r) => q = r

\* A picture shows what was at the path when it was asked for, or came there before
\* the answer, although who makes one looks at the file, reads it later, and files
\* the picture under what it looked at.  Two exceptions: a content that was replaced
\* while its picture was made, and is moved back later, finds the other's picture;
\* and a picture that a full disk or a crash left without bytes is answered as it is.
ShowsWhatWasThere ==
  \A r \in Viewers :
    (req[r].at = "served" /\ req[r].pic # Empty /\ <<req[r].path, req[r].ver>> \notin returned) =>
      req[r].pic \in req[r].seen

\* All of it.
PicturesMatch == SlotsHeld /\ LocksHeld /\ ShowsWhatWasThere
=============================================================================
