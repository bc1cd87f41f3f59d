------------------------------ MODULE Uploads ------------------------------
(***************************************************************************)
(* Uploads into a user's folder: resourcePostHandler and resourcePutHandler*)
(* of http/resource.go, the files they write (adapters/fs/files/files.go,  *)
(* adapters/fs/fileutils/file.go) and the browser's upload manager         *)
(* (frontend/src/utils/upload.js), which cuts a large file into chunks,    *)
(* sends one at a time, and may pause, resume, cancel or retry.            *)
(*                                                                         *)
(* Every chunk is a request of its own.  The chunks of one path meet in a  *)
(* temporary file whose name is the hash of the path; the request that     *)
(* writes the last one moves it to the path.  A file is an inode: a        *)
(* request that opened it goes on writing to it wherever it is moved to.   *)
(* The unit of length is one chunk; a file sent in one piece, or saved by  *)
(* the editor, is one unit long.  An interrupted body is written whole or  *)
(* not at all: the bytes of half a chunk are written again when it is sent *)
(* again.                                                                  *)
(***************************************************************************)
EXTENDS Naturals, Sequences, FiniteSets, FiniteSetsExt, Functions

CONSTANTS
  Clients,     \* browsers (or tabs), each with one file to send
  Handlers,    \* requests the server works on at a time
  Paths,       \* where the files go
  Plans,       \* what each client sends: [Clients -> [path, kind, size]]
  Volumes,     \* is the cache directory on the volume of the files? a set of answers
  Quota,       \* what the user may store
  Mishaps      \* bound: requests lost or aborted, deletions, restarts

Kinds == {"chunks", "plain", "save", "folder"}

\* Sent in chunks, in one piece or by the editor, or a folder; only the first has
\* more than one unit.
UploadsAssumption ==
  /\ IsFiniteSet(Paths) /\ IsFiniteSet(Handlers)
  /\ Plans \subseteq [Clients -> [path : Paths, kind : Kinds, size : Nat \ {0}]]
  /\ \A plan \in Plans, c \in Clients : plan[c].kind # "chunks" => plan[c].size = 1
  /\ Volumes \subseteq BOOLEAN
  /\ Quota \in Nat /\ Mishaps \in Nat

Hole == "hole"          \* what a file reads as where nobody wrote
None == 0
Inodes == 1..(2 * Cardinality(Paths) + Cardinality(Handlers))
Folder == Cardinality(Inodes) + 1      \* no inode: a directory is at the path

VARIABLES
  up,        \* what each browser's upload manager knows of its file
  req,       \* the requests in work
  temp,      \* the inode of the temporary file of a path, or None
  dest,      \* what is at a path: an inode, Folder or None
  file,      \* the contents of the inodes: by whom each unit was sent
  removing,  \* temporary files a goroutine of MoveFile has yet to remove
  indexed,   \* what the index says the user's files take
  owed,      \* has a goroutine yet to refresh the index?
  oneVolume, mishaps,
  \* what the properties need to remember
  mixed,     \* has anyone else had a hand in this client's path?
  again,     \* may what this client sends end the file twice?
  accepted,  \* passed the quota and is not yet stored
  raced      \* has a quota been checked while something accepted was not counted?

vars == <<up, req, temp, dest, file, removing, indexed, owed, oneVolume, mishaps,
          mixed, again, accepted, raced>>
history == <<mixed, again, accepted, raced>>

Idle == [at |-> "idle"]
Busy(h) == req[h].at # "idle"
Length(p) == IF dest[p] \in Inodes THEN Len(file[dest[p]]) ELSE 0
Used == SumFunction([p \in Paths |-> Length(p)])
LastChunk(r) == r.off + 1 >= r.size

\* Seek and io.Copy: what is beyond the end is filled with holes first.
Put(s, off, c) ==
  [i \in 1..(IF off < Len(s) THEN Len(s) ELSE off + 1) |->
     IF i = off + 1 THEN c ELSE IF i <= Len(s) THEN s[i] ELSE Hole]

Held == {temp[p] : p \in Paths} \cup {dest[p] : p \in Paths}
          \cup {req[h].fd : h \in {h \in Handlers : Busy(h)}}
Fresh == Min(Inodes \ Held)

Init ==
  /\ \E plan \in Plans :
       up = [c \in Clients |-> [at |-> "pending", path |-> plan[c].path,
               kind |-> plan[c].kind, size |-> plan[c].size, off |-> 0,
               over |-> FALSE, by |-> None]]
  /\ req = [h \in Handlers |-> Idle]
  /\ temp = [p \in Paths |-> None]
  /\ dest = [p \in Paths |-> None]
  /\ file = [i \in Inodes |-> << >>]
  /\ removing = [p \in Paths |-> 0]
  /\ indexed = 0 /\ owed = FALSE /\ mishaps = 0
  /\ oneVolume \in Volumes
  /\ mixed = [c \in Clients |-> FALSE]
  /\ again = [c \in Clients |-> FALSE]
  /\ accepted = [c \in Clients |-> FALSE]
  /\ raced = FALSE

-----------------------------------------------------------------------------
(* The browser *)

Request(c, h, off, over) ==
  /\ ~Busy(h)
  /\ req' = [req EXCEPT ![h] =
       [at |-> "arrived", c |-> c, path |-> up[c].path, kind |-> up[c].kind,
        off |-> off, size |-> up[c].size, over |-> over, fd |-> None]]
  /\ up' = [up EXCEPT ![c].at = "sending", ![c].off = off, ![c].over = over, ![c].by = h]

\* Someone else's data may be on the way to this path, or lie there already.
Crowded(c) ==
  \/ temp[up[c].path] # None
  \/ \E h \in Handlers : Busy(h) /\ req[h].c # c /\ req[h].path = up[c].path

\* start, startFileUpload: the first request of an upload.
Start(c, h) ==
  /\ up[c].at = "pending"
  /\ Request(c, h, 0, up[c].over)
  /\ mixed' = [mixed EXCEPT ![c] = @ \/ Crowded(c)]
  /\ UNCHANGED <<temp, dest, file, removing, indexed, owed, oneVolume, mishaps,
                 again, accepted, raced>>

\* What this client sent before may yet be written, as the whole file or its
\* end, or the temporary file of what it sent before may yet be removed.
Twin(c) ==
  \/ removing[up[c].path] > 0
  \/ \E h \in Handlers : /\ Busy(h) /\ req[h].c = c
                          /\ (up[c].kind # "chunks" \/ LastChunk(req[h]))

\* resume: the chunk whose answer did not arrive is sent again.
Resume(c, h) ==
  /\ up[c].at = "paused"
  /\ Request(c, h, up[c].off, up[c].over)
  /\ again' = [again EXCEPT ![c] = @ \/ Twin(c) \/ (up[c].kind = "chunks" /\ LastChunk(up[c]))]
  /\ UNCHANGED <<temp, dest, file, removing, indexed, owed, oneVolume, mishaps,
                 mixed, accepted, raced>>

\* retry: from the beginning; after a conflict the user may choose to replace.
Retry(c, h) ==
  /\ up[c].at \in {"error", "conflict"}
  /\ \E over \in {FALSE} \cup {up[c].at = "conflict"} : Request(c, h, 0, over)
  /\ again' = [again EXCEPT ![c] = @ \/ Twin(c)]
  /\ UNCHANGED <<temp, dest, file, removing, indexed, owed, oneVolume, mishaps,
                 mixed, accepted, raced>>

Mishap == mishaps < Mishaps /\ mishaps' = mishaps + 1

\* pause aborts the request, a broken connection loses its answer, cancel
\* forgets the upload: what the server makes of the request is not known.
Leave(c) ==
  /\ up[c].at = "sending"
  /\ Mishap
  /\ \E at \in {"paused", "error", "gone"} : up' = [up EXCEPT ![c].at = at, ![c].by = None]
  /\ UNCHANGED <<req, temp, dest, file, removing, indexed, owed, oneVolume, history>>

-----------------------------------------------------------------------------
(* The server *)

Goes(h, at) == req' = [req EXCEPT ![h].at = at]

\* The answer, which only the client that still waits for it reads.
Answer(h, code) ==
  LET c == req[h].c
      u == up[c]
      next == CASE code = "conflict" -> [u EXCEPT !.at = "conflict", !.by = None]
                [] code = "error"    -> [u EXCEPT !.at = "error", !.by = None]
                [] code = "ok"       ->
                     IF u.kind = "chunks" /\ u.off + 1 < u.size
                       THEN [u EXCEPT !.off = @ + 1, !.at = "between", !.by = None]
                       ELSE [u EXCEPT !.at = "done", !.by = None]
  IN /\ req' = [req EXCEPT ![h] = Idle]
     /\ up' = [up EXCEPT ![c] = IF u.at = "sending" /\ u.by = h THEN next ELSE u]

\* The loop of startFileUpload goes on with the next chunk.
Continue(c, h) ==
  /\ up[c].at = "between"
  /\ Request(c, h, up[c].off, up[c].over)
  /\ UNCHANGED <<temp, dest, file, removing, indexed, owed, oneVolume, mishaps, history>>

Exists(p) == dest[p] # None
OtherType(r) == Exists(r.path) /\ ((dest[r.path] = Folder) # (r.kind = "folder"))
quotaExceededSoFar(r) == indexed > Quota
quotaExceeded(r) == indexed + r.size > Quota

\* The conflicts a request is refused for: another type, at any chunk; a file
\* that is there, at the first chunk.  Saving from the editor asks for neither.
Conflicts(r) ==
  /\ r.kind # "save" /\ ~r.over
  /\ OtherType(r) \/ (r.kind # "folder" /\ r.off = 0 /\ Exists(r.path))

\* Only the first chunk is counted, against the length the client announces;
\* a file in one piece and a save against the length of the body.
Counted(r) == r.kind # "folder" /\ r.off = 0

\* Something another client sends, or has sent, is not in the index yet.
Uncounted(c) ==
  \/ owed
  \/ \E d \in Clients \ {c} : accepted[d]
  \/ \E h \in Handlers : Busy(h) /\ req[h].c # c

\* resourcePostHandler and resourcePutHandler up to the first write.
Check(h) ==
  LET r == req[h] IN
  /\ r.at = "arrived"
  /\ \/ /\ Conflicts(r) /\ Answer(h, "conflict")
        /\ UNCHANGED <<accepted, raced>>
     \/ /\ ~Conflicts(r) /\ Counted(r) /\ quotaExceeded(r)
        /\ Answer(h, "error")
        /\ UNCHANGED <<accepted, raced>>
     \/ /\ ~Conflicts(r) /\ ~(Counted(r) /\ quotaExceeded(r))
        /\ Goes(h, "open")
        /\ accepted' = [accepted EXCEPT ![r.c] = @ \/ Counted(r)]
        /\ raced' = (raced \/ (Counted(r) /\ Uncounted(r.c)))
        /\ UNCHANGED up
  /\ UNCHANGED <<temp, dest, file, removing, indexed, owed, oneVolume, mishaps, mixed, again>>

\* Every other upload under way to this path has met this one.
Meets(r) == mixed' = [c \in Clients |-> mixed[c] \/ (c # r.c /\ up[c].path = r.path)]
Lands(r) ==
  /\ raced' = (raced \/ mixed[r.c] \/ ~accepted[r.c])
  /\ accepted' = [accepted EXCEPT ![r.c] = FALSE]

\* os.OpenFile(tempFilePath, O_CREATE|O_WRONLY): what is there stays.
OpenTemp(h) ==
  LET r == req[h] IN
  /\ r.at = "open" /\ r.kind = "chunks"
  /\ IF temp[r.path] # None
       THEN /\ req' = [req EXCEPT ![h].at = "write", ![h].fd = temp[r.path]]
            /\ UNCHANGED <<temp, file>>
       ELSE /\ req' = [req EXCEPT ![h].at = "write", ![h].fd = Fresh]
            /\ temp' = [temp EXCEPT ![r.path] = Fresh]
            /\ file' = [file EXCEPT ![Fresh] = << >>]
  /\ Meets(r)
  /\ UNCHANGED <<up, dest, removing, indexed, owed, oneVolume, mishaps, again, accepted, raced>>

\* The chunk, at its offset; or nothing, when the body breaks off.
OffsetEnd(r) == Len(file[r.fd])
Offset(r) == r.off

\* What is at the path already grows, and no refresh of the index follows.
Grows(r) == r.fd = dest[r.path] /\ r.off >= Len(file[r.fd])
WriteChunk(h) ==
  LET r == req[h] IN
  /\ r.at = "write" /\ r.kind = "chunks"
  /\ \/ /\ file' = [file EXCEPT ![r.fd] = Put(@, Offset(r), r.c)]
        /\ raced' = (raced \/ Grows(r))
        /\ IF LastChunk(r) THEN Goes(h, "move") /\ UNCHANGED up ELSE Answer(h, "ok")
     \/ /\ up[r.c].by # h
        /\ Answer(h, "error")
        /\ UNCHANGED <<file, raced>>
  /\ Meets(r)
  /\ UNCHANGED <<temp, dest, removing, indexed, owed, oneVolume, mishaps, again, accepted>>

\* MoveFile: a rename, or where the volumes differ a copy and a goroutine that
\* removes the temporary file later, by its name.  The index is refreshed by
\* a goroutine too.
MoveFile(h) ==
  LET r == req[h]
      p == r.path
      t == temp[p]
  IN
  /\ r.at = "move"
  /\ IF t = None \/ dest[p] = Folder
       THEN /\ Answer(h, "error")
            /\ UNCHANGED <<temp, dest, file, removing, owed, accepted, raced>>
       ELSE /\ \/ /\ oneVolume
                  /\ dest' = [dest EXCEPT ![p] = t]
                  /\ temp' = [temp EXCEPT ![p] = None]
                  /\ UNCHANGED <<file, removing>>
               \/ /\ ~oneVolume
                  /\ LET i == IF dest[p] = None THEN Fresh ELSE dest[p] IN
                       /\ dest' = [dest EXCEPT ![p] = i]
                       /\ file' = [file EXCEPT ![i] = file[t]]
                  /\ removing' = [removing EXCEPT ![p] = @ + 1]
                  /\ UNCHANGED temp
            /\ Answer(h, "ok")
            /\ owed' = TRUE
            /\ Lands(r)
  /\ Meets(r)
  /\ UNCHANGED <<indexed, oneVolume, mishaps, again>>

\* The goroutine of MoveFile.
RemoveTemp(p) ==
  /\ removing[p] > 0
  /\ removing' = [removing EXCEPT ![p] = @ - 1]
  /\ temp' = [temp EXCEPT ![p] = None]
  /\ UNCHANGED <<up, req, dest, file, indexed, owed, oneVolume, mishaps, history>>

\* WriteFile: a folder in the way is removed, the file is opened empty ...
Truncate(h) ==
  LET r == req[h]
      i == IF dest[r.path] \in Inodes THEN dest[r.path] ELSE Fresh
  IN
  /\ r.at = "open" /\ r.kind \in {"plain", "save"}
  /\ dest' = [dest EXCEPT ![r.path] = i]
  /\ file' = [file EXCEPT ![i] = << >>]
  /\ req' = [req EXCEPT ![h].at = "write", ![h].fd = i]
  /\ Meets(r)
  /\ UNCHANGED <<up, temp, removing, indexed, owed, oneVolume, mishaps, again, accepted, raced>>

\* ... and filled; a body that breaks off leaves it empty.
Fill(h) ==
  LET r == req[h] IN
  /\ r.at = "write" /\ r.kind \in {"plain", "save"}
  /\ \/ /\ file' = [file EXCEPT ![r.fd] = Put(@, 0, r.c)]
        /\ Goes(h, "refresh")
        /\ Lands(r)
        /\ UNCHANGED up
     \/ /\ up[r.c].by # h
        /\ Answer(h, "error")
        /\ UNCHANGED <<file, accepted, raced>>
  /\ Meets(r)
  /\ UNCHANGED <<temp, dest, removing, indexed, owed, oneVolume, mishaps, again>>

\* WriteDirectory: a file in the way is removed first.
WriteDirectory(h) ==
  LET r == req[h] IN
  /\ r.at = "open" /\ r.kind = "folder"
  /\ dest' = [dest EXCEPT ![r.path] = Folder]
  /\ Goes(h, "refresh")
  /\ Meets(r)
  /\ UNCHANGED <<up, temp, file, removing, indexed, owed, oneVolume, mishaps,
                 again, accepted, raced>>

\* RefreshIndex before the answer, and as the goroutine of a chunked upload.
RefreshAndAnswer(h) ==
  /\ req[h].at = "refresh"
  /\ indexed' = Used
  /\ Answer(h, "ok")
  /\ UNCHANGED <<temp, dest, file, removing, owed, oneVolume, mishaps, history>>

RefreshIndex ==
  /\ owed
  /\ indexed' = Used /\ owed' = FALSE
  /\ UNCHANGED <<up, req, temp, dest, file, removing, oneVolume, mishaps, history>>

\* Whatever is at the path is deleted, and its entry in the index with it.
DeleteFiles(p) ==
  /\ Exists(p)
  /\ Mishap
  /\ dest' = [dest EXCEPT ![p] = None]
  /\ indexed' = indexed - (IF indexed < Length(p) THEN indexed ELSE Length(p))
  /\ owed' = TRUE
  /\ mixed' = [c \in Clients |-> mixed[c] \/ up[c].path = p]
  /\ UNCHANGED <<up, req, temp, file, removing, oneVolume, again, accepted, raced>>

\* The temporary files stay; the first scan counts what is stored.
Restart ==
  /\ Mishap
  /\ req' = [h \in Handlers |-> Idle]
  /\ up' = [c \in Clients |-> IF up[c].at = "sending"
              THEN [up[c] EXCEPT !.at = "error", !.by = None] ELSE up[c]]
  /\ removing' = [p \in Paths |-> 0]
  /\ indexed' = Used /\ owed' = FALSE
  /\ UNCHANGED <<temp, dest, file, oneVolume, history>>

Browser(c) == Leave(c) \/ \E h \in Handlers :
  Start(c, h) \/ Continue(c, h) \/ Resume(c, h) \/ Retry(c, h)
Serve(h) ==
  \/ Check(h) \/ OpenTemp(h) \/ WriteChunk(h) \/ MoveFile(h)
  \/ Truncate(h) \/ Fill(h) \/ WriteDirectory(h) \/ RefreshAndAnswer(h)

Next ==
  \/ \E c \in Clients : Browser(c)
  \/ \E h \in Handlers : Serve(h)
  \/ \E p \in Paths : RemoveTemp(p) \/ DeleteFiles(p)
  \/ RefreshIndex
  \/ Restart

Spec == Init /\ [][Next]_vars

-----------------------------------------------------------------------------
(* Properties *)

Waiting == {"pending", "sending", "between", "paused", "error", "conflict", "done", "gone"}

\* What the variables hold; a request is open on an inode that exists, and no
\* path shares its inode with another path or with a temporary file.
UploadsTyped ==
  /\ \A c \in Clients : /\ up[c].at \in Waiting /\ up[c].off < up[c].size
                        /\ up[c].at = "sending" => req[up[c].by].c = c
  /\ temp \in [Paths -> Inodes \cup {None}]
  /\ dest \in [Paths -> Inodes \cup {None, Folder}]
  /\ \A p, q \in Paths : /\ dest[p] \in Inodes => dest[p] # temp[q]
                         /\ (dest[p] = dest[q] /\ dest[p] \in Inodes) => p = q
  /\ \A i \in Inodes : file[i] \in Seq(Clients \cup {Hole})
  /\ indexed \in Nat

Sent(c) == [i \in 1..up[c].size |-> c]

\* An upload the browser reports as complete is at its path, whole and in
\* order, however often it was paused, resumed, interrupted or retried and
\* whenever the server was restarted: provided that nobody else worked on the
\* path (no leftover of an earlier upload, no other upload, save or deletion)
\* and that its last chunk was not sent twice.
Whole ==
  \A c \in Clients :
    (up[c].at = "done" /\ up[c].kind # "folder" /\ ~mixed[c] /\ ~again[c]) =>
      /\ dest[up[c].path] \in Inodes
      /\ file[dest[up[c].path]] = Sent(c)

\* What is stored stays within the quota, as long as no upload is admitted
\* while another that was admitted is not counted yet: the quota is looked at
\* once, at the first chunk, against the sizes of the index.
QuotaHeld == raced \/ Used <= Quota
=============================================================================
