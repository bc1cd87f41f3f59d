----------------------------- MODULE Downloads ------------------------------
(***************************************************************************)
(* Downloads: rawFilesHandler of http/raw.go with what it calls.           *)
(*                                                                         *)
(* One file is streamed, at the rate of the share if it has one.  Several  *)
(* files, or a folder, become an archive in the cache directory, which is  *)
(* streamed and removed.  The limit of an archive is compared with what    *)
(* the index knew; the archive is made from what a walk over the disk      *)
(* finds, while other requests change files and rules.                     *)
(*                                                                         *)
(* Nodes are numbered in the order in which filepath.Walk comes to them.   *)
(* Only sizes matter of what is in a file.                                 *)
(***************************************************************************)
EXTENDS Naturals, FiniteSets, Functions

CONSTANTS
  Nodes,        \* files and folders, numbers in the order of a walk
  Sizes,        \* of each node at first, 0 for folders
  Parent,       \* the folder a node is in; Top for what is not in one
  Folders,
  Requests,     \* lists of nodes somebody may ask for, and in which form
  MaxArchive,   \* MaxArchiveSizeGB
  Bandwidth,    \* MaxBandwidth of the share, in units per second, or Unlimited
  Buffer,       \* what one Read of io.Copy asks for: 32 KB
  MaxSize,      \* bound: sizes of files
  Changes       \* bound: changes of files and rules, restarts, clients that leave

Top == 0
Unlimited == 0
Missing == MaxSize + 1                          \* not there

\* A folder comes before what is in it.
DownloadsAssumption ==
  /\ IsFiniteSet(Nodes) /\ Nodes \subseteq Nat \ {Top}
  /\ Folders \subseteq Nodes
  /\ Parent \in [Nodes -> Folders \cup {Top}] /\ \A n \in Nodes : Parent[n] < n
  /\ MaxSize \in Nat /\ Sizes \in [Nodes -> 0..MaxSize] /\ \A n \in Folders : Sizes[n] = 0
  /\ \A r \in Requests : r.list \subseteq Nodes
  /\ MaxArchive \in Nat /\ Bandwidth \in Nat /\ Buffer \in Nat \ {0}

VARIABLES
  size,         \* the size of a node, 0 for folders, or Missing
  known,        \* the size of a node in the index, folders with what is in them
  denied,       \* the nodes a rule denies to the user
  req,          \* the request and the handler
  archive,      \* the nodes in the file in the cache directory, or NoArchive
  changes,
  \* what the properties need to remember
  always,       \* nodes that were there and allowed all the time since the request
  ever,         \* nodes that were there and allowed at some time since
  behind        \* the index did not know the sizes, or sizes or rules changed since

vars == <<size, known, denied, req, archive, changes, always, ever, behind>>

NoArchive == {Top}
Idle == [at |-> "idle", list |-> {}, form |-> "zip", pending |-> {}, cur |-> Top, told |-> 0, sum |-> 0]

\* A node, the folder it is in, the folder that is in, ...
Above[n \in Nodes] == {n} \cup IF Parent[n] = Top THEN {} ELSE Above[Parent[n]]
Inside(n, m) == m \in Above[n]
Below(S) == {n \in Nodes : \E m \in S : Inside(n, m)}
Weight(S) == SumFunctionOnSet([n \in Nodes |-> IF size[n] = Missing THEN 0 ELSE size[n]], S)

\* store.Access.Permitted: a rule on a folder is one on all that is in it.
Permitted(n) == \A m \in denied : ~Inside(n, m)
There(n) == size[n] # Missing
Visible == {n \in Nodes : There(n) /\ Permitted(n)}

Init ==
  /\ size = Sizes
  /\ known = [n \in Nodes |-> Weight(Below({n}))]
  /\ denied \in {{}} \cup {{n} : n \in Nodes}
  /\ req = Idle
  /\ archive = NoArchive
  /\ changes = 0
  /\ always = {} /\ ever = {}
  /\ behind = FALSE

Under == {"idle", "walk", "copy", "send", "stream"}
\* What happens when the answer is given is of no interest.
Change == changes < Changes /\ req.at \in Under /\ changes' = changes + 1

-----------------------------------------------------------------------------
(* The request: rawFilesHandler *)

Ends(how) == req' = [req EXCEPT !.at = how, !.pending = {}]

EstimateOfFirst(list) ==
  LET n == CHOOSE m \in list : \A k \in list : m <= k IN IF Permitted(n) THEN known[n] ELSE 0
\* computeArchiveSize
Estimate(list) == SumFunctionOnSet([n \in Nodes |-> IF Permitted(n) THEN known[n] ELSE 0], list)

Single(list) == \E n \in Nodes \ Folders : list = {n}

\* Several files, or a folder
BeginArchive(r) ==
  /\ req.at = "idle" /\ ~Single(r.list)
  /\ \A n \in r.list : Permitted(n) => There(n)
  /\ always' = Visible /\ ever' = Visible
  /\ behind' = \E n \in r.list : known[n] # Weight(Below({n}))
  /\ IF MaxArchive # Unlimited /\ Estimate(r.list) > MaxArchive
       THEN /\ req' = [Idle EXCEPT !.at = "refused"]
            /\ UNCHANGED archive
       ELSE /\ req' = [Idle EXCEPT !.at = "walk", !.list = r.list, !.form = r.form, !.pending = r.list]
            /\ archive' = {}
  /\ UNCHANGED <<size, known, denied, changes>>

\* One file: its length is told before it is sent.
BeginSingle(r) ==
  LET n == CHOOSE m \in r.list : TRUE IN
  /\ req.at = "idle" /\ Single(r.list)
  /\ req' = IF Permitted(n) /\ There(n)
              THEN [Idle EXCEPT !.at = "stream", !.list = r.list, !.cur = n, !.told = size[n]]
              ELSE [Idle EXCEPT !.at = "refused"]
  /\ UNCHANGED <<size, known, denied, archive, changes, always, ever, behind>>

\* http.ServeContent on a throttledReadSeeker: what is read at once must not be
\* more than the bucket holds, which is what flows in during a second.
Stream ==
  LET left == req.told - req.sum
      read == IF left < Buffer THEN left ELSE Buffer
  IN
  /\ req.at = "stream"
  /\ req' = IF There(req.cur) /\ size[req.cur] < req.sum + read THEN [req EXCEPT !.at = "cut"]
            ELSE IF Bandwidth # Unlimited /\ read > Bandwidth
                   THEN [req EXCEPT !.at = "cut", !.sum = @ + read]
            ELSE [req EXCEPT !.sum = @ + read, !.at = IF left = read THEN "done" ELSE "stream"]
  /\ UNCHANGED <<size, known, denied, archive, changes, always, ever, behind>>

-----------------------------------------------------------------------------
(* The archive: createZip, createTarGz, addFile, addSingleFile *)

SkipsLikeFolders(n, dir) == IF dir THEN {n} ELSE {m \in Nodes : Parent[m] = Parent[n]}
\* What the walk leaves out with a node that is not allowed: filepath.SkipDir for
\* a folder, nothing more for a file.
Skips(n, dir) == {n}

\* The next node.  A folder is listed when the walk comes to it; what was listed
\* and is gone by then ends the archive, and leaves it where it is.
Walk ==
  LET n == CHOOSE m \in req.pending : \A k \in req.pending : m <= k
      rest == req.pending \ {n}
  IN
  /\ req.at = "walk" /\ req.pending # {}
  /\ IF ~There(n) /\ (n \in req.list => Permitted(n))
       THEN Ends("failed") /\ UNCHANGED archive
     ELSE IF ~Permitted(n)
       THEN req' = [req EXCEPT !.pending = rest \ Skips(n, n \in Folders)] /\ UNCHANGED archive
     ELSE IF n \in Folders
       THEN /\ req' = [req EXCEPT !.pending = rest \cup {m \in Nodes : Parent[m] = n /\ There(m)}]
            /\ archive' = archive \cup {n}
     ELSE /\ req' = [req EXCEPT !.at = "copy", !.pending = rest, !.cur = n, !.told = size[n]]
          /\ UNCHANGED archive
  /\ UNCHANGED <<size, known, denied, changes, always, ever, behind>>

\* io.Copy: a tar header has the length, and another length is an error.
Copy ==
  LET now == IF There(req.cur) THEN size[req.cur] ELSE req.told IN
  /\ req.at = "copy"
  /\ IF req.form = "tar.gz" /\ now # req.told
       THEN Ends("failed") /\ UNCHANGED archive
       ELSE /\ req' = [req EXCEPT !.at = "walk", !.sum = @ + now]
            /\ archive' = archive \cup {req.cur}
  /\ UNCHANGED <<size, known, denied, changes, always, ever, behind>>

Close ==
  /\ req.at = "walk" /\ req.pending = {}
  /\ req' = [req EXCEPT !.at = "send"]
  /\ UNCHANGED <<size, known, denied, archive, changes, always, ever, behind>>

\* Removed after streaming, whether the client was still there or not.
Send ==
  /\ req.at = "send"
  /\ \/ Ends("done") /\ UNCHANGED changes
     \/ Ends("left") /\ Change
  /\ archive' = NoArchive
  /\ UNCHANGED <<size, known, denied, always, ever, behind>>

-----------------------------------------------------------------------------
(* Meanwhile *)

\* What is visible, with sizes s and rules d.
Sees ==
  /\ always' = always \cap Visible'
  /\ ever' = ever \cup Visible'
  /\ UNCHANGED <<req, archive, known>>

Write(n, k) ==
  /\ Change
  /\ n \notin Folders /\ size[n] # k
  /\ (Parent[n] # Top => There(Parent[n]))
  /\ size' = [size EXCEPT ![n] = k]
  /\ behind' = TRUE
  /\ UNCHANGED denied
  /\ Sees

Delete(n) ==
  /\ Change
  /\ There(n)
  /\ size' = [m \in Nodes |-> IF Inside(m, n) THEN Missing ELSE size[m]]
  /\ behind' = TRUE
  /\ UNCHANGED denied
  /\ Sees

Rule(n) ==
  /\ Change
  /\ denied' = IF n \in denied THEN denied \ {n} ELSE denied \cup {n}
  /\ behind' = TRUE
  /\ UNCHANGED size
  /\ Sees

\* The scanner; the index is read before anything else.
Scan ==
  /\ req.at = "idle" /\ known # [n \in Nodes |-> Weight(Below({n}))]
  /\ known' = [n \in Nodes |-> Weight(Below({n}))]
  /\ UNCHANGED <<size, denied, req, archive, changes, always, ever, behind>>

Restart ==
  /\ Change
  /\ req.at # "idle"
  /\ Ends("failed")
  /\ UNCHANGED <<size, known, denied, archive, always, ever, behind>>

Next ==
  \/ \E r \in Requests : BeginArchive(r) \/ BeginSingle(r)
  \/ Stream \/ Walk \/ Copy \/ Close \/ Send
  \/ \E n \in Nodes : Delete(n) \/ Rule(n) \/ \E k \in 0..MaxSize : Write(n, k)
  \/ Scan \/ Restart

Spec == Init /\ [][Next]_vars

-----------------------------------------------------------------------------
(* Properties *)

\* An archive has everything below what was asked for that was there for the
\* user from the request to the end of the walk, and nothing that never was: a
\* denied file does not take its neighbours with it, nor a denied folder come in
\* with an allowed one.
ArchiveIsExact ==
  req.at = "send" => /\ always \cap Below(req.list) \subseteq archive
                     /\ archive \subseteq ever \cap Below(req.list)

\* No archive is larger, before it is packed, than the limit, as long as the
\* index knew the sizes and nothing was written or allowed meanwhile.
ArchiveWithinLimit ==
  (req.at = "send" /\ MaxArchive # Unlimited /\ ~behind) => req.sum <= MaxArchive
=============================================================================
