------------------------------- MODULE Office -------------------------------
(***************************************************************************)
(* Editing a document together: http/onlyOffice.go, the document keys of   *)
(* adapters/fs/files/files.go and utils.OnlyOfficeCache, and, as far as the*)
(* server depends on it, the OnlyOffice document server.                   *)
(*                                                                         *)
(* The server keeps one key per path for 48 hours, in memory.  Who opens a *)
(* document is sent to the document server with the key of its path; who   *)
(* arrives there with the same key edits the same copy.  The document      *)
(* server reports to a callback: it saves while the copy stays open        *)
(* (status 6), closes it with changes (2) or without (4), or could not     *)
(* build the file (3).  The handler forgets the key of a closed copy first *)
(* and writes the file afterwards.                                         *)
(*                                                                         *)
(* A document is the set of what went into it: the letter it began as and  *)
(* the editors who changed it.                                             *)
(***************************************************************************)
EXTENDS Naturals

CONSTANTS
  Editors,     \* browser tabs with the editor
  Paths,       \* where the documents are
  Letters,     \* what documents begin as
  MaxKeys,     \* bound: keys that are generated
  Faults       \* bound: failures, expired keys, removals, uploads, moves and restarts

Unset == 0
DocKeys == 1..MaxKeys
None == {}                                \* a file cut off and not yet written
Absent == {Unset}                         \* no file

VARIABLES
  file,       \* what is at a path: a set of letters and editors, or Absent
  key,        \* OnlyOfficeCache: the key of a path, or Unset
  made,       \* the keys generated so far
  editor,     \* where each editor is, and with which key
  copy,       \* the document server: what it has under a key
  call,       \* the callback of a key: its status and how far the handler is
  faults,
  \* what the properties need to remember
  stored,     \* what the document server was told is saved, by path
  apart       \* paths for which a second copy may exist, or that others wrote

vars == <<file, key, made, editor, copy, call, faults, stored, apart>>

OfficeAssumption ==
  /\ Unset \notin Paths \cup Letters \cup Editors
  /\ MaxKeys \in Nat

Nobody == [at |-> "none", path |-> Unset, text |-> {}, dirty |-> FALSE]
Quiet == [at |-> "none", status |-> Unset, text |-> {}, to |-> Unset]
Out == [at |-> "out", path |-> Unset, key |-> Unset]

Init ==
  /\ \E p \in Paths, l \in Letters : file = [q \in Paths |-> IF q = p THEN {l} ELSE Absent]
  /\ key = [p \in Paths |-> Unset] /\ made = 0 /\ faults = 0
  /\ editor = [e \in Editors |-> Out]
  /\ copy = [k \in DocKeys |-> Nobody]
  /\ call = [k \in DocKeys |-> Quiet]
  /\ stored = [p \in Paths |-> {}]
  /\ apart = {}

Fault == faults < Faults /\ faults' = faults + 1

-----------------------------------------------------------------------------
(* The keys *)

Alive(k) == copy[k].at \in {"open", "closing"}

\* The key of a path is in use: a copy is open or being closed, or a tab has
\* asked for one.
InUse(p) ==
  \/ \E k \in DocKeys : Alive(k) /\ copy[k].path = p
  \/ \E e \in Editors : editor[e].path = p /\ editor[e].at \in {"miss", "config"}
Closing(p) == \E k \in DocKeys : copy[k].at = "closing" /\ copy[k].path = p

\* generateOfficeId, the half after a miss: a new key, whatever happened since.
NewKey(p) ==
  /\ made < MaxKeys
  /\ made' = made + 1
  /\ key' = [key EXCEPT ![p] = made + 1]

\* FileInfoFaster, on behalf of a tab: the file is there, and has a key or not.
Ask(e, p) ==
  /\ editor[e].at = "out" /\ file[p] # Absent
  /\ editor' = [editor EXCEPT ![e] =
       [at |-> IF key[p] = Unset THEN "miss" ELSE "known", path |-> p, key |-> Unset]]
  /\ UNCHANGED <<file, key, made, copy, call, faults, stored, apart>>

Generate(e) ==
  LET p == editor[e].path IN
  /\ editor[e].at = "miss"
  /\ NewKey(p)
  /\ apart' = IF key[p] # Unset THEN apart \cup {p} ELSE apart
  /\ editor' = [editor EXCEPT ![e].at = "known"]
  /\ UNCHANGED <<file, copy, call, faults, stored>>

\* getOnlyOfficeId: the key again, or an error when it was forgotten meanwhile.
Configure(e) ==
  LET p == editor[e].path IN
  /\ editor[e].at = "known"
  /\ editor' = [editor EXCEPT ![e] =
       IF key[p] = Unset THEN Out ELSE [@ EXCEPT !.at = "config", !.key = key[p]]]
  /\ UNCHANGED <<file, key, made, copy, call, faults, stored, apart>>

\* A key lasts 48 hours; who still edits under it does not hold it.
Expire(p) ==
  /\ Fault
  /\ key[p] # Unset
  /\ key' = [key EXCEPT ![p] = Unset]
  /\ apart' = IF InUse(p) THEN apart \cup {p} ELSE apart
  /\ UNCHANGED <<file, made, editor, copy, call, stored>>

-----------------------------------------------------------------------------
(* The document server *)

\* A tab arrives: it joins the copy of its key, or the file is fetched.  A key
\* whose copy was closed is refused.
Open(e) ==
  LET k == editor[e].key
      p == editor[e].path
  IN
  /\ editor[e].at = "config"
  /\ \/ /\ copy[k].at = "open"
        /\ editor' = [editor EXCEPT ![e].at = "open"]
        /\ UNCHANGED <<copy, apart>>
     \/ /\ copy[k].at = "none" /\ file[p] \notin {Absent, None}
        /\ editor' = [editor EXCEPT ![e].at = "open"]
        /\ copy' = [copy EXCEPT ![k] =
             [at |-> "open", path |-> p, text |-> file[p], dirty |-> FALSE]]
        /\ apart' = IF Closing(p) THEN apart \cup {p} ELSE apart
     \/ /\ copy[k].at \in {"closing", "closed"} \/ (copy[k].at = "none" /\ file[p] \in {Absent, None})
        /\ editor' = [editor EXCEPT ![e] = Out]
        /\ UNCHANGED <<copy, apart>>
  /\ UNCHANGED <<file, key, made, call, faults, stored>>

Change(e) ==
  LET k == editor[e].key IN
  /\ editor[e].at = "open" /\ e \notin copy[k].text
  /\ copy' = [copy EXCEPT ![k].text = @ \cup {e}, ![k].dirty = TRUE]
  /\ UNCHANGED <<file, key, made, editor, call, faults, stored, apart>>

Report(k, status) ==
  call' = [call EXCEPT ![k] = [at |-> "arrived", status |-> status, text |-> copy[k].text, to |-> Unset]]

\* forcesave: the copy stays open.
ForceSave(k) ==
  /\ copy[k].at = "open" /\ copy[k].dirty /\ call[k].at = "none"
  /\ Report(k, 6)
  /\ copy' = [copy EXCEPT ![k].dirty = FALSE]
  /\ UNCHANGED <<file, key, made, editor, faults, stored, apart>>

\* A tab is closed for good: bound, whoever comes back is another tab.
Leave(e) ==
  /\ editor[e].at = "open"
  /\ editor' = [editor EXCEPT ![e] = [Out EXCEPT !.at = "gone"]]
  /\ UNCHANGED <<file, key, made, copy, call, faults, stored, apart>>

\* When the last one has left the copy is closed, or could not be built and is
\* kept.  Closing means waiting for the answer of the callback.
CloseCopy(k) ==
  /\ copy[k].at = "open" /\ call[k].at = "none"
  /\ \A e \in Editors : editor[e].at = "open" => editor[e].key # k
  /\ \/ /\ Report(k, IF copy[k].dirty THEN 2 ELSE 4)
        /\ copy' = [copy EXCEPT ![k].at = "closing"]
        /\ UNCHANGED faults
     \/ /\ copy[k].dirty /\ Fault
        /\ Report(k, 3)
        /\ UNCHANGED copy
  /\ UNCHANGED <<file, key, made, editor, stored, apart>>

-----------------------------------------------------------------------------
(* The callback: processOnlyOfficeCallback *)

Goes(k, at) == call' = [call EXCEPT ![k].at = at]

\* The copy is gone when its closing is answered, whatever the answer.
Settle(k) ==
  copy' = [copy EXCEPT ![k].at = IF @ = "closing" THEN "closed" ELSE @]

\* returnOnlyOfficeSuccess and returnOnlyOfficeError: what was to be saved is,
\* or is not, to be thought of as saved.
AnswerSuccess(k, ok) == stored' = [stored EXCEPT ![copy[k].path] = @ \cup call[k].text]
Answer(k, ok) == stored' = [stored EXCEPT ![copy[k].path] = @ \cup (IF ok THEN call[k].text ELSE {})]

ClosesOnSave(status) == status \in {2, 4, 6}
Closes(status) == status \in {2, 4}

\* deleteOfficeId for a closed document; statuses 3 and 4 end here.
\* It is the path's key, whichever that is by now: a callback that is sent again
\* may forget the key of those who came after.
Forget(k) ==
  LET p == copy[k].path
      s == call[k].status
  IN
  /\ call[k].at = "arrived"
  /\ key' = IF Closes(s) THEN [key EXCEPT ![p] = Unset] ELSE key
  /\ apart' = IF Closes(s) /\ key[p] \notin {Unset, k} /\ \E e \in Editors : editor[e].key = key[p]
                THEN apart \cup {p} ELSE apart
  /\ IF s \in {2, 6}
       THEN Goes(k, "look") /\ UNCHANGED copy
       ELSE call' = [call EXCEPT ![k] = Quiet] /\ Settle(k)
  /\ UNCHANGED <<file, made, editor, faults, stored>>

\* The permissions, the address and the download may each refuse; the document
\* server calls again, or gives up.
Fail(k) ==
  /\ call[k].at = "look"
  /\ Fault
  /\ \/ Goes(k, "arrived") /\ UNCHANGED copy
     \/ call' = [call EXCEPT ![k] = Quiet] /\ Settle(k)
  /\ Answer(k, FALSE)
  /\ UNCHANGED <<file, key, made, editor, apart>>

\* "Validate that the original file still exists": looking makes a new key.
Look(k) ==
  LET p == copy[k].path IN
  /\ call[k].at = "look"
  /\ IF file[p] = Absent
       THEN call' = [call EXCEPT ![k] = Quiet] /\ Settle(k) /\ Answer(k, FALSE)
       ELSE Goes(k, IF key[p] = Unset THEN "miss" ELSE "cut") /\ UNCHANGED <<copy, stored>>
  /\ UNCHANGED <<file, key, made, editor, faults, apart>>

LookAgain(k) ==
  LET p == copy[k].path IN
  /\ call[k].at = "miss"
  /\ NewKey(p)
  /\ apart' = IF key[p] # Unset THEN apart \cup {p} ELSE apart
  /\ Goes(k, "cut")
  /\ UNCHANGED <<file, editor, copy, faults, stored>>

\* WriteFile: the file is opened, and made when it is no longer there.
Cut(k) ==
  /\ call[k].at = "cut"
  /\ file' = [file EXCEPT ![copy[k].path] = None]
  /\ call' = [call EXCEPT ![k].at = "write", ![k].to = copy[k].path]
  /\ UNCHANGED <<key, made, editor, copy, faults, stored, apart>>

\* ... and filled, wherever it was moved to, unless the download breaks off.
Write(k) ==
  /\ call[k].at = "write"
  /\ \/ /\ file' = [p \in Paths |-> IF p = call[k].to THEN call[k].text ELSE file[p]]
        /\ call' = [call EXCEPT ![k] = Quiet]
        /\ Settle(k)
        /\ Answer(k, TRUE)
        /\ UNCHANGED faults
     \/ /\ Fault
        /\ Goes(k, "arrived")
        /\ UNCHANGED <<file, copy, stored>>
  /\ UNCHANGED <<key, made, editor, apart>>

-----------------------------------------------------------------------------
(* What else happens to the files *)

\* The document server has, or had, the file, or a handler is writing to it.
Shown(p) == \E k \in DocKeys :
  (copy[k].at # "none" /\ copy[k].path = p) \/ (call[k].at = "write" /\ call[k].to = p)

\* A handler that has the file open goes on writing to it at q, or to no path.
Others(p, q) ==
  /\ call' = [k \in DocKeys |-> [call[k] EXCEPT !.to = IF @ = p THEN q ELSE @]]
  /\ stored' = [stored EXCEPT ![p] = {}]
  /\ apart' = IF Shown(p) THEN apart \cup ({p, q} \cap Paths) ELSE apart

\* A move, an upload or a deletion.  None of them looks at the keys.
Move(p, q) ==
  /\ Fault
  /\ file[p] # Absent /\ file[q] = Absent
  /\ file' = [file EXCEPT ![p] = Absent, ![q] = file[p]]
  /\ Others(p, q)
  /\ UNCHANGED <<key, made, editor, copy>>

Upload(p, l) ==
  /\ Fault
  /\ \A q \in Paths : l \notin file[q]
  /\ \A k \in DocKeys : l \notin copy[k].text
  /\ file' = [file EXCEPT ![p] = {l}]
  /\ Others(p, p)
  /\ UNCHANGED <<key, made, editor, copy>>

Delete(p) ==
  /\ Fault
  /\ file[p] # Absent
  /\ file' = [file EXCEPT ![p] = Absent]
  /\ Others(p, Unset)
  /\ UNCHANGED <<key, made, editor, copy>>

\* The keys are in memory.  A callback in work breaks off and is sent again.
Restart ==
  /\ Fault
  /\ key' = [p \in Paths |-> Unset]
  /\ apart' = apart \cup {p \in Paths : InUse(p)}
  /\ editor' = [e \in Editors |->
       IF editor[e].at \in {"miss", "known"} THEN Out ELSE editor[e]]
  /\ call' = [k \in DocKeys |-> IF call[k].at = "none" THEN Quiet ELSE [call[k] EXCEPT !.at = "arrived"]]
  /\ UNCHANGED <<file, made, copy, stored>>

Next ==
  \/ \E e \in Editors : \/ \E p \in Paths : Ask(e, p)
                        \/ Generate(e) \/ Configure(e)
                        \/ Open(e) \/ Change(e) \/ Leave(e)
  \/ \E k \in DocKeys : \/ ForceSave(k) \/ CloseCopy(k)
                     \/ Forget(k) \/ Fail(k) \/ Look(k) \/ LookAgain(k)
                     \/ Cut(k) \/ Write(k)
  \/ \E p \in Paths : \/ Expire(p) \/ Delete(p)
                      \/ \E q \in Paths : Move(p, q)
                      \/ \E l \in Letters : Upload(p, l)
  \/ Restart

Spec == Init /\ [][Next]_vars

-----------------------------------------------------------------------------
(* Properties *)

\* What the variables hold; a tab that edits has a copy, a callback has one too.
OfficeTyped ==
  /\ \A p \in Paths : file[p] = Absent \/ file[p] \subseteq (Letters \cup Editors)
  /\ \A p \in Paths : key[p] \in 0..made
  /\ \A e \in Editors : editor[e].at = "open" => /\ copy[editor[e].key].at = "open"
                                                 /\ copy[editor[e].key].path = editor[e].path
  /\ \A k \in DocKeys : call[k].at # "none" => Alive(k)

\* Two tabs with one document share one copy.  They are kept apart only after
\* the key was generated twice at once, was forgotten while it was in use (it
\* expired, the server was restarted, or the callback of an older copy was sent
\* again), after someone replaced the file, or when one of them came while the
\* copy of the other was being closed: the key of a closed copy is forgotten
\* before its text is written.
Together ==
  \A j, k \in DocKeys :
    (copy[j].at = "open" /\ copy[k].at = "open" /\ copy[j].path = copy[k].path
      /\ copy[j].path \notin apart) => j = k

\* What the document server was told is saved stays in the file, provided that
\* no two copies were apart: nobody's changes are overwritten by the save of
\* another.  A file that is being written is empty, and stays empty when the
\* download breaks off.
NothingLost ==
  \A p \in Paths :
    (p \notin apart /\ file[p] # None /\ stored[p] # {}) =>
      (file[p] # Absent /\ stored[p] \subseteq file[p])

\* The three: editors agree on a document, and the file with them.
EditorsAgree == OfficeTyped /\ Together /\ NothingLost
=============================================================================
