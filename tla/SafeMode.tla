------------------------------- MODULE SafeMode -------------------------------
(***************************************************************************)
(* SAFEMode: files and folders a user has hidden, each behind a PIN          *)
(* (backend/http/safemode.go), their copy in the central state file          *)
(* (acornstate.go) and the logins that bring it back into a new user record  *)
(* (chainfs.go).                                                             *)
(*                                                                          *)
(* A handler works on d.user, the record the middleware loaded before the    *)
(* request body arrived, and writes the whole list back.  Keys are users.    *)
(***************************************************************************)
EXTENDS AcornState, FiniteSets

CONSTANTS
  Reqs,     \* request slots: how many requests run at once
  Items,    \* the files and folders users put in SAFEMode
  Covers,   \* <<f, i>>: item i lies inside folder f
  Pins,     \* PIN hashes
  NoPin,    \* the PIN hash of an item added before items had PINs of their own
  MaxBorn   \* bound: how often one user record is created

VARIABLES
  srv,      \* "down" or "up"
  db,       \* the user records in BoltDB: incarnation, SAFEMode items and PIN
  born,     \* how many records each user has had since BoltDB was wiped
  pc, user, copy,  \* per request: place, user, and the record it works on

  \* history: what no variable of the program remembers
  hidden,   \* the PIN of every item its user was told is in SAFEMode
  raced,    \* the users of whom two requests have overlapped
  stale,    \* the last write of the state file failed
  faults    \* what may have cost a user items: a file "torn" by a crash, a failed
            \* "write" or "read", a failed or interrupted "restore", the file of
            \* another "source", a record "created" without a login

reqVars  == <<pc, user, copy>>
histVars == <<hidden, raced, stale, faults>>
vars == <<acornVars, srv, db, born, reqVars, histVars>>

ItemMaps == [Items -> Pins \cup {NoPin, Nil}]
NoItems  == [i \in Items |-> Nil]
Entries  == [items : ItemMaps, pin : Pins \cup {Nil}]
Accounts == [id : Nat, items : ItemMaps, pin : Pins \cup {Nil}]

ASSUME SafeModeAssumption ==
  /\ Nil \notin Reqs \cup Keys \cup Pins \cup Entries \cup Accounts
  /\ NoPin \notin Pins \cup {Nil}
  /\ Torn \notin [Keys -> Entries \cup {Nil}]

\* The part of a user record the state file keeps.
Entry(a) == [items |-> a.items, pin |-> a.pin]

\* safeItemCovers: the item itself, or a folder it lies in.
SafeItemCovers(f, i) == f = i \/ <<f, i>> \in Covers

\* safeItemPINHash: what opens item i in record a, Nil when i is not in SAFEMode.
SafeItemPINHash(a, i) == IF a.items[i] = NoPin THEN a.pin ELSE a.items[i]

\* What opens every item of record a.
Opens(a) == [i \in Items |-> SafeItemPINHash(a, i)]

-------------------------------------------------------------------------------
\* Users of the version that had one PIN for all of a user's items.
LegacyAccount == [id : {1}, items : [Items -> {NoPin, Nil}], pin : Pins]

Init ==
  /\ srv = "down"
  /\ db \in [Keys -> LegacyAccount \cup {Nil}]
  /\ born = [u \in Keys |-> 1]
  /\ disk = [s \in Sources |-> [u \in Keys |-> IF db[u] = Nil THEN Nil ELSE Entry(db[u])]]
  /\ mem = Empty /\ path \in Sources /\ holder = Nil
  /\ pc = [r \in Reqs |-> "idle"] /\ user = [r \in Reqs |-> Nil] /\ copy = [r \in Reqs |-> Nil]
  /\ hidden = [u \in Keys |-> IF db[u] = Nil THEN NoItems ELSE Opens(db[u])]
  /\ raced = {} /\ stale = FALSE /\ faults = {}

Goto(r, place) == pc' = [pc EXCEPT ![r] = place]

\* Request r is answered and its slot free again.
Reply(r) ==
  /\ Goto(r, "idle")
  /\ user' = [user EXCEPT ![r] = Nil]
  /\ copy' = [copy EXCEPT ![r] = Nil]

\* Some request of user u is being handled.
Busy(u) == \E r \in Reqs : user[r] = u

(* A request of user u, for the handler at place, with u's record loaded.      *)
Enter(r, u, place) ==
  /\ srv = "up" /\ pc[r] = "idle"
  /\ Goto(r, place)
  /\ user' = [user EXCEPT ![r] = u]
  /\ copy' = [copy EXCEPT ![r] = db[u]]
  /\ raced' = IF Busy(u) THEN raced \cup {u} ELSE raced
  /\ UNCHANGED <<acornVars, srv, db, born, hidden, stale, faults>>

\* withUserHelper has loaded the user; the handler reads the request body.
Request(r, u) ==
  /\ db[u] # Nil
  /\ \E place \in {"add", "remove", "profile"} : Enter(r, u, place)

\* store.Users.Update finds the record of r's user by its id.
Found(r) == db[user[r]] # Nil /\ db[user[r]].id = copy[r].id

(* One UpdateField: the items of the record, and of the handler's copy of it.  *)
PutItems(r, items) ==
  /\ Found(r)
  /\ db' = [db EXCEPT ![user[r]].items = items]
  /\ copy' = [copy EXCEPT ![r].items = items]

PutPin(r) ==
  /\ Found(r)
  /\ db' = [db EXCEPT ![user[r]].pin = copy[r].pin]

(* The request is refused, or its first update of BoltDB fails: nothing has    *)
(* changed.                                                                    *)
Refuse(r) ==
  /\ pc[r] \in {"add", "remove", "profile", "create"}
  /\ Reply(r)
  /\ UNCHANGED <<acornVars, srv, db, born, histVars>>

-------------------------------------------------------------------------------
(* safeModeAddHandler *)

\* Mutant: only the item itself is looked for, not the folders around it.
AddedUncovered(old, asked, new) ==
  /\ new \subseteq asked
  /\ \A i \in new : old[i] = Nil
  /\ \A i \in asked \ new : old[i] # Nil

(* Of the items asked for, in whatever order, those are new that neither the    *)
(* old list nor what was appended before them covers.                          *)
Added(old, asked, new) ==
  /\ new \subseteq asked
  /\ \A i \in new : ~\E f \in Items : old[f] # Nil /\ SafeItemCovers(f, i)
  /\ \A i \in asked \ new :
       \E f \in Items : (old[f] # Nil \/ f \in new) /\ SafeItemCovers(f, i)

Add(r) ==
  /\ pc[r] = "add"
  /\ \E asked \in (SUBSET Items) \ {{}}, p \in Pins : \E new \in SUBSET asked :
       /\ Added(copy[r].items, asked, new)
       /\ PutItems(r, [i \in Items |-> IF i \in new THEN p ELSE copy[r].items[i]])
  /\ Goto(r, "record")
  /\ UNCHANGED <<user, acornVars, srv, born, histVars>>

-------------------------------------------------------------------------------
(* safeModeRemoveHandler: all the items asked for, or none, under one PIN. *)

Remove(r) ==
  /\ pc[r] = "remove"
  /\ \E asked \in (SUBSET Items) \ {{}}, p \in Pins :
       /\ \A i \in asked : copy[r].items[i] # Nil => SafeItemPINHash(copy[r], i) = p
       /\ PutItems(r, [i \in Items |-> IF i \in asked THEN Nil ELSE copy[r].items[i]])
       /\ hidden' = [hidden EXCEPT ![user[r]] =
                       [i \in Items |-> IF i \in asked THEN Nil ELSE @[i]]]
  /\ Goto(r, "record")
  /\ UNCHANGED <<user, acornVars, srv, born, raced, stale, faults>>

-------------------------------------------------------------------------------
(* The end of saveSafeMode: AcornStateSaveSafeMode, and the answer, which tells *)
(* the user the whole list.                                                    *)

Saved(r) == [mem EXCEPT ![user[r]] = Entry(copy[r])]

Answer(r) ==
  /\ hidden' = IF pc[r] \in {"record", "ack"}
               THEN [hidden EXCEPT ![user[r]] = Opens(copy[r])] ELSE hidden
  /\ Reply(r)

RecordState(r) ==
  /\ pc[r] = "record"
  /\ OpenFile(r, Saved(r))
  /\ Goto(r, "ack")
  /\ UNCHANGED <<user, copy, srv, db, born, histVars>>

\* The state file cannot be opened; the request succeeds all the same.
RecordStateFails(r) ==
  /\ pc[r] = "record"
  /\ OpenFileFails(Saved(r))
  /\ Answer(r) /\ stale' = TRUE
  /\ UNCHANGED <<srv, db, born, raced, faults>>

\* AcornStateSaveProtection rewrites the same file for a change of its own.
SaveProtection(r) ==
  /\ srv = "up" /\ pc[r] = "idle"
  /\ OpenFile(r, mem)
  /\ Goto(r, "reply")
  /\ UNCHANGED <<user, copy, srv, db, born, histVars>>

WriteState(r) ==
  /\ pc[r] \in {"ack", "reply"}
  /\ FillFile(r) /\ stale' = FALSE
  /\ Answer(r)
  /\ UNCHANGED <<srv, db, born, raced, faults>>

WriteStateFails(r) ==
  /\ pc[r] \in {"ack", "reply"}
  /\ FillFileFails(r) /\ stale' = TRUE
  /\ Answer(r)
  /\ UNCHANGED <<srv, db, born, raced, faults>>

-------------------------------------------------------------------------------
(* userPutHandler with which=all *)

\* The list goes back as it was when the handler loaded the user.
ProfileItems(r) ==
  /\ pc[r] = "profile"
  /\ PutItems(r, copy[r].items)
  /\ Goto(r, "profile_pin")
  /\ UNCHANGED <<user, acornVars, srv, born, histVars>>

\* So does the old PIN when an administrator saves; SAFEMode PINs are not a
\* user's own to save.  A failed update ends the request as well.
ProfilePin(r) ==
  /\ pc[r] = "profile_pin"
  /\ PutPin(r) \/ UNCHANGED db
  /\ Reply(r)
  /\ UNCHANGED <<acornVars, srv, born, histVars>>

-------------------------------------------------------------------------------
(* The first login of a user: chainfsCallbackHandler and chainfsSSOHandler.    *)
(* The login of a user that exists touches no SAFEMode field.                  *)

Login(r, u) == db[u] = Nil /\ Enter(r, u, "create")

\* storage.CreateUser; the username is unique.
CreateUser(r) ==
  /\ pc[r] = "create" /\ db[user[r]] = Nil /\ born[user[r]] < MaxBorn
  /\ LET new == [id |-> born[user[r]] + 1, items |-> NoItems, pin |-> Nil] IN
       /\ db' = [db EXCEPT ![user[r]] = new]
       /\ copy' = [copy EXCEPT ![r] = new]
  /\ born' = [born EXCEPT ![user[r]] = @ + 1]
  /\ Goto(r, "lookup")
  /\ UNCHANGED <<user, acornVars, srv, histVars>>

\* AcornStateGetSafeMode, under the mutex; no items, nothing to restore.
Lookup(r) ==
  /\ pc[r] = "lookup" /\ Unlocked
  /\ LET sm == mem[user[r]] IN
       IF sm # Nil /\ sm.items # NoItems
       THEN /\ copy' = [copy EXCEPT ![r].items = sm.items, ![r].pin = sm.pin]
            /\ Goto(r, "restore") /\ UNCHANGED user
       ELSE Reply(r)
  /\ UNCHANGED <<acornVars, srv, db, born, histVars>>

RestoreItems(r) ==
  /\ pc[r] = "restore"
  /\ PutItems(r, copy[r].items)
  /\ Goto(r, "restore_pin")
  /\ UNCHANGED <<user, acornVars, srv, born, histVars>>

\* Mutant: the PIN the items of an older version need is not restored.
RestorePinForgotten(r) ==
  /\ pc[r] = "restore_pin"
  /\ Reply(r)
  /\ UNCHANGED <<acornVars, srv, db, born, histVars>>

RestorePin(r) ==
  /\ pc[r] = "restore_pin"
  /\ PutPin(r)
  /\ Reply(r)
  /\ UNCHANGED <<acornVars, srv, born, histVars>>

\* An update of the restore fails: that is logged, and the login goes on.
RestoreFails(r) ==
  /\ pc[r] \in {"restore", "restore_pin"}
  /\ faults' = faults \cup {"restore"}
  /\ Reply(r)
  /\ UNCHANGED <<acornVars, srv, db, born, hidden, raced, stale>>

-------------------------------------------------------------------------------
\* userDeleteHandler leaves the state file alone.
DeleteUser(u) ==
  /\ srv = "up" /\ db[u] # Nil
  /\ db' = [db EXCEPT ![u] = Nil]
  /\ raced' = IF Busy(u) THEN raced \cup {u} ELSE raced
  /\ UNCHANGED <<acornVars, srv, born, reqVars, hidden, stale, faults>>

\* usersPostHandler makes a record and restores nothing into it.
CreateByAdmin(u) ==
  /\ srv = "up" /\ db[u] = Nil /\ born[u] < MaxBorn
  /\ db' = [db EXCEPT ![u] = [id |-> born[u] + 1, items |-> NoItems, pin |-> Nil]]
  /\ born' = [born EXCEPT ![u] = @ + 1]
  /\ raced' = IF Busy(u) THEN raced \cup {u} ELSE raced
  /\ faults' = faults \cup {"created"}
  /\ UNCHANGED <<acornVars, srv, reqVars, hidden, stale>>

\* A login has made the record of its user and not yet restored it.
Restoring == \E r \in Reqs : pc[r] \in {"lookup", "restore", "restore_pin"}

\* What the file lacks of the map if the process dies now.
Wear == {f \in {"torn"} : ~Unlocked} \cup {f \in {"write"} : stale}

Crash ==
  /\ srv = "up" /\ srv' = "down"
  /\ ForgetState
  /\ pc' = [r \in Reqs |-> "idle"] /\ user' = [r \in Reqs |-> Nil]
  /\ copy' = [r \in Reqs |-> Nil]
  /\ \/ /\ UNCHANGED <<db, born>>                               \* a crash
        /\ faults' = faults \cup Wear \cup {f \in {"restore"} : Restoring}
     \/ /\ db' = [u \in Keys |-> Nil]                           \* a redeploy
        /\ born' = [u \in Keys |-> 0]
        /\ faults' = faults \cup Wear
  /\ UNCHANGED <<hidden, raced, stale>>

(* InitAcornState reads the file of some source.  It may write it again for the *)
(* protections it purges: that is a SaveProtection here.                        *)
Start(s) ==
  /\ srv = "down" /\ srv' = "up"
  /\ path' = s /\ mem' = ReadBack(s)
  /\ stale' = FALSE
  /\ faults' = faults \cup {f \in {"source"} : s # path}
  /\ UNCHANGED <<disk, holder, db, born, reqVars, hidden, raced>>

\* Mutant: the maps stay nil when the file cannot be read.
StartUnreadableNil(s) ==
  /\ srv = "down" /\ srv' = "up"
  /\ path' = s /\ mem' = Nil
  /\ stale' = FALSE
  /\ faults' = faults \cup {"read"}
  /\ UNCHANGED <<disk, holder, db, born, reqVars, hidden, raced>>

\* The file is there but os.ReadFile fails: the server starts with empty maps.
StartUnreadable(s) ==
  /\ srv = "down" /\ srv' = "up"
  /\ path' = s /\ mem' = Empty
  /\ stale' = FALSE
  /\ faults' = faults \cup {"read"}
  /\ UNCHANGED <<disk, holder, db, born, reqVars, hidden, raced>>

SafeModeRequest(r) ==
  \/ Add(r) \/ Remove(r)
  \/ RecordState(r) \/ RecordStateFails(r)
  \/ WriteState(r) \/ WriteStateFails(r)
UserRequest(r) ==
  \/ ProfileItems(r) \/ ProfilePin(r)
  \/ CreateUser(r) \/ Lookup(r) \/ RestoreItems(r) \/ RestorePin(r) \/ RestoreFails(r)

Next ==
  \/ \E r \in Reqs, u \in Keys : Request(r, u) \/ Login(r, u)
  \/ \E r \in Reqs : SafeModeRequest(r) \/ UserRequest(r) \/ Refuse(r) \/ SaveProtection(r)
  \/ \E u \in Keys : DeleteUser(u) \/ CreateByAdmin(u)
  \/ \E s \in Sources : Start(s) \/ StartUnreadable(s)
  \/ Crash

Spec == Init /\ [][Next]_vars

-------------------------------------------------------------------------------
(* Properties *)

Places == {"idle", "add", "remove", "profile", "profile_pin", "record", "ack", "reply",
           "create", "lookup", "restore", "restore_pin"}
Faults == {"torn", "write", "read", "restore", "source", "created"}

(* The variables keep their types.                                            *)
TypeOK ==
  /\ mem \in [Keys -> Entries \cup {Nil}]
  /\ disk \in [Sources -> [Keys -> Entries \cup {Nil}] \cup {Torn}]
  /\ path \in Sources
  /\ holder \in Reqs \cup {Nil}
  /\ srv \in {"down", "up"}
  /\ db \in [Keys -> Accounts \cup {Nil}]
  /\ born \in [Keys -> Nat]
  /\ pc \in [Reqs -> Places]
  /\ user \in [Reqs -> Keys \cup {Nil}]
  /\ copy \in [Reqs -> Accounts \cup {Nil}]
  /\ hidden \in [Keys -> [Items -> Pins \cup {Nil}]]
  /\ raced \subseteq Keys
  /\ stale \in BOOLEAN
  /\ faults \subseteq Faults

\* A login is still on its way to the record of u.
LoggingIn(u) ==
  \E r \in Reqs : user[r] = u /\ pc[r] \in {"create", "lookup", "restore", "restore_pin"}

\* Everything u was told is hidden is hidden, and opens with the PIN u gave it.
Keeps(u) == \A i \in Items : hidden[u][i] # Nil => Opens(db[u])[i] = hidden[u][i]

(* What users were told is in SAFEMode stays there behind the PIN they gave it, *)
(* from whichever version the item is: while other users and protections        *)
(* rewrite the state file, through profile saves, deleted accounts, crashes and *)
(* redeploys.  The requests of one user are taken to come one at a time.        *)
HiddenUnless(excused) ==
  srv = "up" /\ faults \subseteq excused =>
    \A u \in Keys \ raced : db[u] # Nil /\ ~LoggingIn(u) => Keeps(u)
HiddenStays == HiddenUnless({})

(* safeModeAddHandler: an item already in SAFEMode, or inside a folder that is, *)
(* gets no PIN of its own.                                                     *)
CoveredShares ==
  [][\A u \in Keys \ raced', f, i \in Items :
       /\ db[u] # Nil /\ db[u].items[f] # Nil /\ SafeItemCovers(f, i)
       /\ db'[u] # Nil /\ db[u].items[i] = Nil
       => db'[u].items[i] = Nil]_vars
===============================================================================
