---------------------------- MODULE SafeModeProofs ----------------------------
(***************************************************************************)
(* Proofs about SafeMode, for any number of requests, users, items, PINs and *)
(* sources, and any nesting of folders; about Office, for any number of      *)
(* tabs, documents, keys and faults; about Previews, for any number of       *)
(* requests, files, contents, slots, changes and restarts; and about         *)
(* Downloads, for any tree of files, requests, sizes, rules and changes.     *)
(***************************************************************************)
EXTENDS Views, Sums

(* What a request holds at each place of its handler: a user, and that user's  *)
(* record once there is one.                                                  *)
ReqOK ==
  \A r \in Reqs :
    /\ pc[r] \in {"idle", "reply"} <=> user[r] = Nil
    /\ pc[r] \notin {"idle", "reply", "create"} => copy[r] \in Accounts
    /\ srv = "down" => pc[r] = "idle"

TypeInv == TypeOK /\ ReqOK

(* What a record holds of SAFEMode is an entry of the state file.             *)
LEMMA EntryType == ASSUME NEW a \in Accounts PROVE Entry(a) \in Entries
BY DEF Entry, Accounts, Entries

(* What opens the items of a record or an entry is a PIN or nothing.           *)
LEMMA OpensType ==
  ASSUME SafeModeAssumption, NEW a \in Accounts
  PROVE  Opens(a) \in [Items -> Pins \cup {Nil}]
BY DEF Opens, SafeItemPINHash, Accounts, ItemMaps, SafeModeAssumption

(* What the state file yields is a map of entries.                            *)
LEMMA ReadBackType ==
  ASSUME SafeModeAssumption, TypeOK, NEW s \in Sources
  PROVE  ReadBack(s) \in [Keys -> Entries \cup {Nil}]
BY DEF SafeModeAssumption, TypeOK, ReadBack, Empty

(* The update of a record's items keeps it a record.                          *)
LEMMA PutItemsType ==
  ASSUME TypeInv, NEW r \in Reqs, user[r] \in Keys, copy[r] \in Accounts,
         NEW items \in ItemMaps, PutItems(r, items)
  PROVE  /\ db' \in [Keys -> Accounts \cup {Nil}] /\ copy' \in [Reqs -> Accounts \cup {Nil}]
         /\ copy'[r] \in Accounts
<1>1. db[user[r]] \in Accounts
  BY DEF PutItems, Found, TypeInv, TypeOK
<1>2. [db[user[r]] EXCEPT !.items = items] \in Accounts /\ [copy[r] EXCEPT !.items = items] \in Accounts
  BY <1>1 DEF Accounts
<1> QED BY <1>2 DEF PutItems, TypeInv, TypeOK

(* The program starts with well-typed variables.                             *)
LEMMA InitType == ASSUME SafeModeAssumption, Init PROVE TypeInv
<1> USE DEF Init, SafeModeAssumption
<1>1. ASSUME NEW u \in Keys, db[u] # Nil PROVE db[u] \in Accounts
  <2>1. db[u] \in [id : {1}, items : [Items -> {NoPin, Nil}], pin : Pins]
    BY <1>1 DEF LegacyAccount
  <2>2. [Items -> {NoPin, Nil}] \subseteq ItemMaps
    BY DEF ItemMaps
  <2> QED BY <2>1, <2>2 DEF Accounts
<1>2. disk \in [Sources -> [Keys -> Entries \cup {Nil}]]
  BY <1>1, EntryType
<1>3. hidden \in [Keys -> [Items -> Pins \cup {Nil}]]
  BY <1>1, OpensType DEF NoItems
<1>4. TypeOK
  BY <1>1, <1>2, <1>3 DEF TypeOK, Empty, Places
<1> QED BY <1>4 DEF TypeInv, ReqOK

(* Every step of the SAFEMode handlers keeps the types.                       *)
LEMMA SafeModeRequestType ==
  ASSUME SafeModeAssumption, TypeInv, NEW r \in Reqs, SafeModeRequest(r)
  PROVE  TypeInv'
<1> USE DEF TypeInv, ReqOK, SafeModeAssumption
<1>1. CASE Add(r)
  <2>1. user[r] \in Keys /\ copy[r] \in Accounts
    BY <1>1 DEF Add, TypeOK
  <2>2. PICK p \in Pins, new \in SUBSET Items :
          PutItems(r, [i \in Items |-> IF i \in new THEN p ELSE copy[r].items[i]])
    BY <1>1 DEF Add
  <2>3. [i \in Items |-> IF i \in new THEN p ELSE copy[r].items[i]] \in ItemMaps
    BY <2>1 DEF Accounts, ItemMaps
  <2> QED BY <1>1, <2>1, <2>2, <2>3, PutItemsType DEF Add, Goto, TypeOK, Places, acornVars, histVars, PutItems
<1>2. CASE Remove(r)
  <2>1. user[r] \in Keys /\ copy[r] \in Accounts
    BY <1>2 DEF Remove, TypeOK
  <2>2. PICK asked \in SUBSET Items :
          /\ PutItems(r, [i \in Items |-> IF i \in asked THEN Nil ELSE copy[r].items[i]])
          /\ hidden' = [hidden EXCEPT ![user[r]] = [i \in Items |-> IF i \in asked THEN Nil ELSE @[i]]]
    BY <1>2 DEF Remove
  <2>3. [i \in Items |-> IF i \in asked THEN Nil ELSE copy[r].items[i]] \in ItemMaps
    BY <2>1 DEF Accounts, ItemMaps
  <2>4. hidden' \in [Keys -> [Items -> Pins \cup {Nil}]]
    BY <2>1, <2>2 DEF TypeOK
  <2>5. /\ pc' = [pc EXCEPT ![r] = "record"] /\ \A q \in Reqs \ {r} : copy'[q] = copy[q]
        /\ UNCHANGED <<user, acornVars, srv, born, raced, stale, faults>>
    BY <1>2, <2>2 DEF Remove, Goto, PutItems, TypeOK
  <2>6. db' \in [Keys -> Accounts \cup {Nil}] /\ copy' \in [Reqs -> Accounts \cup {Nil}] /\ copy'[r] \in Accounts
    BY <2>1, <2>2, <2>3, PutItemsType
  <2>7. pc[r] = "remove"
    BY <1>2 DEF Remove
  <2> QED BY <2>1, <2>4, <2>5, <2>6, <2>7 DEF TypeOK, Places, acornVars
<1>3. CASE RecordState(r)
  BY <1>3, EntryType DEF RecordState, OpenFile, Saved, Goto, TypeOK, Places, histVars
<1>4. ASSUME Answer(r) PROVE hidden' \in [Keys -> [Items -> Pins \cup {Nil}]]
  BY <1>4, OpensType DEF Answer, TypeOK
<1>5. CASE RecordStateFails(r)
  BY <1>4, <1>5, EntryType DEF RecordStateFails, OpenFileFails, Saved, Answer, Reply, Goto, TypeOK, Places
<1>6. CASE WriteState(r)
  BY <1>4, <1>6 DEF WriteState, FillFile, Answer, Reply, Goto, TypeOK, Places
<1>7. CASE WriteStateFails(r)
  BY <1>4, <1>7 DEF WriteStateFails, FillFileFails, Answer, Reply, Goto, TypeOK, Places
<1> QED BY <1>1, <1>2, <1>3, <1>5, <1>6, <1>7 DEF SafeModeRequest

(* Every step of a profile save and of a first login keeps the types.          *)
LEMMA UserRequestType ==
  ASSUME SafeModeAssumption, TypeInv, NEW r \in Reqs, UserRequest(r)
  PROVE  TypeInv'
<1> USE DEF TypeInv, ReqOK, SafeModeAssumption, acornVars, histVars, Goto, Reply, Places
<1>1. CASE ProfileItems(r)
  <2>1. user[r] \in Keys /\ copy[r] \in Accounts /\ copy[r].items \in ItemMaps
    BY <1>1 DEF ProfileItems, TypeOK, Accounts
  <2> QED BY <1>1, <2>1, PutItemsType DEF ProfileItems, TypeOK, PutItems
<1>2. ASSUME PutPin(r), user[r] \in Keys, copy[r] \in Accounts
      PROVE  db' \in [Keys -> Accounts \cup {Nil}]
  BY <1>2 DEF PutPin, Found, TypeOK, Accounts
<1>3. CASE ProfilePin(r)
  BY <1>2, <1>3 DEF ProfilePin, TypeOK
<1>4. CASE CreateUser(r)
  <2>1. [id |-> born[user[r]] + 1, items |-> NoItems, pin |-> Nil] \in Accounts
    BY <1>4 DEF CreateUser, TypeOK, Accounts, ItemMaps, NoItems
  <2> QED BY <1>4, <2>1 DEF CreateUser, TypeOK
<1>5. CASE Lookup(r)
  <2>1. user[r] \in Keys /\ copy[r] \in Accounts
    BY <1>5 DEF Lookup, TypeOK
  <2>2. CASE mem[user[r]] # Nil /\ mem[user[r]].items # NoItems
    <3> DEFINE sm == mem[user[r]]
    <3>1. sm \in Entries
      BY <2>1, <2>2 DEF TypeOK
    <3>2. sm.items \in ItemMaps /\ sm.pin \in Pins \cup {Nil}
      BY <3>1 DEF Entries
    <3>3. [copy[r] EXCEPT !.items = sm.items] \in Accounts
      BY <2>1, <3>2 DEF Accounts
    <3>4. [[copy[r] EXCEPT !.items = sm.items] EXCEPT !.pin = sm.pin] \in Accounts
      BY <3>2, <3>3 DEF Accounts
    <3>5. copy' = [copy EXCEPT ![r] = [[copy[r] EXCEPT !.items = sm.items] EXCEPT !.pin = sm.pin]]
      BY <1>5, <2>2 DEF Lookup, TypeOK
    <3> QED BY <1>5, <2>2, <3>4, <3>5 DEF Lookup, TypeOK
  <2>3. CASE ~(mem[user[r]] # Nil /\ mem[user[r]].items # NoItems)
    <3>1. Reply(r) /\ UNCHANGED <<acornVars, srv, db, born, histVars>>
      BY <1>5, <2>3 DEF Lookup
    <3> QED BY <3>1 DEF TypeOK
  <2> QED BY <2>2, <2>3
<1>6. CASE RestoreItems(r)
  <2>1. user[r] \in Keys /\ copy[r] \in Accounts /\ copy[r].items \in ItemMaps
    BY <1>6 DEF RestoreItems, TypeOK, Accounts
  <2> QED BY <1>6, <2>1, PutItemsType DEF RestoreItems, TypeOK, PutItems
<1>7. CASE RestorePin(r)
  BY <1>2, <1>7 DEF RestorePin, TypeOK
<1>8. CASE RestoreFails(r)
  BY <1>8 DEF RestoreFails, TypeOK, Faults
<1> QED BY <1>1, <1>3, <1>4, <1>5, <1>6, <1>7, <1>8 DEF UserRequest

(* Every step keeps the types.                                               *)
LEMMA NextType == ASSUME SafeModeAssumption, TypeInv, [Next]_vars PROVE TypeInv'
<1> USE DEF TypeInv, ReqOK, SafeModeAssumption, acornVars, reqVars, histVars, Goto, Places
<1>1. ASSUME NEW r \in Reqs, NEW u \in Keys, Request(r, u) \/ Login(r, u) PROVE TypeInv'
  <2>1. PICK place \in {"add", "remove", "profile", "create"} :
          Enter(r, u, place) /\ (place # "create" => db[u] # Nil)
    BY <1>1 DEF Request, Login
  <2> QED BY <2>1 DEF Enter, TypeOK
<1>2. ASSUME NEW r \in Reqs, SafeModeRequest(r) \/ UserRequest(r) PROVE TypeInv'
  BY <1>2, SafeModeRequestType, UserRequestType
<1>3. ASSUME NEW r \in Reqs, Refuse(r) PROVE TypeInv'
  BY <1>3 DEF Refuse, Reply, TypeOK
<1>4. ASSUME NEW r \in Reqs, SaveProtection(r) PROVE TypeInv'
  BY <1>4 DEF SaveProtection, OpenFile, TypeOK
<1>5. ASSUME NEW u \in Keys, DeleteUser(u) PROVE TypeInv'
  BY <1>5 DEF DeleteUser, TypeOK
<1>6. ASSUME NEW u \in Keys, CreateByAdmin(u) PROVE TypeInv'
  <2>1. [id |-> born[u] + 1, items |-> NoItems, pin |-> Nil] \in Accounts
    BY <1>6 DEF TypeOK, Accounts, ItemMaps, NoItems
  <2> QED BY <1>6, <2>1 DEF CreateByAdmin, TypeOK, Faults
<1>7. ASSUME NEW s \in Sources, Start(s) \/ StartUnreadable(s) PROVE TypeInv'
  <2>1. mem' \in [Keys -> Entries \cup {Nil}]
    BY <1>7, ReadBackType DEF Start, StartUnreadable, Empty
  <2>2. faults' \subseteq Faults
    BY <1>7 DEF Start, StartUnreadable, TypeOK, Faults
  <2> QED BY <1>7, <2>1, <2>2 DEF Start, StartUnreadable, TypeOK
<1>8. CASE Crash
  <2>1. faults' \subseteq Faults
    BY <1>8 DEF Crash, Wear, TypeOK, Faults
  <2>2. mem' \in [Keys -> Entries \cup {Nil}] /\ db' \in [Keys -> Accounts \cup {Nil}] /\ born' \in [Keys -> Nat]
    BY <1>8 DEF Crash, ForgetState, Empty, TypeOK
  <2> QED BY <1>8, <2>1, <2>2 DEF Crash, ForgetState, TypeOK
<1>9. CASE UNCHANGED vars
  BY <1>9 DEF vars, TypeOK
<1> QED BY <1>1, <1>2, <1>3, <1>4, <1>5, <1>6, <1>7, <1>8, <1>9 DEF Next

(* The variables keep their types, whatever the instance.                      *)
THEOREM TypeCorrect == Spec => []TypeOK
<1>1. Init => TypeInv
  BY InitType, SafeModeAssumption
<1>2. TypeInv /\ [Next]_vars => TypeInv'
  BY NextType, SafeModeAssumption
<1>3. TypeInv => TypeOK
  BY DEF TypeInv
<1> QED BY <1>1, <1>2, <1>3, PTL DEF Spec

-------------------------------------------------------------------------------
(***************************************************************************)
(* The invariant behind CoveredShares: the record a handler works on is still  *)
(* the one in BoltDB when it writes it back, and a login restores into a       *)
(* record without items.                                                     *)
(***************************************************************************)

\* Request r is the only one of a user whose requests have not overlapped.
Alone(r) == user[r] # Nil /\ user[r] \notin raced

Unshared == \A r, q \in Reqs : Alone(r) /\ user[q] = user[r] => q = r

Current ==
  \A r \in Reqs : Alone(r) =>
    /\ pc[r] = "create" => db[user[r]] = Nil
    /\ pc[r] \notin {"create", "restore", "restore_pin"} => db[user[r]] = copy[r]
    /\ pc[r] \in {"restore", "restore_pin"} => db[user[r]] # Nil
    /\ pc[r] \in {"lookup", "restore"} => db[user[r]].items = NoItems
    /\ pc[r] = "restore_pin" => db[user[r]].items = copy[r].items

CInv == TypeInv /\ Unshared /\ Current

(* The invariant CInv holds before the first start.                           *)
LEMMA InitCurrent == ASSUME SafeModeAssumption, Init PROVE CInv
<1>1. TypeInv
  BY InitType
<1>2. \A r \in Reqs : ~Alone(r)
  BY DEF Init, Alone
<1> QED BY <1>1, <1>2 DEF CInv, Unshared, Current

(* A step of one request that keeps its user, or ends it, and touches at most the   *)
(* record of its user in BoltDB leaves those of other users' requests current.      *)
LEMMA OthersCurrent ==
  ASSUME CInv, NEW r \in Reqs, raced \subseteq raced',
         \A q \in Reqs \ {r} : user'[q] = user[q] /\ pc'[q] = pc[q] /\ copy'[q] = copy[q],
         user'[r] \in {user[r], Nil},
         \A u \in Keys : u # user[r] => db'[u] = db[u]
  PROVE  /\ Unshared'
         /\ \A q \in Reqs \ {r} : Alone(q)' =>
              /\ Alone(q) /\ user[q] # user[r] /\ user[q] \in Keys /\ db'[user[q]] = db[user[q]]
<1> USE DEF CInv, TypeInv, TypeOK, Alone
<1>1. ASSUME NEW q \in Reqs \ {r}, Alone(q)'
      PROVE  /\ Alone(q) /\ user[q] # user[r] /\ user[q] \in Keys /\ db'[user[q]] = db[user[q]]
  BY <1>1 DEF Unshared
<1>2. Unshared'
  BY <1>1 DEF Unshared
<1> QED BY <1>1, <1>2

(* Hence Current holds again if it does for the request itself.                *)
LEMMA KeepsCurrent ==
  ASSUME CInv, NEW r \in Reqs, raced \subseteq raced',
         \A q \in Reqs \ {r} : user'[q] = user[q] /\ pc'[q] = pc[q] /\ copy'[q] = copy[q],
         user'[r] \in {user[r], Nil},
         \A u \in Keys : u # user[r] => db'[u] = db[u],
         Alone(r)' =>
           /\ pc'[r] = "create" => db'[user[r]] = Nil
           /\ pc'[r] \notin {"create", "restore", "restore_pin"} => db'[user[r]] = copy'[r]
           /\ pc'[r] \in {"restore", "restore_pin"} => db'[user[r]] # Nil
           /\ pc'[r] \in {"lookup", "restore"} => db'[user[r]].items = NoItems
           /\ pc'[r] = "restore_pin" => db'[user[r]].items = copy'[r].items
  PROVE  Unshared' /\ Current'
<1>1. Unshared' /\ \A q \in Reqs \ {r} : Alone(q)' =>
              /\ Alone(q) /\ user[q] # user[r] /\ user[q] \in Keys /\ db'[user[q]] = db[user[q]]
  BY OthersCurrent
<1>2. ASSUME NEW q \in Reqs \ {r}, Alone(q)'
      PROVE  /\ pc'[q] = "create" => db'[user'[q]] = Nil
             /\ pc'[q] \notin {"create", "restore", "restore_pin"} => db'[user'[q]] = copy'[q]
             /\ pc'[q] \in {"restore", "restore_pin"} => db'[user'[q]] # Nil
             /\ pc'[q] \in {"lookup", "restore"} => db'[user'[q]].items = NoItems
             /\ pc'[q] = "restore_pin" => db'[user'[q]].items = copy'[q].items
  BY <1>1, <1>2 DEF CInv, Current
<1>3. Alone(r)' => user'[r] = user[r]
  BY DEF Alone
<1> QED BY <1>1, <1>2, <1>3 DEF Current

(* An update of the items leaves everything else alone.                        *)
OnlyItems(r, items) ==
  /\ \A u \in Keys : u # user[r] => db'[u] = db[u]
  /\ \A q \in Reqs \ {r} : copy'[q] = copy[q]
  /\ db[user[r]] \in Accounts /\ db'[user[r]] # Nil
  /\ db'[user[r]] = [db[user[r]] EXCEPT !.items = items]
  /\ copy'[r] = [copy[r] EXCEPT !.items = items]
  /\ db'[user[r]].items = items /\ copy'[r].items = items

(* The updates of the handlers are of that kind.                              *)
LEMMA PutItemsOnly ==
  ASSUME TypeInv, NEW r \in Reqs, user[r] \in Keys, copy[r] \in Accounts,
         NEW items \in ItemMaps, PutItems(r, items)
  PROVE  OnlyItems(r, items)
<1> USE DEF TypeInv, TypeOK
<1>1. db[user[r]] \in Accounts
  BY DEF PutItems, Found
<1>2. db' = [db EXCEPT ![user[r]] = [db[user[r]] EXCEPT !.items = items]]
  BY DEF PutItems
<1>3. copy' = [copy EXCEPT ![r] = [copy[r] EXCEPT !.items = items]]
  BY DEF PutItems
<1>4. [db[user[r]] EXCEPT !.items = items].items = items /\ [copy[r] EXCEPT !.items = items].items = items
  BY <1>1 DEF Accounts
<1>5. db'[user[r]] \in Accounts
  BY <1>1, <1>2 DEF Accounts
<1> QED BY <1>1, <1>2, <1>3, <1>4, <1>5, SafeModeAssumption DEF SafeModeAssumption, OnlyItems

(* What an added item changes, and that nothing covered it.                    *)
LEMMA AddItems ==
  ASSUME TypeInv, NEW r \in Reqs, Add(r)
  PROVE  /\ user[r] \in Keys /\ copy[r] \in Accounts
         /\ \E new \in SUBSET Items, p \in Pins :
              /\ OnlyItems(r, [i \in Items |-> IF i \in new THEN p ELSE copy[r].items[i]])
              /\ \A i \in new : ~\E f \in Items : copy[r].items[f] # Nil /\ SafeItemCovers(f, i)
<1>1. user[r] \in Keys /\ copy[r] \in Accounts
  BY DEF Add, TypeInv, TypeOK, ReqOK
<1>2. PICK asked \in (SUBSET Items) \ {{}}, p \in Pins : \E new \in SUBSET asked :
        /\ Added(copy[r].items, asked, new)
        /\ PutItems(r, [i \in Items |-> IF i \in new THEN p ELSE copy[r].items[i]])
  BY DEF Add
<1>3. PICK new \in SUBSET asked :
        /\ Added(copy[r].items, asked, new)
        /\ PutItems(r, [i \in Items |-> IF i \in new THEN p ELSE copy[r].items[i]])
  BY <1>2
<1> DEFINE items == [i \in Items |-> IF i \in new THEN p ELSE copy[r].items[i]]
<1>4. items \in ItemMaps
  BY <1>1 DEF Accounts, ItemMaps
<1>5. OnlyItems(r, items)
  BY <1>1, <1>3, <1>4, PutItemsOnly
<1>6. \A i \in new : ~\E f \in Items : copy[r].items[f] # Nil /\ SafeItemCovers(f, i)
  BY <1>3 DEF Added
<1>7. new \in SUBSET Items
  OBVIOUS
<1> QED BY <1>1, <1>5, <1>6, <1>7

(* What a removal changes.                                                    *)
LEMMA RemoveItems ==
  ASSUME TypeInv, NEW r \in Reqs, Remove(r)
  PROVE  /\ user[r] \in Keys /\ copy[r] \in Accounts
         /\ \E asked \in SUBSET Items :
              /\ OnlyItems(r, [i \in Items |-> IF i \in asked THEN Nil ELSE copy[r].items[i]])
              /\ hidden' = [hidden EXCEPT ![user[r]] =
                              [i \in Items |-> IF i \in asked THEN Nil ELSE @[i]]]
<1>1. user[r] \in Keys /\ copy[r] \in Accounts
  BY DEF Remove, TypeInv, TypeOK, ReqOK
<1>2. PICK asked \in SUBSET Items :
        /\ PutItems(r, [i \in Items |-> IF i \in asked THEN Nil ELSE copy[r].items[i]])
        /\ hidden' = [hidden EXCEPT ![user[r]] =
                        [i \in Items |-> IF i \in asked THEN Nil ELSE @[i]]]
  BY DEF Remove
<1> DEFINE items == [i \in Items |-> IF i \in asked THEN Nil ELSE copy[r].items[i]]
<1>3. items \in ItemMaps
  BY <1>1 DEF Accounts, ItemMaps
<1>4. OnlyItems(r, items)
  BY <1>1, <1>2, <1>3, PutItemsOnly
<1> QED BY <1>1, <1>2, <1>4

(* A profile save and a restore write the items their request holds.            *)
LEMMA CopyItems ==
  ASSUME TypeInv, NEW r \in Reqs, ProfileItems(r) \/ RestoreItems(r)
  PROVE  user[r] \in Keys /\ copy[r] \in Accounts /\ OnlyItems(r, copy[r].items)
<1>1. pc[r] \in {"profile", "restore"} /\ PutItems(r, copy[r].items)
  BY DEF ProfileItems, RestoreItems
<1>2. user[r] \in Keys /\ copy[r] \in Accounts
  BY <1>1 DEF TypeInv, TypeOK, ReqOK
<1>3. copy[r].items \in ItemMaps
  BY <1>2 DEF Accounts
<1> QED BY <1>1, <1>2, <1>3, PutItemsOnly

(* After such an update the record in BoltDB is still the one the request holds.  *)
LEMMA ItemsCurrent ==
  ASSUME CInv, NEW r \in Reqs, user[r] \in Keys, NEW items, OnlyItems(r, items),
         NEW place \in {"record", "profile_pin", "restore_pin"},
         Goto(r, place), user' = user, raced' = raced,
         Alone(r) /\ place # "restore_pin" => db[user[r]] = copy[r]
  PROVE  Unshared' /\ Current'
<1>1. pc \in [Reqs -> Places] /\ user \in [Reqs -> Keys \cup {Nil}]
  BY DEF CInv, TypeInv, TypeOK
<1>2. \A q \in Reqs \ {r} : user'[q] = user[q] /\ pc'[q] = pc[q] /\ copy'[q] = copy[q]
  BY <1>1 DEF OnlyItems, Goto
<1>3. pc'[r] = place
  BY <1>1 DEF Goto
<1>4. Alone(r)' => Alone(r)
  BY DEF Alone
<1>5. Alone(r) /\ place # "restore_pin" => db'[user[r]] = copy'[r]
  BY DEF OnlyItems
<1>6. db'[user[r]] # Nil /\ db'[user[r]].items = items /\ copy'[r].items = items
  BY DEF OnlyItems
<1>7. \A u \in Keys : u # user[r] => db'[u] = db[u]
  BY DEF OnlyItems
<1>8. raced \subseteq raced' /\ user'[r] \in {user[r], Nil}
  OBVIOUS
<1>9. Alone(r)' =>
           /\ pc'[r] = "create" => db'[user[r]] = Nil
           /\ pc'[r] \notin {"create", "restore", "restore_pin"} => db'[user[r]] = copy'[r]
           /\ pc'[r] \in {"restore", "restore_pin"} => db'[user[r]] # Nil
           /\ pc'[r] \in {"lookup", "restore"} => db'[user[r]].items = NoItems
           /\ pc'[r] = "restore_pin" => db'[user[r]].items = copy'[r].items
  BY <1>3, <1>4, <1>5, <1>6
<1> QED BY <1>2, <1>7, <1>8, <1>9, KeepsCurrent

(* Every step of a request under way keeps the record it holds current.          *)
LEMMA RequestCurrent ==
  ASSUME SafeModeAssumption, CInv, NEW r \in Reqs,
         SafeModeRequest(r) \/ UserRequest(r) \/ Refuse(r)
  PROVE  Unshared' /\ Current'
<1>1. TypeInv
  BY DEF CInv
<1>2. CASE Add(r)
  <2>1. user[r] \in Keys /\ \E items : OnlyItems(r, items)
    BY <1>1, <1>2, AddItems
  <2>2. pc[r] = "add" /\ Goto(r, "record") /\ user' = user /\ raced' = raced
    BY <1>2 DEF Add, histVars
  <2>3. Alone(r) => db[user[r]] = copy[r]
    BY <2>2 DEF CInv, Current
  <2> QED BY <2>1, <2>2, <2>3, ItemsCurrent
<1>3. CASE Remove(r)
  <2>1. user[r] \in Keys /\ \E items : OnlyItems(r, items)
    BY <1>1, <1>3, RemoveItems
  <2>2. pc[r] = "remove" /\ Goto(r, "record") /\ user' = user /\ raced' = raced
    BY <1>3 DEF Remove, histVars
  <2>3. Alone(r) => db[user[r]] = copy[r]
    BY <2>2 DEF CInv, Current
  <2> QED BY <2>1, <2>2, <2>3, ItemsCurrent
<1>7. CASE ProfileItems(r)
  <2>1. user[r] \in Keys /\ OnlyItems(r, copy[r].items)
    BY <1>1, <1>7, CopyItems
  <2>2. pc[r] = "profile" /\ Goto(r, "profile_pin") /\ user' = user /\ raced' = raced
    BY <1>7 DEF ProfileItems, histVars
  <2>3. Alone(r) => db[user[r]] = copy[r]
    BY <2>2 DEF CInv, Current
  <2> QED BY <2>1, <2>2, <2>3, ItemsCurrent
<1>11. CASE RestoreItems(r)
  <2>1. user[r] \in Keys /\ OnlyItems(r, copy[r].items)
    BY <1>1, <1>11, CopyItems
  <2>2. Goto(r, "restore_pin") /\ user' = user /\ raced' = raced
    BY <1>11 DEF RestoreItems, histVars
  <2> QED BY <2>1, <2>2, ItemsCurrent
<1> USE DEF CInv, TypeInv, TypeOK, ReqOK, SafeModeAssumption, histVars, Goto, Reply
<1>a. Alone(r)' /\ user'[r] = user[r] /\ raced' = raced => Alone(r)
  BY DEF Alone
<1>4. CASE RecordState(r)
  BY <1>a, <1>4, KeepsCurrent DEF RecordState, Current
<1>5. CASE RecordStateFails(r) \/ Refuse(r)
  BY <1>a, <1>5, KeepsCurrent DEF RecordStateFails, Refuse, Answer, Alone
<1>6. CASE WriteState(r) \/ WriteStateFails(r)
  BY <1>a, <1>6, KeepsCurrent DEF WriteState, WriteStateFails, Answer, Alone
<1>8. CASE ProfilePin(r) \/ RestorePin(r)
  BY <1>a, <1>8, KeepsCurrent DEF ProfilePin, RestorePin, PutPin, Alone
<1>9. CASE CreateUser(r)
  BY <1>a, <1>9, KeepsCurrent DEF CreateUser
<1>10. CASE Lookup(r)
  BY <1>a, <1>10, KeepsCurrent DEF Lookup, Current, Alone
<1>12. CASE RestoreFails(r)
  BY <1>a, <1>12, KeepsCurrent DEF RestoreFails, Alone
<1> QED BY <1>2, <1>3, <1>4, <1>5, <1>6, <1>7, <1>8, <1>9, <1>10, <1>11, <1>12
        DEF SafeModeRequest, UserRequest

(* Requests that begin, other users' administration, the state file, crashes and   *)
(* starts keep it as well.                                                      *)
LEMMA NextCurrent == ASSUME SafeModeAssumption, CInv, [Next]_vars PROVE CInv'
<1> USE DEF CInv, TypeInv, TypeOK, SafeModeAssumption, acornVars, reqVars, histVars, Goto
<1>1. TypeInv'
  BY NextType
<1>2. ASSUME NEW r \in Reqs, SafeModeRequest(r) \/ UserRequest(r) \/ Refuse(r)
      PROVE  Unshared' /\ Current'
  BY <1>2, RequestCurrent
<1>3. ASSUME NEW r \in Reqs, NEW u \in Keys, Request(r, u) \/ Login(r, u)
      PROVE  Unshared' /\ Current'
  <2>1. PICK place \in {"add", "remove", "profile", "create"} :
          /\ Enter(r, u, place)
          /\ place = "create" <=> db[u] = Nil
    BY <1>3 DEF Request, Login
  <2>2. ASSUME NEW q \in Reqs \ {r}, Alone(q)' PROVE Alone(q) /\ user[q] # u
    BY <2>1, <2>2 DEF Enter, Alone, Busy
  <2>3. Unshared'
    BY <2>1, <2>2 DEF Enter, Unshared, Alone
  <2>4. Current'
    BY <2>1, <2>2 DEF Enter, Current, Alone
  <2> QED BY <2>3, <2>4
<1>4. ASSUME NEW r \in Reqs, SaveProtection(r) PROVE Unshared' /\ Current'
  <2>1. user[r] = Nil
    BY <1>4 DEF SaveProtection, ReqOK
  <2> QED BY <1>4, <2>1 DEF SaveProtection, Unshared, Current, Alone
<1>5. ASSUME NEW u \in Keys, DeleteUser(u) \/ CreateByAdmin(u) PROVE Unshared' /\ Current'
  <2>1. ASSUME NEW q \in Reqs, Alone(q)' PROVE Alone(q) /\ user[q] # u
    BY <1>5, <2>1 DEF DeleteUser, CreateByAdmin, Alone, Busy
  <2>2. ASSUME NEW q \in Reqs, user[q] # u PROVE db'[user[q]] = db[user[q]] \/ user[q] = Nil
    BY <1>5, <2>2 DEF DeleteUser, CreateByAdmin
  <2>3. UNCHANGED <<pc, user, copy>>
    BY <1>5 DEF DeleteUser, CreateByAdmin
  <2> QED BY <2>1, <2>2, <2>3 DEF Unshared, Current, Alone
<1>6. ASSUME NEW s \in Sources, Start(s) \/ StartUnreadable(s) PROVE Unshared' /\ Current'
  BY <1>6 DEF Start, StartUnreadable, Unshared, Current, Alone
<1>7. CASE Crash
  <2>1. \A q \in Reqs : ~Alone(q)'
    BY <1>7 DEF Crash, Alone
  <2> QED BY <1>1, <2>1 DEF Unshared, Current
<1>8. CASE UNCHANGED vars
  <2>1. UNCHANGED <<user, raced, pc, db, copy>>
    BY <1>8 DEF vars
  <2> QED BY <1>1, <2>1 DEF Unshared, Current, Alone
<1> QED BY <1>1, <1>2, <1>3, <1>4, <1>5, <1>6, <1>7, <1>8 DEF Next

(* The record a step adds items to had nothing around them in SAFEMode.         *)
LEMMA CoveredStep ==
  ASSUME SafeModeAssumption, CInv, [Next]_vars
  PROVE  \A u \in Keys \ raced', f, i \in Items :
           /\ db[u] # Nil /\ db[u].items[f] # Nil /\ SafeItemCovers(f, i)
           /\ db'[u] # Nil /\ db[u].items[i] = Nil
           => db'[u].items[i] = Nil
<1> SUFFICES ASSUME NEW u \in Keys \ raced', NEW f \in Items, NEW i \in Items,
                    db[u] # Nil, db[u].items[f] # Nil, SafeItemCovers(f, i),
                    db'[u] # Nil, db[u].items[i] = Nil, db'[u] # db[u]
             PROVE  db'[u].items[i] = Nil
  OBVIOUS
<1> USE DEF SafeModeAssumption
<1>1. TypeInv /\ db[u] \in Accounts
  BY DEF CInv, TypeInv, TypeOK
<1>2. ASSUME NEW r \in Reqs, NEW items, OnlyItems(r, items), raced' = raced, pc[r] # "create",
             Alone(r) /\ user[r] = u => items[i] = Nil
      PROVE  db'[u].items[i] = Nil
  <2>1. user[r] = u
    BY <1>2 DEF OnlyItems
  <2>2. Alone(r)
    BY <1>1, <1>2, <2>1 DEF Alone, TypeInv, TypeOK
  <2> QED BY <1>2, <2>1, <2>2 DEF OnlyItems
<1>3. ASSUME NEW r \in Reqs, Add(r) PROVE db'[u].items[i] = Nil
  <2>1. PICK new \in SUBSET Items, p \in Pins :
           /\ OnlyItems(r, [j \in Items |-> IF j \in new THEN p ELSE copy[r].items[j]])
           /\ \A j \in new : ~\E g \in Items : copy[r].items[g] # Nil /\ SafeItemCovers(g, j)
    BY <1>1, <1>3, AddItems
  <2>2. pc[r] = "add" /\ raced' = raced
    BY <1>3 DEF Add, histVars
  <2>3. Alone(r) => db[user[r]] = copy[r]
    BY <2>2 DEF CInv, Current
  <2>4. Alone(r) /\ user[r] = u => i \notin new
    BY <2>1, <2>3
  <2> QED BY <1>2, <2>1, <2>2, <2>3, <2>4
<1>4. ASSUME NEW r \in Reqs, Remove(r) PROVE db'[u].items[i] = Nil
  <2>1. PICK asked \in SUBSET Items :
           OnlyItems(r, [j \in Items |-> IF j \in asked THEN Nil ELSE copy[r].items[j]])
    BY <1>1, <1>4, RemoveItems
  <2>2. pc[r] = "remove" /\ raced' = raced
    BY <1>4 DEF Remove, histVars
  <2>3. Alone(r) => db[user[r]] = copy[r]
    BY <2>2 DEF CInv, Current
  <2> QED BY <1>2, <2>1, <2>2, <2>3
<1>5. ASSUME NEW r \in Reqs, ProfileItems(r) PROVE db'[u].items[i] = Nil
  <2>1. OnlyItems(r, copy[r].items)
    BY <1>1, <1>5, CopyItems
  <2>2. pc[r] = "profile" /\ raced' = raced
    BY <1>5 DEF ProfileItems, histVars
  <2>3. Alone(r) => db[user[r]] = copy[r]
    BY <2>2 DEF CInv, Current
  <2> QED BY <1>2, <2>1, <2>2, <2>3
<1>6. ASSUME NEW r \in Reqs, RestoreItems(r) PROVE db'[u].items[i] = Nil
  <2>1. OnlyItems(r, copy[r].items)
    BY <1>1, <1>6, CopyItems
  <2>2. pc[r] = "restore" /\ raced' = raced
    BY <1>6 DEF RestoreItems, histVars
  <2>3. Alone(r) => db[user[r]].items = NoItems
    BY <2>2 DEF CInv, Current
  <2>4. ~(Alone(r) /\ user[r] = u)
    BY <2>3 DEF NoItems
  <2> QED BY <1>2, <2>1, <2>2, <2>4
<1>7. ASSUME NEW r \in Reqs, PutPin(r) PROVE db'[u].items[i] = Nil
  BY <1>1, <1>7 DEF PutPin, Found, Accounts, TypeInv, TypeOK
<1>8. ASSUME NEW r \in Reqs, CreateUser(r) PROVE FALSE
  BY <1>8 DEF CreateUser, CInv, TypeInv, TypeOK
<1>9. ASSUME NEW v \in Keys, DeleteUser(v) \/ CreateByAdmin(v) PROVE FALSE
  BY <1>9 DEF DeleteUser, CreateByAdmin, CInv, TypeInv, TypeOK
<1>10. \/ \E r \in Reqs : Add(r) \/ Remove(r) \/ ProfileItems(r) \/ RestoreItems(r) \/ PutPin(r) \/ CreateUser(r)
       \/ \E v \in Keys : DeleteUser(v) \/ CreateByAdmin(v)
  <2>1. db' # db
    OBVIOUS
  <2>2. ~Crash
    BY DEF Crash, CInv, TypeInv, TypeOK
  <2>3. ASSUME NEW r \in Reqs, NEW v \in Keys, Request(r, v) \/ Login(r, v) PROVE FALSE
    BY <2>1, <2>3 DEF Request, Login, Enter
  <2>4. ASSUME NEW s \in Sources, Start(s) \/ StartUnreadable(s) PROVE FALSE
    BY <2>1, <2>4 DEF Start, StartUnreadable
  <2>5. ASSUME NEW r \in Reqs, SaveProtection(r) \/ Refuse(r) \/ RecordState(r) \/ RecordStateFails(r)
                               \/ WriteState(r) \/ WriteStateFails(r) \/ Lookup(r) \/ RestoreFails(r)
        PROVE  FALSE
    BY <2>1, <2>5 DEF SaveProtection, Refuse, RecordState, RecordStateFails, WriteState, WriteStateFails,
         Lookup, RestoreFails
  <2>6. ASSUME NEW r \in Reqs, ProfilePin(r) \/ RestorePin(r) PROVE PutPin(r)
    BY <2>1, <2>6 DEF ProfilePin, RestorePin
  <2> QED BY <2>1, <2>2, <2>3, <2>4, <2>5, <2>6 DEF Next, SafeModeRequest, UserRequest, vars
<1> QED BY <1>3, <1>4, <1>5, <1>6, <1>7, <1>8, <1>9, <1>10

(* safeModeAddHandler: an item already in SAFEMode, or inside a folder that is, gets  *)
(* no PIN of its own, whatever the folders and the requests of other users.        *)
THEOREM CoveredSharesAlways == Spec => CoveredShares
<1>1. Init => CInv
  BY InitCurrent, SafeModeAssumption
<1>2. CInv /\ [Next]_vars => CInv'
  BY NextCurrent, SafeModeAssumption
<1>3. CInv /\ [Next]_vars =>
        [\A u \in Keys \ raced', f, i \in Items :
           /\ db[u] # Nil /\ db[u].items[f] # Nil /\ SafeItemCovers(f, i)
           /\ db'[u] # Nil /\ db[u].items[i] = Nil
           => db'[u].items[i] = Nil]_vars
  BY CoveredStep, SafeModeAssumption
<1> QED BY <1>1, <1>2, <1>3, PTL DEF Spec, CoveredShares

-------------------------------------------------------------------------------
(***************************************************************************)
(* The invariant behind HiddenStays.  A redeploy wipes BoltDB, so what a user  *)
(* was told must be in the file by then, hence in memory before, hence in the   *)
(* record a request is about to save there; and it must be in what a login has  *)
(* looked up until that is in the new record.                                *)
(***************************************************************************)

\* Record or entry e opens what its user was told is hidden, as h says.
Agrees(e, h) == \A i \in Items : h[i] # Nil => e # Nil /\ SafeItemPINHash(e, i) = h[i]

KeptInBolt(u) == db[u] # Nil /\ ~LoggingIn(u) => Agrees(db[u], hidden[u])
KeptInMemory(u) == srv = "up" => Agrees(mem[u], hidden[u])
KeptOnDisk(u) == srv = "down" => Agrees(disk[path][u], hidden[u])
KeptByLogin(u) ==
  \A r \in Reqs : user[r] = u /\ pc[r] \in {"restore", "restore_pin"} => Agrees(copy[r], hidden[u])
KeptBySave(u) == \A r \in Reqs : user[r] = u /\ pc[r] = "ack" => mem[u] = Entry(copy[r])
FileIsCurrent ==
  /\ srv = "up" /\ Unlocked /\ ~stale => disk[path] = mem
  /\ srv = "down" => disk[path] # Torn

Kept(u) == KeptInBolt(u) /\ KeptInMemory(u) /\ KeptOnDisk(u) /\ KeptByLogin(u) /\ KeptBySave(u)

HInv == faults = {} => FileIsCurrent /\ \A u \in Keys \ raced : Kept(u)

(* What a record opens, its entry in the state file opens, and nothing else.     *)
LEMMA EntryAgrees ==
  ASSUME SafeModeAssumption, NEW a \in Accounts, NEW h
  PROVE  Agrees(Entry(a), h) <=> Agrees(a, h)
<1>1. Entry(a) # Nil /\ a # Nil
  BY EntryType DEF SafeModeAssumption
<1>2. \A i \in Items : SafeItemPINHash(Entry(a), i) = SafeItemPINHash(a, i)
  BY DEF SafeItemPINHash, Entry
<1> QED BY <1>1, <1>2 DEF Agrees

(* A record agrees with what its user is told of it.                           *)
LEMMA OpensAgrees == ASSUME SafeModeAssumption, NEW a \in Accounts PROVE Agrees(a, Opens(a))
BY DEF Agrees, Opens, SafeModeAssumption

(* Records of the same items and PIN open the same.                             *)
LEMMA SameAgrees ==
  ASSUME SafeModeAssumption, NEW h, NEW a, NEW b, Agrees(a, h), b # Nil, b.items = a.items, b.pin = a.pin
  PROVE  Agrees(b, h)
BY DEF Agrees, SafeItemPINHash

(* Items new to a record leave the others as they are.                          *)
LEMMA AddAgrees ==
  ASSUME SafeModeAssumption, NEW a \in Accounts, NEW b, NEW h, Agrees(a, h), NEW new \in SUBSET Items,
         NEW p \in Pins, \A i \in new : a.items[i] = Nil, b # Nil, b.pin = a.pin,
         b.items = [i \in Items |-> IF i \in new THEN p ELSE a.items[i]]
  PROVE  Agrees(b, h)
<1>1. \A i \in new : SafeItemPINHash(a, i) = Nil
  BY DEF SafeItemPINHash, SafeModeAssumption
<1>2. \A i \in Items \ new : SafeItemPINHash(b, i) = SafeItemPINHash(a, i)
  BY DEF SafeItemPINHash
<1> QED BY <1>1, <1>2 DEF Agrees

(* Items taken out are no longer promised; the others stay.                      *)
LEMMA RemoveAgrees ==
  ASSUME SafeModeAssumption, NEW a, NEW b, NEW h, NEW k, Agrees(a, h),
         NEW asked \in SUBSET Items, b # Nil, b.pin = a.pin,
         \A i \in Items : b.items[i] = IF i \in asked THEN Nil ELSE a.items[i],
         \A i \in Items : k[i] = IF i \in asked THEN Nil ELSE h[i]
  PROVE  Agrees(b, k)
BY DEF Agrees, SafeItemPINHash

(* Less is promised: what agreed still does.                                    *)
LEMMA LessAgrees ==
  ASSUME NEW a, NEW h, Agrees(a, h), NEW asked \in SUBSET Items
  PROVE  Agrees(a, [i \in Items |-> IF i \in asked THEN Nil ELSE h[i]])
BY DEF Agrees

(* With no items in the state file nothing is promised.                          *)
LEMMA NothingAgrees ==
  ASSUME SafeModeAssumption, NEW e, NEW h, Agrees(e, h), e = Nil \/ e.items = NoItems
  PROVE  \A a : Agrees(a, h)
<1>1. \A i \in Items : h[i] = Nil
  BY DEF Agrees, NoItems, SafeItemPINHash, SafeModeAssumption
<1> QED BY <1>1 DEF Agrees

(* The program starts with every promise in BoltDB and in the file.              *)
LEMMA InitKept == ASSUME SafeModeAssumption, Init PROVE HInv
<1>1. FileIsCurrent
  <2>1. srv = "down" /\ path \in Sources
    BY DEF Init
  <2>2. disk[path] \in [Keys -> Entries \cup {Nil}]
    BY InitType, EntryType DEF Init, TypeInv, TypeOK
  <2>3. disk[path] # Torn
    BY <2>2 DEF SafeModeAssumption
  <2> QED BY <2>1, <2>3 DEF FileIsCurrent
<1>2. ASSUME NEW u \in Keys PROVE Kept(u)
  <2>1. TypeInv
    BY InitType
  <2>2. Agrees(db[u], hidden[u]) \/ db[u] = Nil
    <3>1. CASE db[u] # Nil
      BY <2>1, <3>1, OpensAgrees DEF Init, TypeInv, TypeOK
    <3> QED BY <3>1
  <2>3. disk[path][u] = (IF db[u] = Nil THEN Nil ELSE Entry(db[u])) /\ disk[path] \in [Keys -> Entries \cup {Nil}]
    BY <2>1, EntryType DEF Init, TypeInv, TypeOK
  <2>5. Agrees(disk[path][u], hidden[u])
    <3>1. CASE db[u] # Nil
      BY <2>1, <2>2, <2>3, <3>1, EntryAgrees DEF TypeInv, TypeOK
    <3>2. CASE db[u] = Nil
      BY <3>2 DEF Init, NoItems, Agrees
    <3> QED BY <3>1, <3>2
  <2>6. srv = "down" /\ \A r \in Reqs : pc[r] = "idle"
    BY DEF Init
  <2> QED BY <2>2, <2>5, <2>6 DEF Kept, KeptInBolt, KeptInMemory, KeptOnDisk, KeptByLogin, KeptBySave
<1> QED BY <1>1, <1>2 DEF HInv

(* A step of request r touches no promise made to others than its user.           *)
LEMMA OthersKept ==
  ASSUME NEW r \in Reqs, NEW v \in Keys, v # Nil, v # user[r], Kept(v), srv = "up", srv' = "up",
         \A q \in Reqs \ {r} : user'[q] = user[q] /\ pc'[q] = pc[q] /\ copy'[q] = copy[q],
         user'[r] \in {user[r], Nil},
         db'[v] = db[v], hidden'[v] = hidden[v], mem'[v] = mem[v]
  PROVE  Kept(v)'
<1>1. LoggingIn(v)' <=> LoggingIn(v)
  BY DEF LoggingIn
<1>2. KeptInBolt(v)'
  BY <1>1 DEF Kept, KeptInBolt
<1>3. KeptInMemory(v)' /\ KeptOnDisk(v)'
  BY DEF Kept, KeptInMemory, KeptOnDisk
<1>4. KeptByLogin(v)'
  BY DEF Kept, KeptByLogin
<1>5. KeptBySave(v)'
  BY DEF Kept, KeptBySave
<1> QED BY <1>2, <1>3, <1>4, <1>5 DEF Kept

(* What must be shown of the user whose only request r takes a step.             *)
LEMMA OwnKept ==
  ASSUME CInv, NEW r \in Reqs, NEW w \in Keys, w = user[r], Alone(r), srv' = "up",
         \A q \in Reqs \ {r} : user'[q] = user[q],
         \/ db'[w] = Nil \/ Agrees(db[w], hidden[w])'
         \/ user'[r] = w /\ pc'[r] \in {"create", "lookup", "restore", "restore_pin"},
         Agrees(mem[w], hidden[w])',
         user'[r] = w /\ pc'[r] \in {"restore", "restore_pin"} => Agrees(copy[r], hidden[w])',
         user'[r] = w /\ pc'[r] = "ack" => mem'[w] = Entry(copy'[r])
  PROVE  Kept(w)'
<1>1. \A q \in Reqs \ {r} : user'[q] # w
  BY DEF CInv, Unshared
<1>2. KeptInBolt(w)'
  BY DEF KeptInBolt, LoggingIn
<1>3. KeptInMemory(w)' /\ KeptOnDisk(w)'
  BY DEF KeptInMemory, KeptOnDisk
<1>4. KeptByLogin(w)' /\ KeptBySave(w)'
  BY <1>1 DEF KeptByLogin, KeptBySave
<1> QED BY <1>2, <1>3, <1>4 DEF Kept

(* What is known of that user before the step.                                  *)
LEMMA OwnWas ==
  ASSUME CInv, NEW r \in Reqs, NEW w \in Keys, w = user[r], Alone(r), Kept(w), srv = "up"
  PROVE  /\ db[w] # Nil /\ pc[r] \notin {"create", "lookup", "restore", "restore_pin"}
              => Agrees(db[w], hidden[w])
         /\ Agrees(mem[w], hidden[w])
         /\ pc[r] \in {"restore", "restore_pin"} => Agrees(copy[r], hidden[w])
         /\ pc[r] = "ack" => mem[w] = Entry(copy[r])
<1>1. \A q \in Reqs \ {r} : user[q] # w
  BY DEF CInv, Unshared
<1>2. pc[r] \notin {"create", "lookup", "restore", "restore_pin"} => ~LoggingIn(w)
  BY <1>1 DEF LoggingIn
<1> QED BY <1>2 DEF Kept, KeptInBolt, KeptInMemory, KeptByLogin, KeptBySave

(* The steps of a request keep FileIsCurrent and the promises, while nothing is at  *)
(* fault.  Only its own user's are at stake, in each step.                        *)
KeepsPromises == FileIsCurrent' /\ \A u \in Keys \ raced' : Kept(u)'

(* A step that leaves the state file alone leaves it current.                     *)
LEMMA SameFile ==
  ASSUME FileIsCurrent, UNCHANGED <<acornVars, srv, stale>>
  PROVE  FileIsCurrent'
BY DEF FileIsCurrent, acornVars, Unlocked

(* Hence the promises are kept if those to the user of a lone request are.          *)
LEMMA RequestKeeps ==
  ASSUME SafeModeAssumption, CInv, NEW r \in Reqs, \A u \in Keys \ raced : Kept(u),
         srv = "up", srv' = "up", raced' = raced, FileIsCurrent',
         \A q \in Reqs \ {r} : user'[q] = user[q] /\ pc'[q] = pc[q] /\ copy'[q] = copy[q],
         user'[r] \in {user[r], Nil},
         \A v \in Keys : v # user[r] => db'[v] = db[v] /\ hidden'[v] = hidden[v] /\ mem'[v] = mem[v],
         ASSUME NEW w \in Keys, w = user[r], Alone(r), Kept(w)
         PROVE  /\ \/ db'[w] = Nil \/ Agrees(db[w], hidden[w])'
                   \/ user'[r] = w /\ pc'[r] \in {"create", "lookup", "restore", "restore_pin"}
                /\ Agrees(mem[w], hidden[w])'
                /\ user'[r] = w /\ pc'[r] \in {"restore", "restore_pin"} => Agrees(copy[r], hidden[w])'
                /\ user'[r] = w /\ pc'[r] = "ack" => mem'[w] = Entry(copy'[r])
  PROVE  KeepsPromises
<1>1. ASSUME NEW u \in Keys \ raced', u # user[r] PROVE Kept(u)'
  <2>1. u # Nil
    BY DEF SafeModeAssumption
  <2> QED BY <1>1, <2>1, OthersKept
<1>2. ASSUME NEW u \in Keys \ raced', u = user[r] PROVE Kept(u)'
  <2>1. Alone(r) /\ Kept(u)
    BY <1>2 DEF Alone, SafeModeAssumption
  <2>2. /\ \/ db'[u] = Nil \/ Agrees(db[u], hidden[u])'
           \/ user'[r] = u /\ pc'[r] \in {"create", "lookup", "restore", "restore_pin"}
        /\ Agrees(mem[u], hidden[u])'
        /\ user'[r] = u /\ pc'[r] \in {"restore", "restore_pin"} => Agrees(copy[r], hidden[u])'
        /\ user'[r] = u /\ pc'[r] = "ack" => mem'[u] = Entry(copy'[r])
    BY <1>2, <2>1
  <2> QED BY <1>2, <2>1, <2>2, OwnKept
<1> QED BY <1>1, <1>2 DEF KeepsPromises

(* A list that gets longer or shorter, and its first write to BoltDB.              *)
LEMMA AddKept ==
  ASSUME SafeModeAssumption, CInv, FileIsCurrent, \A u \in Keys \ raced : Kept(u),
         NEW r \in Reqs, Add(r)
  PROVE  KeepsPromises
<1>1. TypeInv
  BY DEF CInv
<1>2. /\ pc[r] = "add" /\ Goto(r, "record") /\ UNCHANGED <<user, acornVars, srv, hidden, raced, stale>>
  BY DEF Add, histVars
<1>3. srv = "up" /\ pc'[r] = "record" /\ \A q \in Reqs \ {r} : pc'[q] = pc[q]
  BY <1>1, <1>2 DEF TypeInv, TypeOK, ReqOK, Goto
<1>4. PICK new \in SUBSET Items, p \in Pins :
         /\ OnlyItems(r, [j \in Items |-> IF j \in new THEN p ELSE copy[r].items[j]])
         /\ \A j \in new : ~\E g \in Items : copy[r].items[g] # Nil /\ SafeItemCovers(g, j)
  BY <1>1, AddItems
<1>5. FileIsCurrent'
  BY <1>2, SameFile
<1>6. ASSUME NEW w \in Keys, w = user[r], Alone(r), Kept(w)
      PROVE  Agrees(db[w], hidden[w])' /\ Agrees(mem[w], hidden[w])'
  <2>1. db[w] = copy[r] /\ db[w] \in Accounts
    BY <1>2, <1>4, <1>6 DEF CInv, Current, OnlyItems
  <2>2. db[w] # Nil
    BY <2>1 DEF SafeModeAssumption
  <2>3. Agrees(db[w], hidden[w]) /\ Agrees(mem[w], hidden[w])
    BY <1>2, <1>3, <1>6, <2>2, OwnWas
  <2>4. \A i \in new : db[w].items[i] = Nil
    BY <1>4, <2>1 DEF SafeItemCovers
  <2>5. db'[w] # Nil /\ db'[w].pin = db[w].pin
        /\ db'[w].items = [i \in Items |-> IF i \in new THEN p ELSE db[w].items[i]]
    BY <1>4, <1>6, <2>1 DEF OnlyItems, Accounts
  <2>6. Agrees(db'[w], hidden[w])
    BY <2>1, <2>3, <2>4, <2>5, AddAgrees
  <2> QED BY <1>2, <2>3, <2>6 DEF acornVars
<1>7. \A v \in Keys : v # user[r] => db'[v] = db[v] /\ hidden'[v] = hidden[v] /\ mem'[v] = mem[v]
  BY <1>2, <1>4 DEF OnlyItems, acornVars
<1>8. \A q \in Reqs \ {r} : user'[q] = user[q] /\ pc'[q] = pc[q] /\ copy'[q] = copy[q]
  BY <1>2, <1>3, <1>4 DEF OnlyItems
<1> QED BY <1>2, <1>3, <1>5, <1>6, <1>7, <1>8, RequestKeeps

LEMMA RemoveKept ==
  ASSUME SafeModeAssumption, CInv, FileIsCurrent, \A u \in Keys \ raced : Kept(u),
         NEW r \in Reqs, Remove(r)
  PROVE  KeepsPromises
<1>1. TypeInv
  BY DEF CInv
<1>2. /\ pc[r] = "remove" /\ Goto(r, "record") /\ UNCHANGED <<user, acornVars, srv, raced, stale>>
  BY DEF Remove
<1>3. srv = "up" /\ pc'[r] = "record" /\ \A q \in Reqs \ {r} : pc'[q] = pc[q]
  BY <1>1, <1>2 DEF TypeInv, TypeOK, ReqOK, Goto
<1>4. PICK asked \in SUBSET Items :
         /\ OnlyItems(r, [j \in Items |-> IF j \in asked THEN Nil ELSE copy[r].items[j]])
         /\ hidden' = [hidden EXCEPT ![user[r]] = [j \in Items |-> IF j \in asked THEN Nil ELSE @[j]]]
  BY <1>1, RemoveItems
<1>5. FileIsCurrent'
  BY <1>2, SameFile
<1>6. ASSUME NEW w \in Keys, w = user[r], Alone(r), Kept(w)
      PROVE  Agrees(db[w], hidden[w])' /\ Agrees(mem[w], hidden[w])'
  <2>1. db[w] = copy[r] /\ db[w] \in Accounts
    BY <1>2, <1>4, <1>6 DEF CInv, Current, OnlyItems
  <2>2. db[w] # Nil
    BY <2>1 DEF SafeModeAssumption
  <2>3. Agrees(db[w], hidden[w]) /\ Agrees(mem[w], hidden[w])
    BY <1>2, <1>3, <1>6, <2>2, OwnWas
  <2>4. hidden[w] \in [Items -> Pins \cup {Nil}]
        /\ hidden'[w] = [j \in Items |-> IF j \in asked THEN Nil ELSE hidden[w][j]]
    BY <1>1, <1>4, <1>6 DEF TypeInv, TypeOK
  <2>5. db'[w] # Nil /\ db'[w].pin = db[w].pin
        /\ db'[w].items = [i \in Items |-> IF i \in asked THEN Nil ELSE db[w].items[i]]
    BY <1>4, <1>6, <2>1 DEF OnlyItems, Accounts
  <2> DEFINE less == [j \in Items |-> IF j \in asked THEN Nil ELSE hidden[w][j]]
  <2>6. Agrees(db'[w], less)
    <3>1. /\ \A i \in Items : less[i] = IF i \in asked THEN Nil ELSE hidden[w][i]
          /\ \A i \in Items : db'[w].items[i] = IF i \in asked THEN Nil ELSE db[w].items[i]
      BY <2>5
    <3> HIDE DEF less
    <3>2. \A a, b, h, k :
            /\ Agrees(a, h) /\ b # Nil /\ b.pin = a.pin
            /\ \A i \in Items : b.items[i] = IF i \in asked THEN Nil ELSE a.items[i]
            /\ \A i \in Items : k[i] = IF i \in asked THEN Nil ELSE h[i]
            => Agrees(b, k)
      BY RemoveAgrees
    <3> QED BY <2>3, <2>5, <3>1, <3>2
  <2>7. Agrees(mem[w], less)
    BY <2>3, LessAgrees
  <2> QED BY <1>2, <2>4, <2>6, <2>7 DEF acornVars
<1>7. \A v \in Keys : v # user[r] => db'[v] = db[v] /\ hidden'[v] = hidden[v] /\ mem'[v] = mem[v]
  BY <1>1, <1>2, <1>4 DEF OnlyItems, acornVars, TypeInv, TypeOK
<1>8. \A q \in Reqs \ {r} : user'[q] = user[q] /\ pc'[q] = pc[q] /\ copy'[q] = copy[q]
  BY <1>2, <1>3, <1>4 DEF OnlyItems
<1> QED BY <1>2, <1>3, <1>5, <1>6, <1>7, <1>8, RequestKeeps

(* The answer to a request that has shown its user the whole list.                 *)
LEMMA AnswerKept ==
  ASSUME SafeModeAssumption, CInv, NEW r \in Reqs, NEW w \in Keys, w = user[r], Alone(r),
         pc[r] \in {"record", "ack"}, hidden' = [hidden EXCEPT ![user[r]] = Opens(copy[r])],
         db' = db, mem'[w] = Entry(copy[r])
  PROVE  Agrees(db[w], hidden[w])' /\ Agrees(mem[w], hidden[w])'
<1>1. copy[r] \in Accounts /\ hidden'[w] = Opens(copy[r])
  BY DEF CInv, TypeInv, TypeOK, ReqOK
<1>2. db[w] = copy[r]
  BY DEF CInv, Current
<1>3. Agrees(copy[r], hidden'[w])
  BY <1>1, OpensAgrees
<1>4. Agrees(Entry(copy[r]), hidden'[w])
  BY <1>1, <1>3, EntryAgrees
<1> QED BY <1>2, <1>3, <1>4

(* The state file is opened for the list of the user, or for a protection.          *)
LEMMA RecordKept ==
  ASSUME SafeModeAssumption, CInv, FileIsCurrent, \A u \in Keys \ raced : Kept(u),
         NEW r \in Reqs, RecordState(r)
  PROVE  KeepsPromises
<1>1. /\ pc[r] = "record" /\ Goto(r, "ack") /\ OpenFile(r, Saved(r))
      /\ UNCHANGED <<user, copy, srv, db, hidden, raced, stale>>
  BY DEF RecordState, histVars
<1>2. srv = "up" /\ pc'[r] = "ack" /\ \A q \in Reqs \ {r} : pc'[q] = pc[q]
  BY <1>1 DEF CInv, TypeInv, TypeOK, ReqOK, Goto
<1>3. FileIsCurrent'
  BY <1>1, <1>2 DEF OpenFile, FileIsCurrent, Unlocked, SafeModeAssumption
<1>4. \A v \in Keys : mem'[v] = IF v = user[r] THEN Entry(copy[r]) ELSE mem[v]
  BY <1>1 DEF OpenFile, Saved, CInv, TypeInv, TypeOK
<1>5. ASSUME NEW w \in Keys, w = user[r], Alone(r), Kept(w)
      PROVE  Agrees(db[w], hidden[w])' /\ Agrees(mem[w], hidden[w])'
  <2>1. db[w] = copy[r] /\ copy[r] \in Accounts
    BY <1>1, <1>5 DEF CInv, Current, TypeInv, TypeOK, ReqOK
  <2>2. Agrees(db[w], hidden[w])
    BY <1>1, <1>2, <1>5, <2>1, OwnWas DEF SafeModeAssumption
  <2>3. Agrees(Entry(copy[r]), hidden[w])
    BY <2>1, <2>2, EntryAgrees
  <2> QED BY <1>1, <1>4, <1>5, <2>2, <2>3
<1>6. \A v \in Keys : v # user[r] => db'[v] = db[v] /\ hidden'[v] = hidden[v] /\ mem'[v] = mem[v]
  BY <1>1, <1>4
<1>7. \A q \in Reqs \ {r} : user'[q] = user[q] /\ pc'[q] = pc[q] /\ copy'[q] = copy[q]
  BY <1>1, <1>2
<1>8. ASSUME NEW w \in Keys, w = user[r] PROVE mem'[w] = Entry(copy'[r])
  BY <1>1, <1>4, <1>8
<1> QED BY <1>1, <1>2, <1>3, <1>5, <1>6, <1>7, <1>8, RequestKeeps

(* The state file cannot be opened, and the user is told the list all the same.      *)
LEMMA RecordFailsKept ==
  ASSUME SafeModeAssumption, CInv, FileIsCurrent, \A u \in Keys \ raced : Kept(u),
         NEW r \in Reqs, RecordStateFails(r)
  PROVE  KeepsPromises
<1>1. /\ pc[r] = "record" /\ Answer(r) /\ OpenFileFails(Saved(r)) /\ stale' = TRUE
      /\ UNCHANGED <<srv, db, raced>>
  BY DEF RecordStateFails
<1>2. /\ srv = "up" /\ user'[r] = Nil
      /\ \A q \in Reqs \ {r} : user'[q] = user[q] /\ pc'[q] = pc[q] /\ copy'[q] = copy[q]
  BY <1>1 DEF CInv, TypeInv, TypeOK, ReqOK, Answer, Reply, Goto
<1>3. FileIsCurrent'
  BY <1>1, <1>2 DEF FileIsCurrent
<1>4. \A v \in Keys : mem'[v] = IF v = user[r] THEN Entry(copy[r]) ELSE mem[v]
  BY <1>1 DEF OpenFileFails, Saved, CInv, TypeInv, TypeOK
<1>5. hidden' = [hidden EXCEPT ![user[r]] = Opens(copy[r])]
  BY <1>1 DEF Answer
<1>6. ASSUME NEW w \in Keys, w = user[r], Alone(r)
      PROVE  Agrees(db[w], hidden[w])' /\ Agrees(mem[w], hidden[w])'
  BY <1>1, <1>4, <1>5, <1>6, AnswerKept
<1>7. \A v \in Keys : v # user[r] => db'[v] = db[v] /\ hidden'[v] = hidden[v] /\ mem'[v] = mem[v]
  BY <1>1, <1>4, <1>5 DEF CInv, TypeInv, TypeOK
<1>8. \A w \in Keys : Nil # w
  BY DEF SafeModeAssumption
<1> QED BY <1>1, <1>2, <1>3, <1>6, <1>7, <1>8, RequestKeeps

(* The file is full again, or the write failed, and the user is told the list.        *)
LEMMA WriteKept ==
  ASSUME SafeModeAssumption, CInv, FileIsCurrent, \A u \in Keys \ raced : Kept(u),
         NEW r \in Reqs, WriteState(r) \/ WriteStateFails(r)
  PROVE  KeepsPromises
<1>1. /\ pc[r] \in {"ack", "reply"} /\ Answer(r) /\ mem' = mem /\ path' = path
      /\ UNCHANGED <<srv, db, raced>>
  BY DEF WriteState, WriteStateFails, FillFile, FillFileFails
<1>2. /\ srv = "up" /\ user'[r] = Nil
      /\ \A q \in Reqs \ {r} : user'[q] = user[q] /\ pc'[q] = pc[q] /\ copy'[q] = copy[q]
  BY <1>1 DEF CInv, TypeInv, TypeOK, ReqOK, Answer, Reply, Goto
<1>3. FileIsCurrent'
  BY DEF FileIsCurrent, WriteState, WriteStateFails, FillFile, FillFileFails, CInv, TypeInv, TypeOK
<1>4. hidden' = IF pc[r] = "ack" THEN [hidden EXCEPT ![user[r]] = Opens(copy[r])] ELSE hidden
  BY <1>1 DEF Answer
<1>5. ASSUME NEW w \in Keys, w = user[r], Alone(r), Kept(w)
      PROVE  Agrees(db[w], hidden[w])' /\ Agrees(mem[w], hidden[w])'
  <2>1. pc[r] = "ack"
    BY <1>1, <1>5 DEF Alone, CInv, TypeInv, ReqOK
  <2>2. mem'[w] = Entry(copy[r])
    BY <1>1, <1>2, <1>5, <2>1, OwnWas
  <2> QED BY <1>1, <1>4, <1>5, <2>1, <2>2, AnswerKept
<1>6. \A v \in Keys : v # user[r] => db'[v] = db[v] /\ hidden'[v] = hidden[v] /\ mem'[v] = mem[v]
  BY <1>1, <1>4 DEF CInv, TypeInv, TypeOK
<1>7. \A w \in Keys : Nil # w
  BY DEF SafeModeAssumption
<1> QED BY <1>1, <1>2, <1>3, <1>5, <1>6, <1>7, RequestKeeps

(* A profile save writes back what BoltDB holds.                                   *)
LEMMA ProfileKept ==
  ASSUME SafeModeAssumption, CInv, FileIsCurrent, \A u \in Keys \ raced : Kept(u),
         NEW r \in Reqs, ProfileItems(r) \/ ProfilePin(r)
  PROVE  KeepsPromises
<1>1. /\ pc[r] \in {"profile", "profile_pin"} /\ UNCHANGED <<acornVars, srv, hidden, raced, stale>>
      /\ pc'[r] \in {"profile_pin", "idle"}
      /\ \A q \in Reqs \ {r} : user'[q] = user[q] /\ pc'[q] = pc[q]
      /\ user'[r] \in {user[r], Nil}
  BY DEF ProfileItems, ProfilePin, Goto, Reply, histVars, CInv, TypeInv, TypeOK
<1>2. /\ \A q \in Reqs \ {r} : copy'[q] = copy[q]
      /\ \A v \in Keys : v # user[r] => db'[v] = db[v]
      /\ \A w \in Keys : w = user[r] /\ db[w] = copy[r] => db'[w] = db[w]
  <2>1. CASE ProfileItems(r)
    <3>1. OnlyItems(r, copy[r].items) /\ copy[r] \in Accounts
      BY <2>1, CopyItems DEF CInv
    <3>2. [copy[r] EXCEPT !.items = copy[r].items] = copy[r]
      BY <3>1 DEF Accounts
    <3> QED BY <3>1, <3>2 DEF OnlyItems
  <2>2. CASE ProfilePin(r)
    <3>1. copy' = [copy EXCEPT ![r] = Nil]
          /\ (db' = db \/ db' = [db EXCEPT ![user[r]] = [db[user[r]] EXCEPT !.pin = copy[r].pin]])
      BY <2>2 DEF ProfilePin, PutPin, Reply
    <3>2. copy[r] \in Accounts
      BY <2>2 DEF ProfilePin, CInv, TypeInv, TypeOK, ReqOK
    <3>3. [copy[r] EXCEPT !.pin = copy[r].pin] = copy[r]
      BY <3>2 DEF Accounts
    <3> QED BY <3>1, <3>3 DEF CInv, TypeInv, TypeOK
  <2> QED BY <2>1, <2>2
<1>3. srv = "up"
  BY <1>1 DEF CInv, TypeInv, TypeOK, ReqOK
<1>4. FileIsCurrent'
  BY <1>1, SameFile
<1>5. ASSUME NEW w \in Keys, w = user[r], Alone(r), Kept(w)
      PROVE  (db'[w] = Nil \/ Agrees(db[w], hidden[w])') /\ Agrees(mem[w], hidden[w])'
  <2>1. db[w] = copy[r] /\ db'[w] = db[w]
    BY <1>1, <1>2, <1>5 DEF CInv, Current
  <2>2. (db[w] = Nil \/ Agrees(db[w], hidden[w])) /\ Agrees(mem[w], hidden[w])
    BY <1>1, <1>3, <1>5, OwnWas
  <2> QED BY <1>1, <2>1, <2>2 DEF acornVars
<1>6. \A v \in Keys : v # user[r] => db'[v] = db[v] /\ hidden'[v] = hidden[v] /\ mem'[v] = mem[v]
  BY <1>1, <1>2 DEF acornVars
<1> QED BY <1>1, <1>2, <1>3, <1>4, <1>5, <1>6, RequestKeeps

(* A refused request, the first login of a user and the restore it makes.             *)
LEMMA LoginKept ==
  ASSUME SafeModeAssumption, CInv, FileIsCurrent, \A u \in Keys \ raced : Kept(u),
         NEW r \in Reqs,
         Refuse(r) \/ CreateUser(r) \/ Lookup(r) \/ RestoreItems(r) \/ RestorePin(r)
  PROVE  KeepsPromises
<1>1. /\ pc[r] \notin {"idle", "reply"} /\ UNCHANGED <<acornVars, srv, hidden, raced, stale>>
      /\ \A q \in Reqs \ {r} : user'[q] = user[q] /\ pc'[q] = pc[q] /\ copy'[q] = copy[q]
      /\ user'[r] \in {user[r], Nil}
      /\ \A v \in Keys : v # user[r] => db'[v] = db[v]
  <2>1. CASE RestoreItems(r)
    <3>1. OnlyItems(r, copy[r].items)
      BY <2>1, CopyItems DEF CInv
    <3> QED BY <2>1, <3>1 DEF RestoreItems, OnlyItems, Goto, histVars, CInv, TypeInv, TypeOK
  <2>2. CASE Refuse(r) \/ CreateUser(r) \/ Lookup(r) \/ RestorePin(r)
    BY <2>2 DEF Refuse, CreateUser, Lookup, RestorePin, PutPin, Goto, Reply, histVars, CInv, TypeInv, TypeOK
  <2> QED BY <2>1, <2>2
<1>2. srv = "up"
  BY <1>1 DEF CInv, TypeInv, TypeOK, ReqOK
<1>3. FileIsCurrent'
  BY <1>1, SameFile
<1>4. \A v \in Keys : v # user[r] => db'[v] = db[v] /\ hidden'[v] = hidden[v] /\ mem'[v] = mem[v]
  BY <1>1 DEF acornVars
<1>5. ASSUME NEW w \in Keys, w = user[r], Alone(r), Kept(w)
      PROVE  /\ \/ db'[w] = Nil \/ Agrees(db[w], hidden[w])'
                \/ user'[r] = w /\ pc'[r] \in {"create", "lookup", "restore", "restore_pin"}
             /\ user'[r] = w /\ pc'[r] \in {"restore", "restore_pin"} => Agrees(copy[r], hidden[w])'
             /\ user'[r] = w /\ pc'[r] = "ack" => mem'[w] = Entry(copy'[r])
  <2>1. /\ db[w] # Nil /\ pc[r] \notin {"create", "lookup", "restore", "restore_pin"}
              => Agrees(db[w], hidden[w])
        /\ Agrees(mem[w], hidden[w])
        /\ pc[r] \in {"restore", "restore_pin"} => Agrees(copy[r], hidden[w])
    BY <1>2, <1>5, OwnWas
  <2>2. w # Nil
    BY DEF SafeModeAssumption
  <2>3. CASE Refuse(r)
    <3>1. user'[r] = Nil /\ db' = db /\ pc[r] \in {"add", "remove", "profile", "create"}
      BY <2>3 DEF Refuse, Reply, CInv, TypeInv, TypeOK
    <3>2. pc[r] = "create" => db[w] = Nil
      BY <1>5 DEF CInv, Current
    <3> QED BY <1>1, <2>1, <2>2, <3>1, <3>2
  <2>4. CASE CreateUser(r)
    BY <1>5, <2>4 DEF CreateUser, Goto, CInv, TypeInv, TypeOK
  <2>5. CASE Lookup(r)
    <3>1. CASE mem[w] # Nil /\ mem[w].items # NoItems
      <4>1. /\ copy' = [copy EXCEPT ![r] = [[copy[r] EXCEPT !.items = mem[w].items] EXCEPT !.pin = mem[w].pin]]
            /\ Goto(r, "restore") /\ user' = user
        BY <1>5, <2>5, <3>1 DEF Lookup
      <4>2. copy[r] \in Accounts /\ pc'[r] = "restore"
        BY <2>5, <4>1 DEF Lookup, Goto, CInv, TypeInv, TypeOK, ReqOK
      <4>3. copy'[r].items = mem[w].items /\ copy'[r].pin = mem[w].pin /\ copy'[r] # Nil
        <5>1. copy'[r] = [[copy[r] EXCEPT !.items = mem[w].items] EXCEPT !.pin = mem[w].pin]
          BY <4>1 DEF CInv, TypeInv, TypeOK
        <5>2. copy'[r].items = mem[w].items /\ copy'[r].pin = mem[w].pin
          BY <4>2, <5>1 DEF Accounts
        <5>3. CInv'
          BY <2>5, NextCurrent DEF Next, UserRequest
        <5>4. copy'[r] \in Accounts
          BY <4>2, <5>3 DEF CInv, TypeInv, ReqOK
        <5> QED BY <5>2, <5>4 DEF SafeModeAssumption
      <4>4. Agrees(copy'[r], hidden[w])
        BY <2>1, <4>3, SameAgrees
      <4> QED BY <1>1, <1>5, <4>1, <4>2, <4>4
    <3>2. CASE ~(mem[w] # Nil /\ mem[w].items # NoItems)
      <4>1. Reply(r)
        BY <1>5, <2>5, <3>2 DEF Lookup
      <4>2. user'[r] = Nil
        BY <4>1 DEF Reply, CInv, TypeInv, TypeOK
      <4>3. \A a : Agrees(a, hidden[w])
        BY <2>1, <3>2, NothingAgrees
      <4> QED BY <1>1, <2>2, <4>2, <4>3
    <3> QED BY <3>1, <3>2
  <2>6. CASE RestoreItems(r)
    <3>1. OnlyItems(r, copy[r].items) /\ copy[r] \in Accounts
      BY <2>6, CopyItems DEF CInv
    <3>2. [copy[r] EXCEPT !.items = copy[r].items] = copy[r]
      BY <3>1 DEF Accounts
    <3>3. copy'[r] = copy[r]
      BY <3>1, <3>2 DEF OnlyItems
    <3>4. pc[r] = "restore" /\ pc'[r] = "restore_pin" /\ user' = user
      BY <2>6 DEF RestoreItems, Goto, CInv, TypeInv, TypeOK
    <3> QED BY <1>1, <1>5, <2>1, <3>3, <3>4
  <2>7. CASE RestorePin(r)
    <3>1. pc[r] = "restore_pin" /\ db' = [db EXCEPT ![w] = [db[w] EXCEPT !.pin = copy[r].pin]] /\ user'[r] = Nil
      BY <1>5, <2>7 DEF RestorePin, PutPin, Reply, CInv, TypeInv, TypeOK
    <3>2. db[w] # Nil /\ db[w].items = copy[r].items /\ db[w] \in Accounts
      BY <1>5, <3>1 DEF CInv, Current, TypeInv, TypeOK
    <3>3. copy[r] \in Accounts
      BY <3>1 DEF CInv, TypeInv, ReqOK
    <3>4. db'[w] = [db[w] EXCEPT !.pin = copy[r].pin]
      BY <3>1 DEF CInv, TypeInv, TypeOK
    <3>5. db'[w].items = copy[r].items /\ db'[w].pin = copy[r].pin /\ db'[w] \in Accounts
      BY <3>2, <3>3, <3>4 DEF Accounts
    <3>6. db'[w] # Nil
      BY <3>5 DEF SafeModeAssumption
    <3>7. Agrees(db'[w], hidden[w])
      BY <2>1, <3>1, <3>5, <3>6, SameAgrees
    <3> QED BY <1>1, <2>2, <3>1, <3>7
  <2> QED BY <2>3, <2>4, <2>5, <2>6, <2>7
<1>6. ASSUME NEW w \in Keys, w = user[r], Alone(r), Kept(w) PROVE Agrees(mem[w], hidden[w])'
  BY <1>1, <1>2, <1>6, OwnWas DEF acornVars
<1> QED BY <1>1, <1>2, <1>3, <1>4, <1>5, <1>6, RequestKeeps

(* What a step leaves alone of user u, it leaves u.                                 *)
LEMMA SameKept ==
  ASSUME NEW u \in Keys, Kept(u),
         UNCHANGED <<srv, mem, disk, path, pc, user, copy, hidden>>,
         db'[u] \in {db[u], Nil}
  PROVE  Kept(u)'
<1>1. LoggingIn(u)' <=> LoggingIn(u)
  BY DEF LoggingIn
<1> QED BY <1>1 DEF Kept, KeptInBolt, KeptInMemory, KeptOnDisk, KeptByLogin, KeptBySave

(* Every step keeps the promises, while nothing is at fault.                         *)
LEMMA NextKept == ASSUME SafeModeAssumption, CInv, HInv, [Next]_vars PROVE HInv'
<1> SUFFICES ASSUME faults' = {} PROVE KeepsPromises
  BY DEF HInv, KeepsPromises
<1>1. faults = {}
  BY DEF Next, Request, Login, Enter, SafeModeRequest, UserRequest, Refuse, SaveProtection, Add, Remove,
         RecordState, RecordStateFails, WriteState, WriteStateFails, ProfileItems, ProfilePin, CreateUser,
         Lookup, RestoreItems, RestorePin, RestoreFails, DeleteUser, CreateByAdmin, Start, StartUnreadable,
         Crash, vars, histVars
<1>2. FileIsCurrent /\ \A u \in Keys \ raced : Kept(u)
  BY <1>1 DEF HInv
<1>3. ASSUME NEW r \in Reqs, SafeModeRequest(r) \/ UserRequest(r) \/ Refuse(r) PROVE KeepsPromises
  <2>1. ~RestoreFails(r)
    BY DEF RestoreFails
  <2> QED BY <1>2, <1>3, <2>1, AddKept, RemoveKept, RecordKept, RecordFailsKept, WriteKept, ProfileKept, LoginKept
          DEF SafeModeRequest, UserRequest
<1>4. ASSUME NEW r \in Reqs, NEW v \in Keys, Request(r, v) \/ Login(r, v) PROVE KeepsPromises
  <2>1. PICK place \in {"add", "remove", "profile", "create"} :
          Enter(r, v, place) /\ (place = "create" => db[v] = Nil)
    BY <1>4 DEF Request, Login
  <2>2. FileIsCurrent'
    BY <1>2, <2>1, SameFile DEF Enter
  <2>3. ASSUME NEW u \in Keys \ raced' PROVE Kept(u)'
    <3>1. Kept(u) /\ UNCHANGED <<srv, mem, disk, path, db, hidden>>
      BY <1>2, <2>1, <2>3 DEF Enter, acornVars
    <3>2. \A q \in Reqs \ {r} : user'[q] = user[q] /\ pc'[q] = pc[q] /\ copy'[q] = copy[q]
      BY <2>1 DEF Enter, Goto, CInv, TypeInv, TypeOK
    <3>3. user'[r] = v /\ pc'[r] = place /\ (pc[r] = "idle" /\ user[r] = Nil)
      BY <2>1 DEF Enter, Goto, CInv, TypeInv, TypeOK, ReqOK
    <3>4. LoggingIn(u) => LoggingIn(u)'
      BY <3>2, <3>3 DEF LoggingIn, SafeModeAssumption
    <3>5. KeptInBolt(u)' /\ KeptInMemory(u)' /\ KeptOnDisk(u)'
      BY <3>1, <3>4 DEF Kept, KeptInBolt, KeptInMemory, KeptOnDisk
    <3>6. KeptByLogin(u)' /\ KeptBySave(u)'
      BY <3>1, <3>2, <3>3 DEF Kept, KeptByLogin, KeptBySave
    <3> QED BY <3>5, <3>6 DEF Kept
  <2> QED BY <2>2, <2>3 DEF KeepsPromises
<1>5. ASSUME NEW r \in Reqs, SaveProtection(r) PROVE KeepsPromises
  <2>1. /\ mem' = mem /\ holder' = r /\ UNCHANGED <<srv, user, copy, db, hidden, raced>>
        /\ srv = "up" /\ pc[r] = "idle" /\ pc' = [pc EXCEPT ![r] = "reply"]
    BY <1>5 DEF SaveProtection, OpenFile, Goto, histVars
  <2>2. FileIsCurrent'
    BY <2>1 DEF FileIsCurrent, Unlocked, SafeModeAssumption
  <2>3. user[r] = Nil /\ pc'[r] = "reply" /\ \A q \in Reqs \ {r} : pc'[q] = pc[q]
    BY <2>1 DEF CInv, TypeInv, TypeOK, ReqOK
  <2>4. ASSUME NEW u \in Keys \ raced' PROVE Kept(u)'
    <3>1. Kept(u) /\ (LoggingIn(u)' <=> LoggingIn(u))
      BY <1>2, <2>1, <2>3, <2>4 DEF LoggingIn, SafeModeAssumption
    <3>2. KeptInBolt(u)' /\ KeptInMemory(u)' /\ KeptOnDisk(u)'
      BY <2>1, <3>1 DEF Kept, KeptInBolt, KeptInMemory, KeptOnDisk
    <3>3. KeptByLogin(u)' /\ KeptBySave(u)'
      BY <2>1, <2>3, <3>1 DEF Kept, KeptByLogin, KeptBySave
    <3> QED BY <3>2, <3>3 DEF Kept
  <2> QED BY <2>2, <2>4 DEF KeepsPromises
<1>6. ASSUME NEW v \in Keys, DeleteUser(v) PROVE KeepsPromises
  <2>1. UNCHANGED <<acornVars, srv, pc, user, copy, hidden, stale>> /\ raced \subseteq raced'
        /\ \A u \in Keys : db'[u] \in {db[u], Nil}
    BY <1>6 DEF DeleteUser, reqVars, CInv, TypeInv, TypeOK
  <2>2. \A u \in Keys \ raced' : Kept(u)'
    BY <1>2, <2>1, SameKept DEF acornVars
  <2> QED BY <1>2, <2>1, <2>2, SameFile DEF KeepsPromises
<1>7. ASSUME NEW v \in Keys, CreateByAdmin(v) PROVE FALSE
  BY <1>7 DEF CreateByAdmin
<1>8. ASSUME NEW s \in Sources, Start(s) PROVE KeepsPromises
  <2>1. s = path
    BY <1>8 DEF Start
  <2>2. /\ srv = "down" /\ srv' = "up" /\ path' = path /\ mem' = ReadBack(path)
        /\ UNCHANGED <<disk, pc, user, copy, db, hidden, raced>>
    BY <1>8, <2>1 DEF Start, reqVars
  <2>4. disk[path] # Torn
    BY <1>2, <2>2 DEF FileIsCurrent
  <2>3. ASSUME NEW u \in Keys \ raced' PROVE Kept(u)'
    <3>1. Kept(u) /\ (LoggingIn(u)' <=> LoggingIn(u))
      BY <1>2, <2>2, <2>3 DEF LoggingIn
    <3>2. KeptInBolt(u)' /\ KeptInMemory(u)' /\ KeptOnDisk(u)'
      BY <2>2, <2>4, <3>1 DEF Kept, KeptInBolt, KeptInMemory, KeptOnDisk, ReadBack
    <3>3. \A r \in Reqs : pc[r] = "idle"
      BY <2>2 DEF CInv, TypeInv, ReqOK
    <3>4. KeptByLogin(u)' /\ KeptBySave(u)'
      BY <2>2, <3>3 DEF KeptByLogin, KeptBySave
    <3> QED BY <3>1, <3>2, <3>4 DEF Kept
  <2> QED BY <2>2, <2>3, <2>4 DEF KeepsPromises, FileIsCurrent, ReadBack
<1>9. ASSUME NEW s \in Sources, StartUnreadable(s) PROVE FALSE
  BY <1>9 DEF StartUnreadable
<1>10. CASE Crash
  <2>1. /\ srv = "up" /\ srv' = "down" /\ Wear = {}
        /\ UNCHANGED <<disk, path, hidden, raced>>
        /\ \A r \in Reqs : pc'[r] = "idle"
        /\ (db' = db /\ ~Restoring) \/ \A u \in Keys : db'[u] = Nil
    BY <1>10 DEF Crash, ForgetState
  <2>2. disk[path] = mem
    BY <1>2, <2>1 DEF FileIsCurrent, Wear
  <2>3. ASSUME NEW u \in Keys \ raced' PROVE Kept(u)'
    <3>1. Kept(u)
      BY <1>2, <2>1, <2>3
    <3>3. KeptOnDisk(u)'
      BY <2>1, <2>2, <3>1 DEF Kept, KeptInMemory, KeptOnDisk
    <3>4. db' = db /\ ~Restoring /\ db[u] # Nil => ~LoggingIn(u)
      <4> SUFFICES ASSUME ~Restoring, db[u] # Nil, NEW r \in Reqs, user[r] = u, pc[r] = "create"
                   PROVE  FALSE
        BY DEF LoggingIn, Restoring
      <4>1. Alone(r)
        BY <2>1, <2>3 DEF Alone, SafeModeAssumption
      <4> QED BY <4>1 DEF CInv, Current
    <3>5. KeptInBolt(u)'
      BY <2>1, <3>1, <3>4 DEF Kept, KeptInBolt
    <3>6. KeptInMemory(u)' /\ KeptByLogin(u)' /\ KeptBySave(u)'
      BY <2>1 DEF KeptInMemory, KeptByLogin, KeptBySave
    <3> QED BY <3>3, <3>5, <3>6 DEF Kept
  <2>4. disk[path] # Torn
    BY <2>2 DEF CInv, TypeInv, TypeOK, SafeModeAssumption
  <2> QED BY <2>1, <2>3, <2>4 DEF KeepsPromises, FileIsCurrent
<1>11. CASE UNCHANGED vars
  <2>1. UNCHANGED <<acornVars, srv, db, pc, user, copy, hidden, stale, raced>>
    BY <1>11 DEF vars, reqVars, histVars
  <2>2. \A u \in Keys \ raced' : Kept(u)'
    BY <1>2, <2>1, SameKept DEF acornVars
  <2> QED BY <1>2, <2>1, <2>2, SameFile DEF KeepsPromises
<1> QED BY <1>3, <1>4, <1>5, <1>6, <1>7, <1>8, <1>9, <1>10, <1>11 DEF Next

(* What users were told is in SAFEMode stays there behind the PIN they gave it, from    *)
(* whichever version the item is: through the state file's rewrites, profile saves,    *)
(* deleted accounts, crashes and redeploys, as long as none of the faults the run      *)
(* names has happened and the requests of the user did not overlap.                   *)
THEOREM HiddenStaysAlways == Spec => []HiddenStays
<1>1. Init => CInv /\ HInv
  BY InitCurrent, InitKept, SafeModeAssumption
<1>2. CInv /\ HInv /\ [Next]_vars => (CInv /\ HInv)'
  BY NextCurrent, NextKept, SafeModeAssumption
<1>3. CInv /\ HInv => HiddenStays
  <2> SUFFICES ASSUME CInv, HInv, srv = "up", faults = {}, NEW u \in Keys \ raced,
                      db[u] # Nil, ~LoggingIn(u), NEW i \in Items, hidden[u][i] # Nil
               PROVE  Opens(db[u])[i] = hidden[u][i]
    BY DEF HiddenStays, HiddenUnless, Keeps
  <2> QED BY DEF HInv, Kept, KeptInBolt, Agrees, Opens
<1> QED BY <1>1, <1>2, <1>3, PTL DEF Spec

-------------------------------------------------------------------------------
(* Documents edited together (Office), for any number of tabs, documents, keys and *)
(* faults: one copy a document, and what was told to be saved is in the file.      *)

Texts == SUBSET (Letters \cup Editors)
Somewhere == Paths \cup {O!Unset}
TabRecs == [at : {"out", "miss", "known", "config", "open", "gone"}, path : Somewhere, key : Nat]
CopyRecs == [at : {"none", "open", "closing", "closed"}, path : Somewhere, text : Texts, dirty : BOOLEAN]
CallRecs == [at : {"none", "arrived", "look", "miss", "cut", "write"}, status : {0, 2, 3, 4, 6},
             text : Texts, to : Somewhere]

OfficeType ==
  /\ doc \in [Paths -> Texts \cup {O!Absent}]
  /\ MaxKeys \in Nat /\ made \in Nat /\ made <= MaxKeys /\ key \in [Paths -> 0..made]
  /\ editor \in [Editors -> TabRecs]
  /\ draft \in [O!DocKeys -> CopyRecs] /\ call \in [O!DocKeys -> CallRecs]
  /\ stored \in [Paths -> Texts] /\ apart \subseteq Paths

\* Keys in use are keys that were made; tabs that edit have an open copy, callbacks a
\* copy that is not gone, and one that is being closed if they say it is.
Holds ==
  /\ \A e \in Editors :
       /\ editor[e].at \in {"miss", "known", "config", "open"} => editor[e].path \in Paths
       /\ editor[e].at \in {"config", "open"} => editor[e].key \in 1..made
       /\ editor[e].at \notin {"config", "open"} => editor[e].key = O!Unset
       /\ editor[e].at = "open" => draft[editor[e].key].at = "open"
  /\ \A k \in O!DocKeys :
       /\ draft[k].at # "none" => k <= made /\ draft[k].path \in Paths
       /\ call[k].at # "none" => draft[k].at \in {"open", "closing"}
       /\ call[k].at # "none" /\ call[k].status \in {2, 4} => draft[k].at = "closing"

\* A key is of one path, wherever it is.
OneHome ==
  /\ \A p, q \in Paths : key[p] = key[q] /\ key[p] # O!Unset => p = q
  /\ \A e, f \in Editors : editor[e].key = editor[f].key /\ editor[e].key # O!Unset => editor[e].path = editor[f].path
  /\ \A p \in Paths, e \in Editors : key[p] = editor[e].key /\ key[p] # O!Unset => editor[e].path = p
  /\ \A k \in O!DocKeys, p \in Paths : draft[k].at # "none" /\ key[p] = k => draft[k].path = p
  /\ \A k \in O!DocKeys, e \in Editors : draft[k].at # "none" /\ editor[e].key = k => draft[k].path = editor[e].path

\* Where nothing has set copies apart, the one copy has the key of the path, and so
\* have the tabs on their way to it.
OneCopy ==
  \A p \in Paths \ apart :
    /\ \A j, k \in O!DocKeys :
         draft[j].at \in {"open", "closing"} /\ draft[k].at \in {"open", "closing"}
           /\ draft[j].path = p /\ draft[k].path = p => j = k
    /\ \A k \in O!DocKeys : draft[k].at = "open" /\ draft[k].path = p => key[p] = k
    /\ \A e \in Editors : editor[e].key # O!Unset /\ editor[e].path = p =>
         key[p] = editor[e].key \/ draft[editor[e].key].at \in {"closing", "closed"}

\* What is saved is in the copy, and in what its callback is to save, which goes
\* to the path of the copy.
TextKept ==
  /\ \A k \in O!DocKeys :
       draft[k].at \in {"open", "closing"} /\ draft[k].path \notin apart =>
         /\ stored[draft[k].path] \subseteq draft[k].text
         /\ call[k].at # "none" => stored[draft[k].path] \subseteq call[k].text
  /\ \A k \in O!DocKeys : call[k].at # "none" => call[k].text \subseteq draft[k].text
  /\ \A k \in O!DocKeys :
       call[k].at = "write" => \/ call[k].to = draft[k].path
                               \/ draft[k].path \in apart /\ call[k].to \in apart \cup {O!Unset}
  /\ O!NothingLost

OfficeInv == OfficeType /\ Holds /\ OneHome /\ OneCopy /\ TextKept

LEMMA OfficeAgrees == ASSUME OfficeInv PROVE O!EditorsAgree
<1>1. O!OfficeTyped
  <2>1. \A p \in Paths : doc[p] = O!Absent \/ doc[p] \subseteq (Letters \cup Editors)
    BY DEF OfficeInv, OfficeType, Texts
  <2>2. \A p \in Paths : key[p] \in 0..made BY DEF OfficeInv, OfficeType
  <2>3. \A e \in Editors : editor[e].at = "open" => /\ draft[editor[e].key].at = "open"
                                                    /\ draft[editor[e].key].path = editor[e].path
    <3>1. ASSUME NEW e \in Editors, editor[e].at = "open"
          PROVE  editor[e].key \in O!DocKeys /\ draft[editor[e].key].at = "open"
      BY <3>1 DEF OfficeInv, OfficeType, Holds, O!DocKeys
    <3> QED BY <3>1 DEF OfficeInv, OneHome
  <2>4. \A k \in O!DocKeys : call[k].at # "none" => O!Alive(k) BY DEF OfficeInv, Holds, O!Alive
  <2> QED BY <2>1, <2>2, <2>3, <2>4 DEF O!OfficeTyped
<1>2. O!Together
  <2>1. ASSUME NEW j \in O!DocKeys, draft[j].at = "open" PROVE draft[j].path \in Paths
    BY <2>1 DEF OfficeInv, Holds
  <2> QED BY <2>1 DEF OfficeInv, OneCopy, O!Together
<1>3. O!NothingLost BY DEF OfficeInv, TextKept
<1> QED BY <1>1, <1>2, <1>3 DEF O!EditorsAgree

LEMMA OfficeInit == ASSUME O!OfficeAssumption, O!Init PROVE OfficeInv
<1> USE DEF O!Init, O!Unset, O!Out, O!Nobody, O!Quiet
<1>1. OfficeType
  <2>1. doc \in [Paths -> Texts \cup {O!Absent}]
    <3>1. PICK p \in Paths, l \in Letters : doc = [q \in Paths |-> IF q = p THEN {l} ELSE O!Absent] OBVIOUS
    <3>2. {l} \in Texts BY DEF Texts
    <3> QED BY <3>1, <3>2
  <2>2. {} \in Texts BY DEF Texts
  <2>3. editor \in [Editors -> TabRecs] BY DEF TabRecs, Somewhere
  <2>4. draft \in [O!DocKeys -> CopyRecs] BY <2>2 DEF CopyRecs, Somewhere
  <2>5. call \in [O!DocKeys -> CallRecs] BY <2>2 DEF CallRecs, Somewhere
  <2> QED BY <2>1, <2>2, <2>3, <2>4, <2>5 DEF OfficeType, O!OfficeAssumption
<1>2. Holds BY DEF Holds
<1>3. OneHome BY DEF OneHome, O!DocKeys
<1>4. OneCopy BY DEF OneCopy, O!DocKeys
<1>5. TextKept BY DEF TextKept, O!NothingLost
<1> QED BY <1>1, <1>2, <1>3, <1>4, <1>5 DEF OfficeInv

-------------------------------------------------------------------------------
(* One tab, and one key                                                          *)

LEMMA OfficeRecs ==
  ASSUME OfficeInv
  PROVE  /\ \A e \in Editors : editor[e] \in TabRecs
         /\ \A k \in O!DocKeys : draft[k] \in CopyRecs /\ call[k] \in CallRecs
         /\ \A p \in Paths : doc[p] \in Texts \cup {O!Absent} /\ key[p] \in 0..made /\ stored[p] \in Texts
         /\ O!DocKeys = 1..MaxKeys /\ MaxKeys \in Nat /\ made \in Nat /\ made <= MaxKeys /\ O!Unset = 0
BY DEF OfficeInv, OfficeType, O!DocKeys, O!Unset

\* A tab that holds no key before and after changes nothing that matters.
LEMMA TabMoves ==
  ASSUME OfficeInv, NEW e \in Editors, NEW tab \in TabRecs, editor' = [editor EXCEPT ![e] = tab],
         UNCHANGED <<doc, key, made, draft, call, stored, apart>>,
         tab.key # O!Unset => tab.key \in 1..made /\ key[tab.path] = tab.key /\ tab.at = "config",
         tab.key = O!Unset => tab.at \notin {"config", "open"},
         tab.at \in {"miss", "known", "config"} => tab.path \in Paths
  PROVE  OfficeInv'
<1>1. editor'[e] = tab /\ \A f \in Editors \ {e} : editor'[f] = editor[f] BY DEF OfficeInv, OfficeType
<1>2. OfficeType' BY DEF OfficeInv, OfficeType
<1>3. Holds'
  <2>1. ASSUME NEW f \in Editors
        PROVE  /\ editor'[f].at \in {"miss", "known", "config", "open"} => editor'[f].path \in Paths
               /\ editor'[f].at \in {"config", "open"} => editor'[f].key \in 1..made
               /\ editor'[f].at \notin {"config", "open"} => editor'[f].key = O!Unset
               /\ editor'[f].at = "open" => draft[editor'[f].key].at = "open"
    <3>1. CASE f = e BY <1>1, <3>1
    <3>2. CASE f # e BY <1>1, <3>2 DEF OfficeInv, Holds
    <3> QED BY <3>1, <3>2
  <2> QED BY <2>1 DEF OfficeInv, Holds
<1>4. OneHome'
  <2>1. tab.key # O!Unset => tab.path \in Paths BY DEF OfficeInv, OfficeType
  <2>2. ASSUME NEW f \in Editors, NEW g \in Editors, editor'[f].key = editor'[g].key, editor'[f].key # O!Unset
        PROVE  editor'[f].path = editor'[g].path
    <3>1. CASE f # e /\ g # e BY <1>1, <2>2, <3>1 DEF OfficeInv, OneHome
    <3>2. CASE f = e /\ g # e BY <1>1, <2>1, <2>2, <3>2 DEF OfficeInv, OneHome
    <3>3. CASE f # e /\ g = e BY <1>1, <2>1, <2>2, <3>3 DEF OfficeInv, OneHome
    <3> QED BY <1>1, <3>1, <3>2, <3>3
  <2>3. ASSUME NEW p \in Paths, NEW f \in Editors, key[p] = editor'[f].key, key[p] # O!Unset
        PROVE  editor'[f].path = p
    <3>1. CASE f = e BY <1>1, <2>1, <2>3, <3>1 DEF OfficeInv, OneHome
    <3>2. CASE f # e BY <1>1, <2>3, <3>2 DEF OfficeInv, OneHome
    <3> QED BY <3>1, <3>2
  <2>4. ASSUME NEW k \in O!DocKeys, NEW f \in Editors, draft[k].at # "none", editor'[f].key = k
        PROVE  draft[k].path = editor'[f].path
    <3>1. CASE f = e
      <4>1. k # O!Unset BY OfficeRecs
      <4> QED BY <1>1, <2>1, <2>4, <3>1, <4>1 DEF OfficeInv, OneHome
    <3>2. CASE f # e BY <1>1, <2>4, <3>2 DEF OfficeInv, OneHome
    <3> QED BY <3>1, <3>2
  <2>5. \A p, q \in Paths : key[p] = key[q] /\ key[p] # O!Unset => p = q BY DEF OfficeInv, OneHome
  <2>6. \A k \in O!DocKeys, p \in Paths : draft[k].at # "none" /\ key[p] = k => draft[k].path = p
    BY DEF OfficeInv, OneHome
  <2> QED BY <2>2, <2>3, <2>4, <2>5, <2>6 DEF OneHome
<1>5. OneCopy' BY <1>1 DEF OfficeInv, OneCopy
<1>6. TextKept' BY DEF OfficeInv, TextKept, O!NothingLost
<1> QED BY <1>2, <1>3, <1>4, <1>5, <1>6 DEF OfficeInv

LEMMA AskStep ==
  ASSUME O!OfficeAssumption, OfficeInv, NEW e \in Editors, NEW p \in Paths, O!Ask(e, p)
  PROVE  OfficeInv'
<1>1. PICK tab : tab = [at |-> IF key[p] = O!Unset THEN "miss" ELSE "known", path |-> p, key |-> O!Unset] OBVIOUS
<1>2. tab \in TabRecs /\ tab.key = O!Unset /\ tab.path = p /\ tab.at \in {"miss", "known"}
  BY <1>1 DEF TabRecs, Somewhere, O!Unset
<1>3. editor' = [editor EXCEPT ![e] = tab] /\ UNCHANGED <<doc, key, made, draft, call, stored, apart>>
  BY <1>1 DEF O!Ask
<1> QED BY <1>2, <1>3, TabMoves

LEMMA OutIs == O!Out \in TabRecs /\ O!Out.key = O!Unset /\ O!Out.at = "out"
BY DEF O!Out, TabRecs, Somewhere, O!Unset

LEMMA ConfigureOfficeStep ==
  ASSUME O!OfficeAssumption, OfficeInv, NEW e \in Editors, O!Configure(e)
  PROVE  OfficeInv'
<1>1. PICK p \in Paths : p = editor[e].path BY DEF OfficeInv, Holds, O!Configure
<1>2. /\ editor[e].at = "known" /\ UNCHANGED <<doc, key, made, draft, call, stored, apart>>
      /\ editor' = [editor EXCEPT ![e] = IF key[p] = O!Unset THEN O!Out
                                         ELSE [editor[e] EXCEPT !.at = "config", !.key = key[p]]]
  BY <1>1, OfficeRecs DEF O!Configure, OfficeInv, OfficeType
<1>3. CASE key[p] = O!Unset BY <1>2, <1>3, OutIs, TabMoves
<1>4. CASE key[p] # O!Unset
  <2>1. PICK tab : tab = [editor[e] EXCEPT !.at = "config", !.key = key[p]] OBVIOUS
  <2>2. key[p] \in 1..made /\ key[p] \in Nat BY <1>4, OfficeRecs
  <2>3. tab \in TabRecs /\ tab.at = "config" /\ tab.key = key[p] /\ tab.path = p
    BY <1>1, <2>1, <2>2, OfficeRecs DEF TabRecs
  <2>4. editor' = [editor EXCEPT ![e] = tab] BY <1>2, <1>4, <2>1
  <2> QED BY <1>2, <1>4, <2>2, <2>3, <2>4, TabMoves
<1> QED BY <1>3, <1>4

LEMMA LeaveStep ==
  ASSUME O!OfficeAssumption, OfficeInv, NEW e \in Editors, O!Leave(e)
  PROVE  OfficeInv'
<1>1. PICK tab : tab = [O!Out EXCEPT !.at = "gone"] OBVIOUS
<1>2. tab \in TabRecs /\ tab.key = O!Unset /\ tab.at = "gone" BY <1>1 DEF O!Out, TabRecs, Somewhere, O!Unset
<1>3. editor' = [editor EXCEPT ![e] = tab] /\ UNCHANGED <<doc, key, made, draft, call, stored, apart>>
  BY <1>1 DEF O!Leave
<1> QED BY <1>2, <1>3, TabMoves

\* A new key is nowhere yet.
LEMMA NewKeyIs ==
  ASSUME OfficeInv, NEW p \in Paths, O!NewKey(p), UNCHANGED draft,
         \A e \in Editors : editor'[e].key = editor[e].key /\ editor'[e].path = editor[e].path,
         apart' = IF key[p] # O!Unset THEN apart \cup {p} ELSE apart
  PROVE  /\ OneHome' /\ OneCopy'
         /\ made' \in Nat /\ made' <= MaxKeys /\ made' > made /\ key' \in [Paths -> 0..made']
         /\ apart \subseteq apart' /\ apart' \subseteq Paths
<1>1. made' = made + 1 /\ made < MaxKeys /\ key' = [key EXCEPT ![p] = made + 1] BY DEF O!NewKey
<1>2. key'[p] = made + 1 /\ \A q \in Paths \ {p} : key'[q] = key[q] BY <1>1 DEF OfficeInv, OfficeType
<1>3. \A q \in Paths : key[q] \in Nat /\ key[q] <= made BY OfficeRecs
<1>4. \A k \in O!DocKeys : draft[k].at # "none" => k \in Nat /\ k <= made BY OfficeRecs DEF OfficeInv, Holds
<1>5. \A e \in Editors : editor[e].key \in Nat /\ editor[e].key <= made
  BY OfficeRecs DEF OfficeInv, Holds
<1>6. made' \in Nat /\ made' <= MaxKeys /\ made' > made BY <1>1, OfficeRecs
<1>7. key' \in [Paths -> 0..made']
  <2>1. \A q \in Paths : key'[q] \in 0..made' BY <1>1, <1>2, <1>3, OfficeRecs
  <2> QED BY <1>1, <2>1 DEF OfficeInv, OfficeType
<1>8. apart \subseteq apart' /\ apart' \subseteq Paths BY DEF OfficeInv, OfficeType
<1>9. OneHome'
  <2>1. \A q, r \in Paths : key'[q] = key'[r] /\ key'[q] # O!Unset => q = r
    BY <1>2, <1>3, OfficeRecs DEF OfficeInv, OneHome
  <2>2. \A e, f \in Editors : editor'[e].key = editor'[f].key /\ editor'[e].key # O!Unset => editor'[e].path = editor'[f].path
    BY DEF OfficeInv, OneHome
  <2>3. \A q \in Paths, e \in Editors : key'[q] = editor'[e].key /\ key'[q] # O!Unset => editor'[e].path = q
    BY <1>2, <1>5, OfficeRecs DEF OfficeInv, OneHome
  <2>4. \A k \in O!DocKeys, q \in Paths : draft'[k].at # "none" /\ key'[q] = k => draft'[k].path = q
    BY <1>2, <1>4, OfficeRecs DEF OfficeInv, OneHome
  <2>5. \A k \in O!DocKeys, e \in Editors : draft'[k].at # "none" /\ editor'[e].key = k => draft'[k].path = editor'[e].path
    BY DEF OfficeInv, OneHome
  <2> QED BY <2>1, <2>2, <2>3, <2>4, <2>5 DEF OneHome
<1>10. OneCopy'
  <2>1. ASSUME NEW q \in Paths \ apart'
        PROVE  /\ \A j, k \in O!DocKeys :
                    draft[j].at \in {"open", "closing"} /\ draft[k].at \in {"open", "closing"}
                      /\ draft[j].path = q /\ draft[k].path = q => j = k
               /\ \A k \in O!DocKeys : draft[k].at = "open" /\ draft[k].path = q => key'[q] = k
               /\ \A e \in Editors : editor[e].key # O!Unset /\ editor[e].path = q =>
                    key'[q] = editor[e].key \/ draft[editor[e].key].at \in {"closing", "closed"}
    <3>1. q \in Paths \ apart BY <1>8, <2>1
    <3>2. CASE q # p BY <1>2, <3>1, <3>2 DEF OfficeInv, OneCopy
    <3>3. CASE q = p
      <4>1. key[p] = O!Unset BY <2>1, <3>3
      <4>2. \A k \in O!DocKeys : k # O!Unset BY OfficeRecs
      <4> QED BY <3>1, <3>3, <4>1, <4>2 DEF OfficeInv, OneCopy
    <3> QED BY <3>2, <3>3
  <2> QED BY <2>1 DEF OneCopy
<1> QED BY <1>6, <1>7, <1>8, <1>9, <1>10

\* More excuses leave what is saved as it is.
LEMMA SavedStays ==
  ASSUME OfficeInv, apart \subseteq apart', apart' \subseteq Paths, UNCHANGED <<doc, stored>>,
         \A k \in O!DocKeys :
           /\ draft'[k].path = draft[k].path /\ draft'[k].text = draft[k].text
           /\ draft'[k].at \in {"open", "closing"} => draft[k].at \in {"open", "closing"}
           /\ call'[k].at # "none" => call[k].at # "none" /\ call'[k].text = call[k].text
           /\ call'[k].at = "write" => call[k].at = "write" /\ call'[k].to = call[k].to
  PROVE  TextKept'
BY DEF OfficeInv, TextKept, O!NothingLost

LEMMA GenerateStep ==
  ASSUME O!OfficeAssumption, OfficeInv, NEW e \in Editors, O!Generate(e)
  PROVE  OfficeInv'
<1>1. PICK p \in Paths : p = editor[e].path BY DEF OfficeInv, Holds, O!Generate
<1>2. PICK tab : tab = [editor[e] EXCEPT !.at = "known"] OBVIOUS
<1>3. tab \in TabRecs /\ tab.at = "known" /\ tab.key = editor[e].key /\ tab.path = p
  BY <1>1, <1>2, OfficeRecs DEF TabRecs
<1>4. /\ editor[e].at = "miss" /\ O!NewKey(p) /\ UNCHANGED <<doc, draft, call, stored>>
      /\ apart' = IF key[p] # O!Unset THEN apart \cup {p} ELSE apart
      /\ editor' = [editor EXCEPT ![e] = tab]
  BY <1>1, <1>2, OfficeRecs DEF O!Generate, OfficeInv, OfficeType
<1>5. editor'[e] = tab /\ \A f \in Editors \ {e} : editor'[f] = editor[f] BY <1>4 DEF OfficeInv, OfficeType
<1>6. \A f \in Editors : editor'[f].key = editor[f].key /\ editor'[f].path = editor[f].path BY <1>1, <1>3, <1>5
<1>7. /\ OneHome' /\ OneCopy'
      /\ made' \in Nat /\ made' <= MaxKeys /\ made' > made /\ key' \in [Paths -> 0..made']
      /\ apart \subseteq apart' /\ apart' \subseteq Paths
  BY <1>4, <1>6, NewKeyIs
<1>8. OfficeType' BY <1>3, <1>4, <1>7 DEF OfficeInv, OfficeType
<1>9. Holds'
  <2>1. ASSUME NEW f \in Editors
        PROVE  /\ editor'[f].at \in {"miss", "known", "config", "open"} => editor'[f].path \in Paths
               /\ editor'[f].at \in {"config", "open"} => editor'[f].key \in 1..made'
               /\ editor'[f].at \notin {"config", "open"} => editor'[f].key = O!Unset
               /\ editor'[f].at = "open" => draft[editor'[f].key].at = "open"
    <3>1. CASE f = e BY <1>3, <1>4, <1>5, <3>1 DEF OfficeInv, Holds
    <3>2. CASE f # e BY <1>5, <1>7, <3>2, OfficeRecs DEF OfficeInv, Holds
    <3> QED BY <3>1, <3>2
  <2>2. ASSUME NEW k \in O!DocKeys
        PROVE  /\ draft[k].at # "none" => k <= made' /\ draft[k].path \in Paths
               /\ call[k].at # "none" => draft[k].at \in {"open", "closing"}
               /\ call[k].at # "none" /\ call[k].status \in {2, 4} => draft[k].at = "closing"
    BY <1>7, OfficeRecs DEF OfficeInv, Holds
  <2> QED BY <1>4, <2>1, <2>2 DEF Holds
<1>10. TextKept' BY <1>4, <1>7, SavedStays
<1> QED BY <1>7, <1>8, <1>9, <1>10 DEF OfficeInv

\* Copies only go on: none comes, none is opened again, and keys are forgotten only
\* where nobody is on his way to an open copy.
LEMMA CopiesGoOn ==
  ASSUME OfficeInv, made' = made, apart \subseteq apart', apart' \subseteq Paths,
         \A e \in Editors : editor'[e] \in {editor[e], O!Out},
         \A k \in O!DocKeys :
           /\ draft'[k].path = draft[k].path
           /\ draft'[k].at # "none" => draft[k].at # "none"
           /\ draft'[k].at \in {"open", "closing"} => draft[k].at \in {"open", "closing"}
           /\ draft'[k].at = "open" => draft[k].at = "open"
           /\ draft[k].at \in {"closing", "closed"} => draft'[k].at \in {"closing", "closed"}
           /\ \A e \in Editors : editor'[e].at = "open" /\ editor[e].key = k => draft'[k].at = draft[k].at
           /\ call'[k].at # "none" => draft'[k].at \in {"open", "closing"}
           /\ call'[k].at # "none" /\ call'[k].status \in {2, 4} => draft'[k].at = "closing",
         \A p \in Paths : key'[p] \in {key[p], O!Unset},
         \A p \in Paths \ apart' :
           \/ key'[p] = key[p]
           \/ /\ \A k \in O!DocKeys : draft'[k].at = "open" => draft[k].path # p
              /\ \A e \in Editors : editor'[e].key # O!Unset /\ editor'[e].path = p =>
                   draft'[editor'[e].key].at \in {"closing", "closed"}
  PROVE  Holds' /\ OneHome' /\ OneCopy'
<1>1. Holds'
  <2>1. ASSUME NEW e \in Editors
        PROVE  /\ editor'[e].at \in {"miss", "known", "config", "open"} => editor'[e].path \in Paths
               /\ editor'[e].at \in {"config", "open"} => editor'[e].key \in 1..made
               /\ editor'[e].at \notin {"config", "open"} => editor'[e].key = O!Unset
               /\ editor'[e].at = "open" => draft'[editor'[e].key].at = "open"
    <3>1. CASE editor'[e] = O!Out BY <3>1, OutIs
    <3>2. CASE editor'[e] = editor[e]
      <4>1. editor[e].at = "open" => editor[e].key \in O!DocKeys BY OfficeRecs DEF OfficeInv, Holds
      <4> QED BY <3>2, <4>1 DEF OfficeInv, Holds
    <3> QED BY <3>1, <3>2
  <2>2. ASSUME NEW k \in O!DocKeys
        PROVE  draft'[k].at # "none" => k <= made /\ draft'[k].path \in Paths
    BY DEF OfficeInv, Holds
  <2> QED BY <2>1, <2>2 DEF Holds
<1>2. \A e \in Editors : editor'[e].key # O!Unset => editor'[e] = editor[e] BY OutIs
<1>3. OneHome'
  <2>1. \A p, q \in Paths : key'[p] = key'[q] /\ key'[p] # O!Unset => p = q BY DEF OfficeInv, OneHome
  <2>2. \A e, f \in Editors : editor'[e].key = editor'[f].key /\ editor'[e].key # O!Unset => editor'[e].path = editor'[f].path
    BY <1>2 DEF OfficeInv, OneHome
  <2>3. \A p \in Paths, e \in Editors : key'[p] = editor'[e].key /\ key'[p] # O!Unset => editor'[e].path = p
    BY <1>2 DEF OfficeInv, OneHome
  <2>4. ASSUME NEW k \in O!DocKeys PROVE k # O!Unset BY OfficeRecs
  <2>5. \A k \in O!DocKeys, p \in Paths : draft'[k].at # "none" /\ key'[p] = k => draft'[k].path = p
    BY <2>4 DEF OfficeInv, OneHome
  <2>6. \A k \in O!DocKeys, e \in Editors : draft'[k].at # "none" /\ editor'[e].key = k => draft'[k].path = editor'[e].path
    BY <1>2, <2>4 DEF OfficeInv, OneHome
  <2> QED BY <2>1, <2>2, <2>3, <2>5, <2>6 DEF OneHome
<1>4. OneCopy'
  <2>1. ASSUME NEW p \in Paths \ apart'
        PROVE  /\ \A j, k \in O!DocKeys :
                    draft'[j].at \in {"open", "closing"} /\ draft'[k].at \in {"open", "closing"}
                      /\ draft'[j].path = p /\ draft'[k].path = p => j = k
               /\ \A k \in O!DocKeys : draft'[k].at = "open" /\ draft'[k].path = p => key'[p] = k
               /\ \A e \in Editors : editor'[e].key # O!Unset /\ editor'[e].path = p =>
                    key'[p] = editor'[e].key \/ draft'[editor'[e].key].at \in {"closing", "closed"}
    <3>1. p \in Paths \ apart BY <2>1
    <3>2. \A j, k \in O!DocKeys :
            draft'[j].at \in {"open", "closing"} /\ draft'[k].at \in {"open", "closing"}
              /\ draft'[j].path = p /\ draft'[k].path = p => j = k
      BY <3>1 DEF OfficeInv, OneCopy
    <3>3. \A k \in O!DocKeys : draft'[k].at = "open" /\ draft'[k].path = p => key'[p] = k
      BY <2>1, <3>1 DEF OfficeInv, OneCopy
    <3>4. ASSUME NEW e \in Editors, editor'[e].key # O!Unset, editor'[e].path = p
          PROVE  key'[p] = editor'[e].key \/ draft'[editor'[e].key].at \in {"closing", "closed"}
      <4>1. editor'[e] = editor[e] BY <1>2, <3>4
      <4>2. editor[e].key \in O!DocKeys
        BY <3>4, <4>1, OfficeRecs DEF OfficeInv, Holds
      <4> QED BY <2>1, <3>1, <3>4, <4>1, <4>2 DEF OfficeInv, OneCopy
    <3> QED BY <3>2, <3>3, <3>4
  <2> QED BY <2>1 DEF OneCopy
<1> QED BY <1>1, <1>3, <1>4

\* When copies and callbacks stay, too.
LEMMA CopiesStay ==
  ASSUME OfficeInv, UNCHANGED <<made, draft>>, apart \subseteq apart', apart' \subseteq Paths,
         \A e \in Editors : editor'[e] \in {editor[e], O!Out},
         \A k \in O!DocKeys : call'[k].at # "none" => call[k].at # "none" /\ call'[k].status = call[k].status,
         \A p \in Paths : key'[p] \in {key[p], O!Unset} /\ (p \notin apart' => key'[p] = key[p] \/ ~O!InUse(p))
  PROVE  Holds' /\ OneHome' /\ OneCopy'
<1>1. ASSUME NEW k \in O!DocKeys, call'[k].at # "none"
      PROVE  draft[k].at \in {"open", "closing"} /\ (call'[k].status \in {2, 4} => draft[k].at = "closing")
  BY <1>1 DEF OfficeInv, Holds
<1>2. ASSUME NEW p \in Paths \ apart', key'[p] # key[p]
      PROVE  /\ \A k \in O!DocKeys : draft[k].at = "open" => draft[k].path # p
             /\ \A e \in Editors : editor'[e].key # O!Unset /\ editor'[e].path = p =>
                  draft[editor'[e].key].at \in {"closing", "closed"}
  <2>1. ~O!InUse(p) BY <1>2
  <2>2. \A k \in O!DocKeys : draft[k].at = "open" => draft[k].path # p BY <2>1 DEF O!InUse, O!Alive
  <2>3. ASSUME NEW e \in Editors, editor'[e].key # O!Unset, editor'[e].path = p PROVE FALSE
    <3>1. editor'[e] = editor[e] BY <2>3, OutIs
    <3>2. editor[e].at \in {"config", "open"} BY <2>3, <3>1 DEF OfficeInv, Holds
    <3>3. editor[e].at = "open" BY <2>1, <2>3, <3>1, <3>2 DEF O!InUse
    <3>4. /\ editor[e].key \in O!DocKeys /\ draft[editor[e].key].at = "open"
          /\ draft[editor[e].key].path = p
      BY <2>3, <3>1, <3>3, OfficeRecs DEF OfficeInv, Holds, OneHome
    <3> QED BY <2>2, <3>4
  <2> QED BY <2>2, <2>3
<1> QED BY <1>1, <1>2, CopiesGoOn

LEMMA ExpireKeyStep ==
  ASSUME O!OfficeAssumption, OfficeInv, NEW p \in Paths, O!Expire(p)
  PROVE  OfficeInv'
<1>1. /\ key' = [key EXCEPT ![p] = O!Unset] /\ apart' = (IF O!InUse(p) THEN apart \cup {p} ELSE apart)
      /\ UNCHANGED <<doc, made, editor, draft, call, stored>>
  BY DEF O!Expire
<1>2. key'[p] = O!Unset /\ \A q \in Paths \ {p} : key'[q] = key[q] BY <1>1 DEF OfficeInv, OfficeType
<1>3. apart \subseteq apart' /\ apart' \subseteq Paths BY <1>1 DEF OfficeInv, OfficeType
<1>4. OfficeType'
  <2>1. key' \in [Paths -> 0..made] BY <1>1, OfficeRecs DEF OfficeInv, OfficeType
  <2> QED BY <1>1, <1>3, <2>1 DEF OfficeInv, OfficeType
<1>5. \A q \in Paths : key'[q] \in {key[q], O!Unset} /\ (q \notin apart' => key'[q] = key[q] \/ ~O!InUse(q))
  BY <1>1, <1>2
<1>6. Holds' /\ OneHome' /\ OneCopy' BY <1>1, <1>3, <1>5, CopiesStay
<1>7. TextKept' BY <1>1, <1>3, SavedStays
<1> QED BY <1>4, <1>6, <1>7 DEF OfficeInv

LEMMA RestartOfficeStep ==
  ASSUME O!OfficeAssumption, OfficeInv, O!Restart
  PROVE  OfficeInv'
<1>1. /\ key' = [p \in Paths |-> O!Unset] /\ apart' = apart \cup {p \in Paths : O!InUse(p)}
      /\ editor' = [e \in Editors |-> IF editor[e].at \in {"miss", "known"} THEN O!Out ELSE editor[e]]
      /\ call' = [k \in O!DocKeys |-> IF call[k].at = "none" THEN O!Quiet ELSE [call[k] EXCEPT !.at = "arrived"]]
      /\ UNCHANGED <<doc, made, draft, stored>>
  BY DEF O!Restart
<1>2. apart \subseteq apart' /\ apart' \subseteq Paths BY <1>1 DEF OfficeInv, OfficeType
<1>3. \A e \in Editors : editor'[e] \in {editor[e], O!Out} BY <1>1
<1>4. \A p \in Paths : key'[p] \in {key[p], O!Unset} /\ (p \notin apart' => key'[p] = key[p] \/ ~O!InUse(p)) BY <1>1
<1>5. O!Quiet \in CallRecs /\ O!Quiet.at = "none" BY DEF O!Quiet, CallRecs, Somewhere, Texts, O!Unset
<1>6. ASSUME NEW k \in O!DocKeys
      PROVE  /\ call'[k] \in CallRecs
             /\ call'[k].at # "none" => /\ call[k].at # "none" /\ call'[k].status = call[k].status
                                        /\ call'[k].text = call[k].text
             /\ call'[k].at # "write"
  BY <1>1, <1>5, OfficeRecs DEF CallRecs
<1>7. OfficeType'
  <2>1. key' \in [Paths -> 0..made] BY <1>1, OfficeRecs DEF O!Unset
  <2>2. editor' \in [Editors -> TabRecs] BY <1>1, OutIs, OfficeRecs
  <2>3. call' \in [O!DocKeys -> CallRecs] BY <1>1, <1>6
  <2> QED BY <1>1, <1>2, <2>1, <2>2, <2>3 DEF OfficeInv, OfficeType
<1>8. Holds' /\ OneHome' /\ OneCopy' BY <1>1, <1>2, <1>3, <1>4, <1>6, CopiesStay
<1>9. TextKept' BY <1>1, <1>2, <1>6, SavedStays
<1> QED BY <1>7, <1>8, <1>9 DEF OfficeInv

-------------------------------------------------------------------------------
(* The document server                                                           *)

LEMMA OpenStep ==
  ASSUME O!OfficeAssumption, OfficeInv, NEW e \in Editors, O!Open(e)
  PROVE  OfficeInv'
<1>1. /\ editor[e].at = "config" /\ UNCHANGED <<doc, key, made, call, stored>> BY DEF O!Open
<1>2. PICK k \in O!DocKeys : k = editor[e].key /\ k # O!Unset /\ k <= made
  BY <1>1, OfficeRecs DEF OfficeInv, Holds
<1>3. PICK p \in Paths : p = editor[e].path BY <1>1 DEF OfficeInv, Holds
<1>4. PICK tab : tab = [editor[e] EXCEPT !.at = "open"] OBVIOUS
<1>5. tab \in TabRecs /\ tab.at = "open" /\ tab.key = k /\ tab.path = p BY <1>2, <1>3, <1>4, OfficeRecs DEF TabRecs
<1>6. CASE editor' = [editor EXCEPT ![e] = O!Out] /\ UNCHANGED <<draft, apart>>
  BY <1>1, <1>6, OutIs, TabMoves
<1>7. ASSUME editor' = [editor EXCEPT ![e] = tab]
      PROVE  /\ editor'[e] = tab /\ \A f \in Editors \ {e} : editor'[f] = editor[f]
             /\ \A f \in Editors : editor'[f].key = editor[f].key /\ editor'[f].path = editor[f].path
             /\ editor' \in [Editors -> TabRecs]
  <2>1. editor'[e] = tab /\ \A f \in Editors \ {e} : editor'[f] = editor[f]
    BY <1>7 DEF OfficeInv, OfficeType
  <2> QED BY <1>2, <1>3, <1>5, <1>7, <2>1 DEF OfficeInv, OfficeType
<1>8. CASE draft[k].at = "open" /\ editor' = [editor EXCEPT ![e] = tab] /\ UNCHANGED <<draft, apart>>
  <2>1. OfficeType' BY <1>1, <1>7, <1>8 DEF OfficeInv, OfficeType
  <2>2. Holds' BY <1>1, <1>2, <1>5, <1>7, <1>8, OfficeRecs DEF OfficeInv, Holds
  <2>3. OneHome' BY <1>1, <1>7, <1>8 DEF OfficeInv, OneHome
  <2>4. OneCopy' BY <1>1, <1>7, <1>8 DEF OfficeInv, OneCopy
  <2>5. TextKept' BY <1>1, <1>8 DEF OfficeInv, TextKept, O!NothingLost
  <2> QED BY <2>1, <2>2, <2>3, <2>4, <2>5 DEF OfficeInv
<1>9. CASE /\ draft[k].at = "none" /\ doc[p] \notin {O!Absent, O!None}
           /\ editor' = [editor EXCEPT ![e] = tab]
           /\ draft' = [draft EXCEPT ![k] = [at |-> "open", path |-> p, text |-> doc[p], dirty |-> FALSE]]
           /\ apart' = IF O!Closing(p) THEN apart \cup {p} ELSE apart
  <2>1. PICK c : c = [at |-> "open", path |-> p, text |-> doc[p], dirty |-> FALSE] OBVIOUS
  <2>2. doc[p] \in Texts BY <1>9, OfficeRecs
  <2>3. c \in CopyRecs /\ c.at = "open" /\ c.path = p /\ c.text = doc[p]
    BY <2>1, <2>2 DEF CopyRecs, Somewhere
  <2>4. draft'[k] = c /\ \A j \in O!DocKeys \ {k} : draft'[j] = draft[j] BY <1>9, <2>1 DEF OfficeInv, OfficeType
  <2>5. apart \subseteq apart' /\ apart' \subseteq Paths BY <1>9 DEF OfficeInv, OfficeType
  <2>6. call[k].at = "none" BY <1>9 DEF OfficeInv, Holds
  <2>7. OfficeType'
    <3>1. draft' \in [O!DocKeys -> CopyRecs] BY <1>9, <2>1, <2>3 DEF OfficeInv, OfficeType
    <3> QED BY <1>1, <1>7, <1>9, <2>5, <3>1 DEF OfficeInv, OfficeType
  <2>8. Holds'
    <3>1. ASSUME NEW f \in Editors
          PROVE  /\ editor'[f].at \in {"miss", "known", "config", "open"} => editor'[f].path \in Paths
                 /\ editor'[f].at \in {"config", "open"} => editor'[f].key \in 1..made
                 /\ editor'[f].at \notin {"config", "open"} => editor'[f].key = O!Unset
                 /\ editor'[f].at = "open" => draft'[editor'[f].key].at = "open"
      <4>1. CASE f = e BY <1>1, <1>2, <1>3, <1>5, <1>7, <1>9, <2>3, <2>4, <4>1 DEF OfficeInv, Holds
      <4>2. CASE f # e
        <5>1. editor'[f] = editor[f] BY <1>7, <1>9, <4>2
        <5>2. editor[f].at = "open" => editor[f].key \in O!DocKeys /\ draft'[editor[f].key].at = "open"
          BY <2>3, <2>4, OfficeRecs DEF OfficeInv, Holds
        <5> QED BY <5>1, <5>2 DEF OfficeInv, Holds
      <4> QED BY <4>1, <4>2
    <3>2. ASSUME NEW j \in O!DocKeys
          PROVE  /\ draft'[j].at # "none" => j <= made /\ draft'[j].path \in Paths
                 /\ call[j].at # "none" => draft'[j].at \in {"open", "closing"}
                 /\ call[j].at # "none" /\ call[j].status \in {2, 4} => draft'[j].at = "closing"
      BY <1>2, <2>3, <2>4, <2>6 DEF OfficeInv, Holds
    <3> QED BY <1>1, <3>1, <3>2 DEF Holds
  <2>9. OneHome'
    <3>1. \A q, r \in Paths : key[q] = key[r] /\ key[q] # O!Unset => q = r BY DEF OfficeInv, OneHome
    <3>2. \A f, g \in Editors : editor'[f].key = editor'[g].key /\ editor'[f].key # O!Unset => editor'[f].path = editor'[g].path
      BY <1>7, <1>9 DEF OfficeInv, OneHome
    <3>3. \A q \in Paths, f \in Editors : key[q] = editor'[f].key /\ key[q] # O!Unset => editor'[f].path = q
      BY <1>7, <1>9 DEF OfficeInv, OneHome
    <3>4. ASSUME NEW j \in O!DocKeys, NEW q \in Paths, draft'[j].at # "none", key[q] = j PROVE draft'[j].path = q
      BY <1>2, <1>3, <2>3, <2>4, <3>4 DEF OfficeInv, OneHome
    <3>5. ASSUME NEW j \in O!DocKeys, NEW f \in Editors, draft'[j].at # "none", editor'[f].key = j
          PROVE  draft'[j].path = editor'[f].path
      <4>1. editor[f].key = j /\ editor'[f].path = editor[f].path BY <1>7, <1>9, <3>5
      <4>2. CASE j = k
        <5>1. editor[f].path = editor[e].path BY <1>2, <4>1, <4>2 DEF OfficeInv, OneHome
        <5> QED BY <1>3, <2>3, <2>4, <4>1, <4>2, <5>1
      <4>3. CASE j # k BY <2>4, <3>5, <4>1, <4>3 DEF OfficeInv, OneHome
      <4> QED BY <4>2, <4>3
    <3> QED BY <1>1, <3>1, <3>2, <3>3, <3>4, <3>5 DEF OneHome
  <2>10. OneCopy'
    <3>1. ASSUME NEW q \in Paths \ apart'
          PROVE  /\ \A i, j \in O!DocKeys :
                      draft'[i].at \in {"open", "closing"} /\ draft'[j].at \in {"open", "closing"}
                        /\ draft'[i].path = q /\ draft'[j].path = q => i = j
                 /\ \A j \in O!DocKeys : draft'[j].at = "open" /\ draft'[j].path = q => key[q] = j
                 /\ \A f \in Editors : editor'[f].key # O!Unset /\ editor'[f].path = q =>
                      key[q] = editor'[f].key \/ draft'[editor'[f].key].at \in {"closing", "closed"}
      <4>1. q \in Paths \ apart BY <2>5, <3>1
      <4>2. q = p => key[p] = k /\ ~O!Closing(p)
        BY <1>2, <1>3, <1>9, <3>1, <4>1 DEF OfficeInv, OneCopy
      <4>3. \A j \in O!DocKeys \ {k} : q = p => ~(draft[j].at \in {"open", "closing"} /\ draft[j].path = q)
        BY <4>1, <4>2 DEF OfficeInv, OneCopy, O!Closing
      <4>4. \A i, j \in O!DocKeys :
                      draft'[i].at \in {"open", "closing"} /\ draft'[j].at \in {"open", "closing"}
                        /\ draft'[i].path = q /\ draft'[j].path = q => i = j
        BY <2>3, <2>4, <4>1, <4>3 DEF OfficeInv, OneCopy
      <4>5. \A j \in O!DocKeys : draft'[j].at = "open" /\ draft'[j].path = q => key[q] = j
        BY <2>3, <2>4, <4>1, <4>2 DEF OfficeInv, OneCopy
      <4>6. ASSUME NEW f \in Editors, editor'[f].key # O!Unset, editor'[f].path = q
            PROVE  key[q] = editor'[f].key \/ draft'[editor'[f].key].at \in {"closing", "closed"}
        <5>1. editor'[f].key = editor[f].key /\ editor[f].path = q BY <1>7, <1>9, <4>6
        <5>2. editor[f].key \in O!DocKeys BY <4>6, <5>1, OfficeRecs DEF OfficeInv, Holds
        <5>3. CASE editor[f].key = k
          <6>1. q = p BY <1>2, <1>3, <5>1, <5>3 DEF OfficeInv, OneHome
          <6> QED BY <4>2, <5>1, <5>3, <6>1
        <5>4. CASE editor[f].key # k BY <2>4, <4>1, <4>6, <5>1, <5>2, <5>4 DEF OfficeInv, OneCopy
        <5> QED BY <5>3, <5>4
      <4> QED BY <4>4, <4>5, <4>6
    <3> QED BY <1>1, <3>1 DEF OneCopy
  <2>11. TextKept'
    <3>1. ASSUME NEW j \in O!DocKeys, draft'[j].at \in {"open", "closing"}, draft'[j].path \notin apart'
          PROVE  /\ stored[draft'[j].path] \subseteq draft'[j].text
                 /\ call[j].at # "none" => stored[draft'[j].path] \subseteq call[j].text
      <4>1. CASE j = k
        <5>1. stored[p] \subseteq doc[p]
          BY <1>9, <2>3, <2>4, <2>5, <3>1, <4>1 DEF OfficeInv, TextKept, O!NothingLost
        <5> QED BY <2>3, <2>4, <2>6, <4>1, <5>1
      <4>2. CASE j # k BY <2>4, <2>5, <3>1, <4>2 DEF OfficeInv, TextKept
      <4> QED BY <4>1, <4>2
    <3>2. ASSUME NEW j \in O!DocKeys, call[j].at = "write"
          PROVE  \/ call[j].to = draft'[j].path
                 \/ draft'[j].path \in apart' /\ call[j].to \in apart' \cup {O!Unset}
      BY <2>4, <2>5, <2>6, <3>2 DEF OfficeInv, TextKept
    <3>3. O!NothingLost' BY <1>1, <2>5 DEF OfficeInv, TextKept, O!NothingLost
    <3>4. \A j \in O!DocKeys : call[j].at # "none" => call[j].text \subseteq draft'[j].text
      BY <2>4, <2>6 DEF OfficeInv, TextKept
    <3> QED BY <1>1, <3>1, <3>2, <3>3, <3>4 DEF TextKept
  <2> QED BY <2>7, <2>8, <2>9, <2>10, <2>11 DEF OfficeInv
<1>10. \/ draft[k].at = "open" /\ editor' = [editor EXCEPT ![e] = tab] /\ UNCHANGED <<draft, apart>>
       \/ /\ draft[k].at = "none" /\ doc[p] \notin {O!Absent, O!None}
          /\ editor' = [editor EXCEPT ![e] = tab]
          /\ draft' = [draft EXCEPT ![k] = [at |-> "open", path |-> p, text |-> doc[p], dirty |-> FALSE]]
          /\ apart' = IF O!Closing(p) THEN apart \cup {p} ELSE apart
       \/ editor' = [editor EXCEPT ![e] = O!Out] /\ UNCHANGED <<draft, apart>>
  <2>1. editor' = [editor EXCEPT ![e].at = "open"] => editor' = [editor EXCEPT ![e] = tab]
    BY <1>4 DEF OfficeInv, OfficeType
  <2> QED BY <1>2, <1>3, <2>1 DEF O!Open
<1> QED BY <1>6, <1>8, <1>9, <1>10

\* One copy and its callback go on.
LEMMA OneGoesOn ==
  ASSUME OfficeInv, NEW k \in O!DocKeys, NEW c \in CopyRecs, NEW d \in CallRecs,
         UNCHANGED <<made, editor>>, apart \subseteq apart', apart' \subseteq Paths,
         draft' = [draft EXCEPT ![k] = c], call' = [call EXCEPT ![k] = d],
         c.path = draft[k].path,
         \/ c.at = draft[k].at
         \/ draft[k].at = "closing" /\ c.at = "closed"
         \/ /\ draft[k].at = "open" /\ c.at = "closing"
            /\ \A e \in Editors : editor[e].at = "open" => editor[e].key # k,
         d.at # "none" => c.at \in {"open", "closing"} /\ (d.status \in {2, 4} => c.at = "closing"),
         \A p \in Paths : key'[p] \in {key[p], O!Unset},
         \A p \in Paths \ apart' :
           \/ key'[p] = key[p]
           \/ p = draft[k].path /\ draft[k].at = "closing" /\ (key[p] = k \/ \A e \in Editors : editor[e].key # key[p])
  PROVE  /\ draft' \in [O!DocKeys -> CopyRecs] /\ call' \in [O!DocKeys -> CallRecs]
         /\ draft'[k] = c /\ call'[k] = d /\ \A j \in O!DocKeys \ {k} : draft'[j] = draft[j] /\ call'[j] = call[j]
         /\ Holds' /\ OneHome' /\ OneCopy'
<1>1. /\ draft' \in [O!DocKeys -> CopyRecs] /\ call' \in [O!DocKeys -> CallRecs]
      /\ draft'[k] = c /\ call'[k] = d /\ \A j \in O!DocKeys \ {k} : draft'[j] = draft[j] /\ call'[j] = call[j]
  BY DEF OfficeInv, OfficeType
<1>2. ASSUME NEW j \in O!DocKeys
      PROVE  /\ draft'[j].path = draft[j].path
             /\ draft'[j].at # "none" => draft[j].at # "none"
             /\ draft'[j].at \in {"open", "closing"} => draft[j].at \in {"open", "closing"}
             /\ draft'[j].at = "open" => draft[j].at = "open"
             /\ draft[j].at \in {"closing", "closed"} => draft'[j].at \in {"closing", "closed"}
             /\ \A e \in Editors : editor'[e].at = "open" /\ editor[e].key = j => draft'[j].at = draft[j].at
             /\ call'[j].at # "none" => draft'[j].at \in {"open", "closing"}
             /\ call'[j].at # "none" /\ call'[j].status \in {2, 4} => draft'[j].at = "closing"
  <2>1. CASE j = k
    <3>1. ASSUME NEW e \in Editors, editor'[e].at = "open", editor[e].key = k PROVE draft[k].at = "open"
      BY <3>1 DEF OfficeInv, Holds
    <3> QED BY <1>1, <2>1, <3>1
  <2>2. CASE j # k BY <1>1, <2>2 DEF OfficeInv, Holds
  <2> QED BY <2>1, <2>2
<1>3. ASSUME NEW p \in Paths \ apart', key'[p] # key[p]
      PROVE  /\ \A j \in O!DocKeys : draft'[j].at = "open" => draft[j].path # p
             /\ \A e \in Editors : editor'[e].key # O!Unset /\ editor'[e].path = p =>
                  draft'[editor'[e].key].at \in {"closing", "closed"}
  <2>1. /\ p = draft[k].path /\ draft[k].at = "closing" /\ p \in Paths \ apart
        /\ key[p] = k \/ \A e \in Editors : editor[e].key # key[p]
    BY <1>3
  <2>2. \A j \in O!DocKeys : draft[j].at = "open" => draft[j].path # p BY <2>1 DEF OfficeInv, OneCopy
  <2>3. \A j \in O!DocKeys : draft'[j].at = "open" => draft[j].path # p BY <1>2, <2>2
  <2>4. ASSUME NEW e \in Editors, editor[e].key # O!Unset, editor[e].path = p
        PROVE  draft'[editor[e].key].at \in {"closing", "closed"}
    <3>1. editor[e].key \in O!DocKeys BY <2>4, OfficeRecs DEF OfficeInv, Holds
    <3>2. draft[editor[e].key].at \in {"closing", "closed"} BY <2>1, <2>4 DEF OfficeInv, OneCopy
    <3> QED BY <1>2, <3>1, <3>2
  <2> QED BY <2>3, <2>4
<1>4. \A e \in Editors : editor'[e] \in {editor[e], O!Out} OBVIOUS
<1>5. Holds' /\ OneHome' /\ OneCopy' BY <1>2, <1>3, <1>4, CopiesGoOn
<1> QED BY <1>1, <1>5

LEMMA ChangeOfficeStep ==
  ASSUME O!OfficeAssumption, OfficeInv, NEW e \in Editors, O!Change(e)
  PROVE  OfficeInv'
<1>1. PICK k \in O!DocKeys : k = editor[e].key BY OfficeRecs DEF OfficeInv, Holds, O!Change
<1>2. PICK c : c = [draft[k] EXCEPT !.text = draft[k].text \cup {e}, !.dirty = TRUE] OBVIOUS
<1>3. c \in CopyRecs /\ c.at = draft[k].at /\ c.path = draft[k].path /\ draft[k].text \subseteq c.text
  <2>1. draft[k].text \cup {e} \in Texts BY OfficeRecs DEF CopyRecs, Texts
  <2> QED BY <1>2, <2>1, OfficeRecs DEF CopyRecs
<1>4. UNCHANGED <<doc, key, made, editor, call, stored, apart>> /\ draft' = [draft EXCEPT ![k] = c]
  BY <1>1, <1>2 DEF O!Change, OfficeInv, OfficeType
<1>5. call' = [call EXCEPT ![k] = call[k]] /\ call[k] \in CallRecs BY <1>4 DEF OfficeInv, OfficeType
<1>6. call[k].at # "none" => c.at \in {"open", "closing"} /\ (call[k].status \in {2, 4} => c.at = "closing")
  BY <1>3 DEF OfficeInv, Holds
<1>7. apart \subseteq apart' /\ apart' \subseteq Paths BY <1>4 DEF OfficeInv, OfficeType
<1>8. /\ draft' \in [O!DocKeys -> CopyRecs]
      /\ draft'[k] = c /\ \A j \in O!DocKeys \ {k} : draft'[j] = draft[j]
      /\ Holds' /\ OneHome' /\ OneCopy'
  BY <1>3, <1>4, <1>5, <1>6, <1>7, OneGoesOn
<1>9. OfficeType' BY <1>4, <1>8 DEF OfficeInv, OfficeType
<1>10. TextKept'
  <2>1. \A j \in O!DocKeys : draft'[j].at = draft[j].at /\ draft'[j].path = draft[j].path /\ draft[j].text \subseteq draft'[j].text
    BY <1>3, <1>8
  <2> QED BY <1>4, <2>1 DEF OfficeInv, TextKept, O!NothingLost
<1> QED BY <1>8, <1>9, <1>10 DEF OfficeInv

\* A report of a copy: its text is what is to be saved.
LEMMA ReportStep ==
  ASSUME OfficeInv, NEW k \in O!DocKeys, NEW s \in {2, 3, 4, 6}, NEW c \in CopyRecs,
         draft[k].at = "open", O!Report(k, s), UNCHANGED <<doc, key, made, editor, stored, apart>>,
         draft' = [draft EXCEPT ![k] = c], c.path = draft[k].path, c.text = draft[k].text,
         \/ s \in {3, 6} /\ c.at = "open"
         \/ c.at = "closing" /\ \A e \in Editors : editor[e].at = "open" => editor[e].key # k
  PROVE  OfficeInv'
<1>1. PICK d : d = [at |-> "arrived", status |-> s, text |-> draft[k].text, to |-> O!Unset] OBVIOUS
<1>2. d \in CallRecs /\ d.at = "arrived" /\ d.status = s /\ d.text = draft[k].text
  BY <1>1, OfficeRecs DEF CallRecs, CopyRecs, Somewhere
<1>3. call' = [call EXCEPT ![k] = d] BY <1>1 DEF O!Report
<1>4. apart \subseteq apart' /\ apart' \subseteq Paths BY DEF OfficeInv, OfficeType
<1>5. d.at # "none" => c.at \in {"open", "closing"} /\ (d.status \in {2, 4} => c.at = "closing") BY <1>2
<1>6. /\ draft' \in [O!DocKeys -> CopyRecs] /\ call' \in [O!DocKeys -> CallRecs]
      /\ draft'[k] = c /\ call'[k] = d /\ \A j \in O!DocKeys \ {k} : draft'[j] = draft[j] /\ call'[j] = call[j]
      /\ Holds' /\ OneHome' /\ OneCopy'
  BY <1>2, <1>3, <1>4, <1>5, OneGoesOn
<1>7. OfficeType' BY <1>6 DEF OfficeInv, OfficeType
<1>8. TextKept'
  <2>1. ASSUME NEW j \in O!DocKeys, draft'[j].at \in {"open", "closing"}, draft'[j].path \notin apart
        PROVE  /\ stored[draft'[j].path] \subseteq draft'[j].text
               /\ call'[j].at # "none" => stored[draft'[j].path] \subseteq call'[j].text
    <3>1. CASE j = k BY <1>2, <1>6, <2>1, <3>1 DEF OfficeInv, TextKept
    <3>2. CASE j # k BY <1>6, <2>1, <3>2 DEF OfficeInv, TextKept
    <3> QED BY <3>1, <3>2
  <2>2. ASSUME NEW j \in O!DocKeys, call'[j].at = "write"
        PROVE  \/ call'[j].to = draft'[j].path
               \/ draft'[j].path \in apart /\ call'[j].to \in apart \cup {O!Unset}
    <3>1. j # k BY <1>2, <1>6, <2>2
    <3> QED BY <1>6, <2>2, <3>1 DEF OfficeInv, TextKept
  <2>3. O!NothingLost' BY DEF OfficeInv, TextKept, O!NothingLost
  <2>4. \A j \in O!DocKeys : call'[j].at # "none" => call'[j].text \subseteq draft'[j].text
    BY <1>2, <1>6 DEF OfficeInv, TextKept
  <2> QED BY <2>1, <2>2, <2>3, <2>4 DEF TextKept
<1> QED BY <1>6, <1>7, <1>8 DEF OfficeInv

LEMMA ForceSaveStep ==
  ASSUME O!OfficeAssumption, OfficeInv, NEW k \in O!DocKeys, O!ForceSave(k)
  PROVE  OfficeInv'
<1>1. PICK c : c = [draft[k] EXCEPT !.dirty = FALSE] OBVIOUS
<1>2. c \in CopyRecs /\ c.at = draft[k].at /\ c.path = draft[k].path /\ c.text = draft[k].text
  BY <1>1, OfficeRecs DEF CopyRecs
<1>3. /\ draft[k].at = "open" /\ O!Report(k, 6) /\ UNCHANGED <<doc, key, made, editor, stored, apart>>
      /\ draft' = [draft EXCEPT ![k] = c]
  BY <1>1 DEF O!ForceSave, OfficeInv, OfficeType
<1> QED BY <1>2, <1>3, ReportStep

LEMMA CloseStep ==
  ASSUME O!OfficeAssumption, OfficeInv, NEW k \in O!DocKeys, O!CloseCopy(k)
  PROVE  OfficeInv'
<1>1. /\ draft[k].at = "open" /\ UNCHANGED <<doc, key, made, editor, stored, apart>>
      /\ \A e \in Editors : editor[e].at = "open" => editor[e].key # k
  BY DEF O!CloseCopy
<1>2. CASE O!Report(k, 3) /\ UNCHANGED draft
  <2>1. draft' = [draft EXCEPT ![k] = draft[k]] /\ draft[k] \in CopyRecs BY <1>2 DEF OfficeInv, OfficeType
  <2> QED BY <1>1, <1>2, <2>1, ReportStep
<1>3. CASE O!Report(k, IF draft[k].dirty THEN 2 ELSE 4) /\ draft' = [draft EXCEPT ![k].at = "closing"]
  <2>1. PICK c : c = [draft[k] EXCEPT !.at = "closing"] OBVIOUS
  <2>2. c \in CopyRecs /\ c.at = "closing" /\ c.path = draft[k].path /\ c.text = draft[k].text
    BY <2>1, OfficeRecs DEF CopyRecs
  <2>3. draft' = [draft EXCEPT ![k] = c] BY <1>3, <2>1 DEF OfficeInv, OfficeType
  <2>4. PICK s \in {2, 3, 4, 6} : s = IF draft[k].dirty THEN 2 ELSE 4 OBVIOUS
  <2> QED BY <1>1, <1>3, <2>2, <2>3, <2>4, ReportStep
<1> QED BY <1>2, <1>3 DEF O!CloseCopy

-------------------------------------------------------------------------------
(* The callback                                                                  *)

LEMMA QuietIs == O!Quiet \in CallRecs /\ O!Quiet.at = "none"
BY DEF O!Quiet, CallRecs, Somewhere, Texts, O!Unset

LEMMA GoesIs ==
  ASSUME OfficeInv, NEW k \in O!DocKeys, NEW at \in {"none", "arrived", "look", "miss", "cut", "write"}, O!Goes(k, at)
  PROVE  \E d \in CallRecs : /\ call' = [call EXCEPT ![k] = d] /\ d.at = at
                             /\ d.status = call[k].status /\ d.text = call[k].text /\ d.to = call[k].to
<1>1. PICK d : d = [call[k] EXCEPT !.at = at] OBVIOUS
<1>2. d \in CallRecs /\ d.at = at /\ d.status = call[k].status /\ d.text = call[k].text /\ d.to = call[k].to
  BY <1>1, OfficeRecs DEF CallRecs
<1>3. call' = [call EXCEPT ![k] = d] BY <1>1 DEF O!Goes, OfficeInv, OfficeType
<1> QED BY <1>2, <1>3

LEMMA SettleIs ==
  ASSUME OfficeInv, NEW k \in O!DocKeys, O!Settle(k)
  PROVE  \E c \in CopyRecs : /\ draft' = [draft EXCEPT ![k] = c]
                             /\ c.at = (IF draft[k].at = "closing" THEN "closed" ELSE draft[k].at)
                             /\ c.path = draft[k].path /\ c.text = draft[k].text
<1>1. PICK at : at = IF draft[k].at = "closing" THEN "closed" ELSE draft[k].at OBVIOUS
<1>2. PICK c : c = [draft[k] EXCEPT !.at = at] OBVIOUS
<1>3. at \in {"none", "open", "closing", "closed"} BY <1>1, OfficeRecs DEF CopyRecs
<1>4. c \in CopyRecs /\ c.at = at /\ c.path = draft[k].path /\ c.text = draft[k].text
  BY <1>2, <1>3, OfficeRecs DEF CopyRecs
<1>5. draft' = [draft EXCEPT ![k] = c] BY <1>1, <1>2 DEF O!Settle, OfficeInv, OfficeType
<1> QED BY <1>1, <1>4, <1>5

\* A callback goes on, or ends and its copy with it; nothing is saved.
LEMMA CallbackIs ==
  ASSUME OfficeInv, NEW k \in O!DocKeys, call[k].at # "none",
         \/ UNCHANGED draft /\ \E at \in {"arrived", "look", "miss", "cut"} : O!Goes(k, at)
         \/ O!Settle(k) /\ call' = [call EXCEPT ![k] = O!Quiet]
  PROVE  \E c \in CopyRecs, d \in CallRecs :
           /\ draft' = [draft EXCEPT ![k] = c] /\ call' = [call EXCEPT ![k] = d]
           /\ c.path = draft[k].path /\ c.text = draft[k].text
           /\ c.at = draft[k].at \/ (draft[k].at = "closing" /\ c.at = "closed")
           /\ d.at # "none" => /\ c.at \in {"open", "closing"} /\ (d.status \in {2, 4} => c.at = "closing")
                               /\ d.text = call[k].text
           /\ d.at # "write"
<1>1. draft[k].at \in {"open", "closing"} /\ (call[k].status \in {2, 4} => draft[k].at = "closing")
  BY DEF OfficeInv, Holds
<1>2. ASSUME UNCHANGED draft, NEW at \in {"arrived", "look", "miss", "cut"}, O!Goes(k, at)
      PROVE  \E c \in CopyRecs, d \in CallRecs :
           /\ draft' = [draft EXCEPT ![k] = c] /\ call' = [call EXCEPT ![k] = d]
           /\ c.path = draft[k].path /\ c.text = draft[k].text
           /\ c.at = draft[k].at \/ (draft[k].at = "closing" /\ c.at = "closed")
           /\ d.at # "none" => /\ c.at \in {"open", "closing"} /\ (d.status \in {2, 4} => c.at = "closing")
                               /\ d.text = call[k].text
           /\ d.at # "write"
  <2>1. PICK d \in CallRecs : /\ call' = [call EXCEPT ![k] = d] /\ d.at = at
                              /\ d.status = call[k].status /\ d.text = call[k].text /\ d.to = call[k].to
    BY <1>2, GoesIs
  <2>2. draft' = [draft EXCEPT ![k] = draft[k]] /\ draft[k] \in CopyRecs BY <1>2 DEF OfficeInv, OfficeType
  <2> QED BY <1>1, <2>1, <2>2
<1>3. CASE O!Settle(k) /\ call' = [call EXCEPT ![k] = O!Quiet]
  <2>1. PICK c \in CopyRecs : /\ draft' = [draft EXCEPT ![k] = c]
                              /\ c.at = (IF draft[k].at = "closing" THEN "closed" ELSE draft[k].at)
                              /\ c.path = draft[k].path /\ c.text = draft[k].text
    BY <1>3, SettleIs
  <2> QED BY <1>3, <2>1, QuietIs
<1> QED BY <1>2, <1>3

LEMMA CallbackStep ==
  ASSUME OfficeInv, NEW k \in O!DocKeys, call[k].at # "none",
         \/ UNCHANGED draft /\ \E at \in {"arrived", "look", "miss", "cut"} : O!Goes(k, at)
         \/ O!Settle(k) /\ call' = [call EXCEPT ![k] = O!Quiet],
         UNCHANGED <<doc, made, editor, stored>>, apart \subseteq apart', apart' \subseteq Paths,
         key' \in [Paths -> 0..made], \A p \in Paths : key'[p] \in {key[p], O!Unset},
         \A p \in Paths \ apart' :
           \/ key'[p] = key[p]
           \/ p = draft[k].path /\ draft[k].at = "closing" /\ (key[p] = k \/ \A e \in Editors : editor[e].key # key[p])
  PROVE  OfficeInv'
<1>1. PICK c \in CopyRecs, d \in CallRecs :
           /\ draft' = [draft EXCEPT ![k] = c] /\ call' = [call EXCEPT ![k] = d]
           /\ c.path = draft[k].path /\ c.text = draft[k].text
           /\ c.at = draft[k].at \/ (draft[k].at = "closing" /\ c.at = "closed")
           /\ d.at # "none" => /\ c.at \in {"open", "closing"} /\ (d.status \in {2, 4} => c.at = "closing")
                               /\ d.text = call[k].text
           /\ d.at # "write"
  BY CallbackIs
<1>2. /\ draft' \in [O!DocKeys -> CopyRecs] /\ call' \in [O!DocKeys -> CallRecs]
      /\ draft'[k] = c /\ call'[k] = d /\ \A j \in O!DocKeys \ {k} : draft'[j] = draft[j] /\ call'[j] = call[j]
      /\ Holds' /\ OneHome' /\ OneCopy'
  BY <1>1, OneGoesOn
<1>3. OfficeType' BY <1>2 DEF OfficeInv, OfficeType
<1>4. ASSUME NEW j \in O!DocKeys
      PROVE  /\ draft'[j].path = draft[j].path /\ draft'[j].text = draft[j].text
             /\ draft'[j].at \in {"open", "closing"} => draft[j].at \in {"open", "closing"}
             /\ call'[j].at # "none" => call[j].at # "none" /\ call'[j].text = call[j].text
             /\ call'[j].at = "write" => call[j].at = "write" /\ call'[j].to = call[j].to
  <2>1. CASE j = k BY <1>1, <1>2, <2>1
  <2>2. CASE j # k BY <1>2, <2>2
  <2> QED BY <2>1, <2>2
<1>5. TextKept' BY <1>4, SavedStays
<1> QED BY <1>2, <1>3, <1>5 DEF OfficeInv

LEMMA CopyPath ==
  ASSUME OfficeInv, NEW k \in O!DocKeys, call[k].at # "none"
  PROVE  draft[k].path \in Paths /\ draft[k].at \in {"open", "closing"}
BY DEF OfficeInv, Holds

LEMMA ForgetStep ==
  ASSUME O!OfficeAssumption, OfficeInv, NEW k \in O!DocKeys, O!Forget(k)
  PROVE  OfficeInv'
<1>1. call[k].at = "arrived" BY DEF O!Forget
<1>2. PICK p \in Paths : p = draft[k].path BY <1>1, CopyPath
<1>3. PICK held : held = \E e \in Editors : editor[e].key = key[p] OBVIOUS
<1>4. /\ UNCHANGED <<doc, made, editor, stored>>
      /\ \/ O!Goes(k, "look") /\ UNCHANGED draft
         \/ call' = [call EXCEPT ![k] = O!Quiet] /\ O!Settle(k)
  BY DEF O!Forget
<1>5. /\ key' = IF O!Closes(call[k].status) THEN [key EXCEPT ![p] = O!Unset] ELSE key
      /\ apart' = IF O!Closes(call[k].status) /\ key[p] \notin {O!Unset, k} /\ held THEN apart \cup {p} ELSE apart
  BY <1>2, <1>3 DEF O!Forget
<1>6. apart \subseteq apart' /\ apart' \subseteq Paths BY <1>5 DEF OfficeInv, OfficeType
<1>7. key' \in [Paths -> 0..made] /\ \A q \in Paths : key'[q] \in {key[q], O!Unset}
  BY <1>5, OfficeRecs DEF OfficeInv, OfficeType
<1>8. ASSUME NEW q \in Paths \ apart', key'[q] # key[q]
      PROVE  /\ q = draft[k].path /\ draft[k].at = "closing"
             /\ key[q] = k \/ \A e \in Editors : editor[e].key # key[q]
  <2>1. O!Closes(call[k].status) /\ q = p BY <1>5, <1>8 DEF OfficeInv, OfficeType
  <2>2. draft[k].at = "closing" BY <1>1, <2>1 DEF OfficeInv, Holds, O!Closes
  <2>3. key[p] # O!Unset BY <1>5, <1>8, <2>1 DEF OfficeInv, OfficeType
  <2>4. key[p] = k \/ ~held BY <1>5, <1>8, <2>1, <2>3
  <2> QED BY <1>2, <1>3, <2>1, <2>2, <2>4
<1> QED BY <1>1, <1>4, <1>6, <1>7, <1>8, CallbackStep

LEMMA NotSaved ==
  ASSUME OfficeInv, NEW k \in O!DocKeys, call[k].at # "none", O!Answer(k, FALSE)
  PROVE  UNCHANGED stored
<1>1. PICK p \in Paths : p = draft[k].path BY CopyPath
<1>2. stored' = [stored EXCEPT ![p] = stored[p]] BY <1>1 DEF O!Answer, OfficeInv, OfficeType
<1> QED BY <1>2 DEF OfficeInv, OfficeType

LEMMA FailOfficeStep ==
  ASSUME O!OfficeAssumption, OfficeInv, NEW k \in O!DocKeys, O!Fail(k)
  PROVE  OfficeInv'
<1>1. call[k].at = "look" /\ UNCHANGED <<doc, key, made, editor, apart>> /\ O!Answer(k, FALSE) BY DEF O!Fail
<1>2. UNCHANGED stored BY <1>1, NotSaved
<1>3. \/ O!Goes(k, "arrived") /\ UNCHANGED draft
      \/ call' = [call EXCEPT ![k] = O!Quiet] /\ O!Settle(k)
  BY DEF O!Fail
<1>4. apart' \subseteq Paths /\ key' \in [Paths -> 0..made] BY <1>1 DEF OfficeInv, OfficeType
<1> QED BY <1>1, <1>2, <1>3, <1>4, CallbackStep

LEMMA LookStep ==
  ASSUME O!OfficeAssumption, OfficeInv, NEW k \in O!DocKeys, O!Look(k)
  PROVE  OfficeInv'
<1>1. call[k].at = "look" /\ UNCHANGED <<doc, key, made, editor, apart>> BY DEF O!Look
<1>2. UNCHANGED stored BY <1>1, NotSaved DEF O!Look
<1>3. \/ /\ O!Goes(k, "miss") \/ O!Goes(k, "cut")
         /\ UNCHANGED draft
      \/ call' = [call EXCEPT ![k] = O!Quiet] /\ O!Settle(k)
  BY DEF O!Look
<1>4. apart' \subseteq Paths /\ key' \in [Paths -> 0..made] BY <1>1 DEF OfficeInv, OfficeType
<1> QED BY <1>1, <1>2, <1>3, <1>4, CallbackStep

LEMMA LookAgainStep ==
  ASSUME O!OfficeAssumption, OfficeInv, NEW k \in O!DocKeys, O!LookAgain(k)
  PROVE  OfficeInv'
<1>1. call[k].at = "miss" /\ UNCHANGED <<doc, editor, draft, stored>> /\ O!Goes(k, "cut") BY DEF O!LookAgain
<1>2. PICK p \in Paths : p = draft[k].path BY <1>1, CopyPath
<1>3. O!NewKey(p) /\ apart' = (IF key[p] # O!Unset THEN apart \cup {p} ELSE apart) BY <1>2 DEF O!LookAgain
<1>4. /\ OneHome' /\ OneCopy'
      /\ made' \in Nat /\ made' <= MaxKeys /\ made' > made /\ key' \in [Paths -> 0..made']
      /\ apart \subseteq apart' /\ apart' \subseteq Paths
  BY <1>1, <1>3, NewKeyIs
<1>5. PICK d \in CallRecs : /\ call' = [call EXCEPT ![k] = d] /\ d.at = "cut"
                            /\ d.status = call[k].status /\ d.text = call[k].text /\ d.to = call[k].to
  BY <1>1, GoesIs
<1>6. /\ call' \in [O!DocKeys -> CallRecs]
      /\ \A j \in O!DocKeys : /\ call'[j].at # "none" => call[j].at # "none" /\ call'[j].text = call[j].text
                              /\ call'[j].status = call[j].status
                              /\ call'[j].at = "write" => call[j].at = "write" /\ call'[j].to = call[j].to
  <2>1. call'[k] = d /\ \A j \in O!DocKeys \ {k} : call'[j] = call[j] BY <1>5 DEF OfficeInv, OfficeType
  <2> QED BY <1>1, <1>5, <2>1 DEF OfficeInv, OfficeType
<1>7. OfficeType' BY <1>1, <1>4, <1>6 DEF OfficeInv, OfficeType
<1>8. Holds'
  <2>1. ASSUME NEW f \in Editors
        PROVE  /\ editor[f].at \in {"miss", "known", "config", "open"} => editor[f].path \in Paths
               /\ editor[f].at \in {"config", "open"} => editor[f].key \in 1..made'
               /\ editor[f].at \notin {"config", "open"} => editor[f].key = O!Unset
               /\ editor[f].at = "open" => draft[editor[f].key].at = "open"
    BY <1>4, OfficeRecs DEF OfficeInv, Holds
  <2>2. ASSUME NEW j \in O!DocKeys
        PROVE  /\ draft[j].at # "none" => j <= made' /\ draft[j].path \in Paths
               /\ call'[j].at # "none" => draft[j].at \in {"open", "closing"}
               /\ call'[j].at # "none" /\ call'[j].status \in {2, 4} => draft[j].at = "closing"
    BY <1>4, <1>6, OfficeRecs DEF OfficeInv, Holds
  <2> QED BY <1>1, <2>1, <2>2 DEF Holds
<1>9. TextKept' BY <1>1, <1>4, <1>6, SavedStays
<1> QED BY <1>4, <1>7, <1>8, <1>9 DEF OfficeInv

LEMMA CutStep ==
  ASSUME O!OfficeAssumption, OfficeInv, NEW k \in O!DocKeys, O!Cut(k)
  PROVE  OfficeInv'
<1>1. call[k].at = "cut" /\ UNCHANGED <<key, made, editor, draft, stored, apart>> BY DEF O!Cut
<1>2. PICK p \in Paths : p = draft[k].path BY <1>1, CopyPath
<1>3. PICK d : d = [call[k] EXCEPT !.at = "write", !.to = p] OBVIOUS
<1>4. d \in CallRecs /\ d.at = "write" /\ d.to = p /\ d.text = call[k].text /\ d.status = call[k].status
  BY <1>3, OfficeRecs DEF CallRecs, Somewhere
<1>5. doc' = [doc EXCEPT ![p] = O!None] /\ call' = [call EXCEPT ![k] = d]
  BY <1>2, <1>3 DEF O!Cut, OfficeInv, OfficeType
<1>6. draft' = [draft EXCEPT ![k] = draft[k]] /\ draft[k] \in CopyRecs BY <1>1 DEF OfficeInv, OfficeType
<1>7. d.at # "none" => draft[k].at \in {"open", "closing"} /\ (d.status \in {2, 4} => draft[k].at = "closing")
  BY <1>1, <1>4 DEF OfficeInv, Holds
<1>8. apart \subseteq apart' /\ apart' \subseteq Paths BY <1>1 DEF OfficeInv, OfficeType
<1>9. /\ call' \in [O!DocKeys -> CallRecs]
      /\ call'[k] = d /\ \A j \in O!DocKeys \ {k} : call'[j] = call[j]
      /\ Holds' /\ OneHome' /\ OneCopy'
  BY <1>1, <1>4, <1>5, <1>6, <1>7, <1>8, OneGoesOn
<1>10. OfficeType'
  <2>1. O!None \in Texts BY DEF O!None, Texts
  <2> QED BY <1>1, <1>5, <1>9, <2>1 DEF OfficeInv, OfficeType
<1>11. TextKept'
  <2>1. ASSUME NEW j \in O!DocKeys
        PROVE  /\ call'[j].at # "none" => call[j].at # "none" /\ call'[j].text = call[j].text
               /\ call'[j].at = "write" => j = k \/ (call[j].at = "write" /\ call'[j].to = call[j].to)
    BY <1>1, <1>4, <1>9
  <2>2. O!NothingLost'
    <3>1. doc'[p] = O!None /\ \A q \in Paths \ {p} : doc'[q] = doc[q] BY <1>5 DEF OfficeInv, OfficeType
    <3> QED BY <1>1, <3>1 DEF OfficeInv, TextKept, O!NothingLost
  <2> QED BY <1>1, <1>2, <1>4, <1>9, <2>1, <2>2 DEF OfficeInv, TextKept
<1> QED BY <1>9, <1>10, <1>11 DEF OfficeInv

LEMMA WriteOfficeStep ==
  ASSUME O!OfficeAssumption, OfficeInv, NEW k \in O!DocKeys, O!Write(k)
  PROVE  OfficeInv'
<1>1. call[k].at = "write" /\ UNCHANGED <<key, made, editor, apart>> BY DEF O!Write
<1>2. PICK p \in Paths : p = draft[k].path BY <1>1, CopyPath
<1>3. apart \subseteq apart' /\ apart' \subseteq Paths /\ key' \in [Paths -> 0..made]
  BY <1>1 DEF OfficeInv, OfficeType
<1>4. CASE UNCHANGED <<doc, draft, stored>> /\ O!Goes(k, "arrived") BY <1>1, <1>3, <1>4, CallbackStep
<1>5. CASE /\ doc' = [q \in Paths |-> IF q = call[k].to THEN call[k].text ELSE doc[q]]
           /\ call' = [call EXCEPT ![k] = O!Quiet] /\ O!Settle(k) /\ O!Answer(k, TRUE)
  <2>1. stored' = [stored EXCEPT ![p] = stored[p] \cup call[k].text]
    BY <1>2, <1>5 DEF O!Answer, OfficeInv, OfficeType
  <2>2. stored'[p] = stored[p] \cup call[k].text /\ \A q \in Paths \ {p} : stored'[q] = stored[q]
    BY <2>1 DEF OfficeInv, OfficeType
  <2>3. PICK c \in CopyRecs, d \in CallRecs :
           /\ draft' = [draft EXCEPT ![k] = c] /\ call' = [call EXCEPT ![k] = d]
           /\ c.path = draft[k].path /\ c.text = draft[k].text
           /\ c.at = (IF draft[k].at = "closing" THEN "closed" ELSE draft[k].at)
           /\ d.at = "none"
    <3>1. PICK c \in CopyRecs : /\ draft' = [draft EXCEPT ![k] = c]
                                /\ c.at = (IF draft[k].at = "closing" THEN "closed" ELSE draft[k].at)
                                /\ c.path = draft[k].path /\ c.text = draft[k].text
      BY <1>5, SettleIs
    <3> QED BY <1>5, <3>1, QuietIs
  <2>4. /\ draft' \in [O!DocKeys -> CopyRecs] /\ call' \in [O!DocKeys -> CallRecs]
        /\ draft'[k] = c /\ call'[k] = d /\ \A j \in O!DocKeys \ {k} : draft'[j] = draft[j] /\ call'[j] = call[j]
        /\ Holds' /\ OneHome' /\ OneCopy'
    BY <1>1, <1>3, <2>3, OneGoesOn
  <2>5. call[k].text \in Texts BY OfficeRecs DEF CallRecs
  <2>6. OfficeType'
    <3>1. doc' \in [Paths -> Texts \cup {O!Absent}] BY <1>5, <2>5, OfficeRecs
    <3>2. stored' \in [Paths -> Texts]
      <4>1. stored[p] \cup call[k].text \in Texts BY <2>5, OfficeRecs DEF Texts
      <4> QED BY <2>1, <4>1 DEF OfficeInv, OfficeType
    <3> QED BY <1>1, <2>4, <3>1, <3>2 DEF OfficeInv, OfficeType
  <2>7. call[k].to = p \/ (p \in apart /\ call[k].to \in apart \cup {O!Unset})
    BY <1>1, <1>2 DEF OfficeInv, TextKept
  <2>8. p \notin apart => stored[p] \subseteq draft[k].text /\ stored[p] \subseteq call[k].text
    BY <1>1, <1>2, CopyPath DEF OfficeInv, TextKept
  <2>9. TextKept'
    <3>1. ASSUME NEW j \in O!DocKeys, draft'[j].at \in {"open", "closing"}, draft'[j].path \notin apart
          PROVE  /\ stored'[draft'[j].path] \subseteq draft'[j].text
                 /\ call'[j].at # "none" => stored'[draft'[j].path] \subseteq call'[j].text
      <4>1. CASE j = k
        <5>1. draft'[k].path = p /\ draft'[k].text = draft[k].text /\ call'[k].at = "none" /\ p \notin apart
          BY <1>2, <2>3, <2>4, <3>1, <4>1
        <5>2. stored[p] \subseteq draft[k].text /\ call[k].text \subseteq draft[k].text
          BY <1>1, <2>8, <5>1 DEF OfficeInv, TextKept
        <5> QED BY <2>2, <4>1, <5>1, <5>2
      <4>2. CASE j # k
        <5>1. draft'[j] = draft[j] /\ call'[j] = call[j] BY <2>4, <4>2
        <5>2. draft[j].path # p
          BY <1>1, <1>2, <3>1, <4>2, <5>1, CopyPath DEF OfficeInv, OneCopy
        <5>3. draft[j].path \in Paths BY <3>1, <5>1 DEF OfficeInv, Holds
        <5> QED BY <2>2, <3>1, <5>1, <5>2, <5>3 DEF OfficeInv, TextKept
      <4> QED BY <4>1, <4>2
    <3>2. ASSUME NEW j \in O!DocKeys, call'[j].at = "write"
          PROVE  \/ call'[j].to = draft'[j].path
                 \/ draft'[j].path \in apart /\ call'[j].to \in apart \cup {O!Unset}
      BY <2>3, <2>4, <3>2 DEF OfficeInv, TextKept
    <3>3. O!NothingLost'
      <4>1. ASSUME NEW q \in Paths \ apart, doc'[q] # O!None, stored'[q] # {}
            PROVE  doc'[q] # O!Absent /\ stored'[q] \subseteq doc'[q]
        <5>1. CASE q = p
          <6>1. doc'[p] = call[k].text BY <1>5, <2>7, <4>1, <5>1
          <6>2. call[k].text # O!Absent BY <2>5 DEF O!Absent, Texts, O!OfficeAssumption
          <6> QED BY <2>2, <2>8, <4>1, <5>1, <6>1, <6>2
        <5>2. CASE q # p
          <6>1. q # call[k].to BY <2>7, <4>1, <5>2 DEF O!OfficeAssumption
          <6> QED BY <1>5, <2>2, <4>1, <5>2, <6>1 DEF OfficeInv, TextKept, O!NothingLost
        <5> QED BY <5>1, <5>2
      <4> QED BY <1>1, <4>1 DEF O!NothingLost
    <3>4. \A j \in O!DocKeys : call'[j].at # "none" => call'[j].text \subseteq draft'[j].text
      BY <2>3, <2>4 DEF OfficeInv, TextKept
    <3> QED BY <1>1, <3>1, <3>2, <3>3, <3>4 DEF TextKept
  <2> QED BY <2>4, <2>6, <2>9 DEF OfficeInv
<1> QED BY <1>4, <1>5 DEF O!Write

-------------------------------------------------------------------------------
(* What others do to the files                                                   *)

LEMMA OthersIs ==
  ASSUME OfficeInv, O!OfficeAssumption, NEW p \in Paths, NEW q \in Somewhere, O!Others(p, q)
  PROVE  /\ call' \in [O!DocKeys -> CallRecs]
         /\ \A k \in O!DocKeys : /\ call'[k].at = call[k].at /\ call'[k].status = call[k].status
                                 /\ call'[k].text = call[k].text
                                 /\ call'[k].to = IF call[k].to = p THEN q ELSE call[k].to
         /\ stored' \in [Paths -> Texts]
         /\ stored'[p] = {} /\ \A r \in Paths \ {p} : stored'[r] = stored[r]
         /\ apart \subseteq apart' /\ apart' \subseteq Paths
         /\ O!Shown(p) => p \in apart' /\ q \in apart' \cup {O!Unset}
<1>1. ASSUME NEW k \in O!DocKeys
      PROVE  /\ [call[k] EXCEPT !.to = IF @ = p THEN q ELSE @] \in CallRecs
             /\ [call[k] EXCEPT !.to = IF @ = p THEN q ELSE @].at = call[k].at
             /\ [call[k] EXCEPT !.to = IF @ = p THEN q ELSE @].status = call[k].status
             /\ [call[k] EXCEPT !.to = IF @ = p THEN q ELSE @].text = call[k].text
             /\ [call[k] EXCEPT !.to = IF @ = p THEN q ELSE @].to = IF call[k].to = p THEN q ELSE call[k].to
  BY OfficeRecs DEF CallRecs
<1>2. call' = [k \in O!DocKeys |-> [call[k] EXCEPT !.to = IF @ = p THEN q ELSE @]] BY DEF O!Others
<1>3. stored' = [stored EXCEPT ![p] = {}] BY DEF O!Others
<1>4. stored' \in [Paths -> Texts] /\ stored'[p] = {} /\ \A r \in Paths \ {p} : stored'[r] = stored[r]
  <2>1. {} \in Texts BY DEF Texts
  <2> QED BY <1>3, <2>1 DEF OfficeInv, OfficeType
<1>5. apart' = IF O!Shown(p) THEN apart \cup ({p, q} \cap Paths) ELSE apart BY DEF O!Others
<1>6. /\ apart \subseteq apart' /\ apart' \subseteq Paths
      /\ O!Shown(p) => p \in apart' /\ q \in apart' \cup {O!Unset}
  BY <1>5 DEF OfficeInv, OfficeType, Somewhere
<1> QED BY <1>1, <1>2, <1>4, <1>6

LEMMA OthersStep ==
  ASSUME O!OfficeAssumption, OfficeInv, NEW p \in Paths, NEW q \in Somewhere, O!Others(p, q),
         UNCHANGED <<key, made, editor, draft>>, doc' \in [Paths -> Texts \cup {O!Absent}],
         \A r \in Paths \ {p} : \/ doc'[r] = doc[r]
                                \/ doc[r] = O!Absent
  PROVE  OfficeInv'
<1>1. /\ call' \in [O!DocKeys -> CallRecs]
      /\ \A k \in O!DocKeys : /\ call'[k].at = call[k].at /\ call'[k].status = call[k].status
                              /\ call'[k].text = call[k].text
                              /\ call'[k].to = IF call[k].to = p THEN q ELSE call[k].to
      /\ stored' \in [Paths -> Texts]
      /\ stored'[p] = {} /\ \A r \in Paths \ {p} : stored'[r] = stored[r]
      /\ apart \subseteq apart' /\ apart' \subseteq Paths
      /\ O!Shown(p) => p \in apart' /\ q \in apart' \cup {O!Unset}
  BY OthersIs
<1>2. OfficeType' BY <1>1 DEF OfficeInv, OfficeType
<1>3. Holds' /\ OneHome' /\ OneCopy' BY <1>1, CopiesStay
<1>4. TextKept'
  <2>1. ASSUME NEW k \in O!DocKeys, draft[k].at \in {"open", "closing"}, draft[k].path \notin apart'
        PROVE  /\ stored'[draft[k].path] \subseteq draft[k].text
               /\ call'[k].at # "none" => stored'[draft[k].path] \subseteq call'[k].text
    <3>1. draft[k].path \in Paths /\ draft[k].path \notin apart BY <1>1, <2>1 DEF OfficeInv, Holds
    <3> QED BY <1>1, <2>1, <3>1 DEF OfficeInv, TextKept
  <2>2. ASSUME NEW k \in O!DocKeys, call'[k].at = "write"
        PROVE  \/ call'[k].to = draft[k].path
               \/ draft[k].path \in apart' /\ call'[k].to \in apart' \cup {O!Unset}
    <3>1. call[k].at = "write" BY <1>1, <2>2
    <3>2. call[k].to = draft[k].path \/ (draft[k].path \in apart /\ call[k].to \in apart \cup {O!Unset})
      BY <3>1 DEF OfficeInv, TextKept
    <3>3. CASE call[k].to = p
      <4>1. O!Shown(p) BY <3>1, <3>3 DEF O!Shown
      <4> QED BY <1>1, <3>2, <3>3, <4>1
    <3>4. CASE call[k].to # p BY <1>1, <3>2, <3>4
    <3> QED BY <3>3, <3>4
  <2>3. O!NothingLost'
    <3>1. ASSUME NEW r \in Paths \ apart', doc'[r] # O!None, stored'[r] # {}
          PROVE  doc'[r] # O!Absent /\ stored'[r] \subseteq doc'[r]
      <4>1. r # p /\ r \in Paths \ apart /\ stored'[r] = stored[r] BY <1>1, <3>1
      <4>2. doc[r] # O!Absent
        <5>1. O!Absent # O!None BY DEF O!Absent, O!None
        <5> QED BY <3>1, <4>1, <5>1 DEF OfficeInv, TextKept, O!NothingLost
      <4> QED BY <3>1, <4>1, <4>2 DEF OfficeInv, TextKept, O!NothingLost
    <3> QED BY <3>1 DEF O!NothingLost
  <2> QED BY <1>1, <2>1, <2>2, <2>3 DEF OfficeInv, TextKept
<1> QED BY <1>2, <1>3, <1>4 DEF OfficeInv

LEMMA MoveStep ==
  ASSUME O!OfficeAssumption, OfficeInv, NEW p \in Paths, NEW q \in Paths, O!Move(p, q)
  PROVE  OfficeInv'
<1>1. /\ doc[q] = O!Absent /\ doc' = [doc EXCEPT ![p] = O!Absent, ![q] = doc[p]]
      /\ O!Others(p, q) /\ UNCHANGED <<key, made, editor, draft>>
  BY DEF O!Move
<1>2. /\ doc' \in [Paths -> Texts \cup {O!Absent}]
      /\ \A r \in Paths \ {p} : doc'[r] = doc[r] \/ doc[r] = O!Absent
  BY <1>1 DEF OfficeInv, OfficeType
<1>3. q \in Somewhere BY DEF Somewhere
<1> QED BY <1>1, <1>2, <1>3, OthersStep

LEMMA UploadStep ==
  ASSUME O!OfficeAssumption, OfficeInv, NEW p \in Paths, NEW l \in Letters, O!Upload(p, l)
  PROVE  OfficeInv'
<1>1. doc' = [doc EXCEPT ![p] = {l}] /\ O!Others(p, p) /\ UNCHANGED <<key, made, editor, draft>> BY DEF O!Upload
<1>2. {l} \in Texts /\ p \in Somewhere BY DEF Texts, Somewhere
<1>3. /\ doc' \in [Paths -> Texts \cup {O!Absent}]
      /\ \A r \in Paths \ {p} : doc'[r] = doc[r]
  BY <1>1, <1>2 DEF OfficeInv, OfficeType
<1> QED BY <1>1, <1>2, <1>3, OthersStep

LEMMA DeleteStep ==
  ASSUME O!OfficeAssumption, OfficeInv, NEW p \in Paths, O!Delete(p)
  PROVE  OfficeInv'
<1>1. doc' = [doc EXCEPT ![p] = O!Absent] /\ O!Others(p, O!Unset) /\ UNCHANGED <<key, made, editor, draft>>
  BY DEF O!Delete
<1>2. O!Unset \in Somewhere BY DEF Somewhere
<1>3. /\ doc' \in [Paths -> Texts \cup {O!Absent}]
      /\ \A r \in Paths \ {p} : doc'[r] = doc[r]
  BY <1>1 DEF OfficeInv, OfficeType
<1> QED BY <1>1, <1>2, <1>3, OthersStep

LEMMA OfficeStep ==
  ASSUME O!OfficeAssumption, OfficeInv, [O!Next]_O!vars
  PROVE  OfficeInv'
<1>1. CASE UNCHANGED O!vars
  BY <1>1 DEF O!vars, OfficeInv, OfficeType, Holds, OneHome, OneCopy, TextKept, O!NothingLost
<1>2. ASSUME NEW e \in Editors,
             (\E p \in Paths : O!Ask(e, p)) \/ O!Generate(e) \/ O!Configure(e)
               \/ O!Open(e) \/ O!Change(e) \/ O!Leave(e)
      PROVE  OfficeInv'
  BY <1>2, AskStep, GenerateStep, ConfigureOfficeStep, OpenStep, ChangeOfficeStep, LeaveStep
<1>3. ASSUME NEW k \in O!DocKeys,
             O!ForceSave(k) \/ O!CloseCopy(k) \/ O!Forget(k) \/ O!Fail(k) \/ O!Look(k) \/ O!LookAgain(k)
               \/ O!Cut(k) \/ O!Write(k)
      PROVE  OfficeInv'
  BY <1>3, ForceSaveStep, CloseStep, ForgetStep, FailOfficeStep, LookStep, LookAgainStep, CutStep, WriteOfficeStep
<1>4. ASSUME NEW p \in Paths,
             O!Expire(p) \/ O!Delete(p) \/ (\E q \in Paths : O!Move(p, q)) \/ (\E l \in Letters : O!Upload(p, l))
      PROVE  OfficeInv'
  BY <1>4, ExpireKeyStep, DeleteStep, MoveStep, UploadStep
<1> QED BY <1>1, <1>2, <1>3, <1>4, RestartOfficeStep DEF O!Next

(* Tabs with one document share one copy, and what the document server was told is  *)
(* saved stays in the file, whatever callbacks are late, fail or are sent again and   *)
(* whatever is moved, replaced or restarted, unless a key was made twice or forgotten  *)
(* while in use, or others wrote the file (generateOfficeId, deleteOfficeId,          *)
(* processOnlyOfficeCallback).                                                     *)
THEOREM EditorsAgreeAlways == ASSUME O!OfficeAssumption PROVE ViewsSpec => []EditorsAgree
<1>1. ViewsInit => (part = "office" => OfficeInv) BY OfficeInit DEF ViewsInit
<1>2. (part = "office" => OfficeInv) /\ [ViewsNext]_viewsVars => (part = "office" => OfficeInv)'
  <2> SUFFICES ASSUME part = "office" => OfficeInv, [ViewsNext]_viewsVars, part' = "office"
               PROVE  (OfficeInv)'
    OBVIOUS
  <2>1. part = "office" /\ [O!Next]_O!vars BY DEF ViewsNext, viewsVars, officeVars, O!vars
  <2> QED BY <2>1, OfficeStep
<1>3. (part = "office" => OfficeInv) => EditorsAgree BY OfficeAgrees DEF EditorsAgree
<1> QED BY <1>1, <1>2, <1>3, PTL DEF ViewsSpec

-----------------------------------------------------------------------------
(* Previews: the slots of the generators, and what the pictures show, for any       *)
(* number of requests, files and contents, any number of slots and any faults.       *)

Pictures == Nat
ViewRecs ==
  [at : {"idle", "load", "probe", "acquire", "work", "resize", "resizing", "store", "write", "served", "failed"},
   path : Names \cup {V!None}, size : V!PreviewSizes, ver : V!Contents \cup {V!None}, seen : SUBSET Nat,
   pic : Pictures, left : SUBSET Names, want : V!PreviewSizes, gone : BOOLEAN]

\* A picture of version v of path p shows that version, or it is known that another was read.
Right(p, v, pic) == pic = v \/ (kind[p] # "audio" /\ <<p, v>> \in poisoned)

\* Who is on the way to a picture has looked at the file.
Looking == {"load", "acquire", "work", "resize", "resizing", "store", "write", "served"}
Looked(q) == q.at \in Looking => q.path \in Names /\ q.ver \in V!Contents /\ q.ver \in q.seen

\* The picture it has made, or found.
Shown(q) ==
  /\ q.at \in {"resize", "resizing", "store", "write"} => Right(q.path, q.ver, q.pic)
  /\ q.at = "served" => q.pic = V!Empty \/ Right(q.path, q.ver, q.pic)

\* The pictures that are kept.
CacheRight ==
  \A p \in Names, v \in V!Contents, s \in V!PreviewSizes :
    LET pic == cache[V!CacheKey(p, v, s)] IN pic \in {V!None, V!Empty} \/ Right(p, v, pic)

ViewType ==
  /\ kind \in [Names -> {"image", "heic", "video", "doc", "office", "audio"}]
  /\ pics \in [Names -> V!Contents \cup {V!None}] /\ came \in Nat
  /\ cache \in [V!CacheKeys -> Pictures]
  /\ slots \in [V!Kinds -> Int]
  /\ view \in [Viewers -> ViewRecs]
  /\ change.at # "idle" => change.path \in Names /\ (change.what = "overwrite" => came < MaxContent)

ViewInv ==
  /\ ViewType /\ CacheRight
  /\ \A r \in Viewers : Looked(view[r]) /\ Shown(view[r])

LEMMA Numbers ==
  ASSUME V!PreviewsAssumption
  PROVE  /\ V!None = 0 /\ V!Empty \in Nat /\ V!Contents \subseteq Nat /\ 0 \notin V!Contents /\ 0 \notin Names
         /\ Names \subseteq V!Contents /\ MaxContent \in Nat /\ V!Contents = 1 .. MaxContent
         /\ V!Empty \notin V!Contents
BY DEF V!PreviewsAssumption, V!None, V!Empty, V!Contents

LEMMA SameFinite ==
  /\ \A S : V!IsFiniteSet(S) <=> IsFiniteSet(S)
  /\ \A S : V!Cardinality(S) = Cardinality(S)
<1>1. ASSUME NEW S PROVE V!IsFiniteSet(S) <=> IsFiniteSet(S) BY DEF V!IsFiniteSet, IsFiniteSet
<1>2. ASSUME NEW S PROVE V!Cardinality(S) = Cardinality(S) BY DEF V!Cardinality, Cardinality
<1> QED BY <1>1, <1>2

LEMMA NoneIs == V!None \in Nat /\ V!None \in Names \cup {V!None} /\ V!None \in V!Contents \cup {V!None}
BY DEF V!None

LEMMA NobodyIs ==
  ASSUME V!PreviewsAssumption
  PROVE  /\ V!Nobody \in ViewRecs /\ V!Nobody.at = "idle"
         /\ [V!Nobody EXCEPT !.at = "failed"] \in ViewRecs /\ [V!Nobody EXCEPT !.at = "failed"].at = "failed"
<1>1. V!Nobody \in ViewRecs /\ V!Nobody.at = "idle" BY NoneIs DEF V!Nobody, ViewRecs, V!PreviewSizes, Pictures
<1> QED BY <1>1 DEF ViewRecs

LEMMA PreviewsInit == ASSUME V!PreviewsAssumption, V!Init PROVE ViewInv
<1>1. \A r \in Viewers : view[r] = V!Nobody BY DEF V!Init
<1>2. ViewType
  <2>1. kind \in [Names -> {"image", "heic", "video", "doc", "office", "audio"}]
    BY DEF V!Init, V!PreviewsAssumption
  <2>2. pics \in [Names -> V!Contents \cup {V!None}]
    <3>1. PICK P \in (SUBSET Names) \ {{}} : pics = [p \in Names |-> IF p \in P THEN p ELSE V!None]
      BY DEF V!Init
    <3> QED BY <3>1, Numbers
  <2>3. came \in Nat
    <3>1. IsFiniteSet(Names) BY SameFinite DEF V!PreviewsAssumption
    <3>2. came = Cardinality(Names) BY SameFinite DEF V!Init
    <3> QED BY <3>1, <3>2, FS_CardinalityType
  <2>4. cache \in [V!CacheKeys -> Pictures] BY Numbers DEF V!Init, Pictures
  <2>5. slots \in [V!Kinds -> Int] BY DEF V!Init
  <2>6. view \in [Viewers -> ViewRecs] BY NobodyIs DEF V!Init
  <2>7. change.at = "idle" BY DEF V!Init, V!Resting
  <2> QED BY <2>1, <2>2, <2>3, <2>4, <2>5, <2>6, <2>7 DEF ViewType
<1>3. CacheRight
  <2>1. ASSUME NEW p \in Names, NEW v \in V!Contents, NEW s \in V!PreviewSizes PROVE V!CacheKey(p, v, s) \in V!CacheKeys
    BY DEF V!CacheKey, V!CacheKeys
  <2> QED BY <2>1 DEF CacheRight, V!Init
<1> QED BY <1>1, <1>2, <1>3, NobodyIs DEF ViewInv, Looked, Shown, Looking

LEMMA ViewIs ==
  ASSUME ViewInv, NEW r \in Viewers
  PROVE  view[r] \in ViewRecs /\ Looked(view[r]) /\ Shown(view[r]) /\ view \in [Viewers -> ViewRecs]
BY DEF ViewInv, ViewType

\* One request gets on, and the files stay.
LEMMA OneView ==
  ASSUME ViewInv, NEW r \in Viewers, NEW q \in ViewRecs, view' = [view EXCEPT ![r] = q],
         UNCHANGED <<kind, pics, came, change>>, poisoned \subseteq poisoned',
         cache' \in [V!CacheKeys -> Pictures], slots' \in [V!Kinds -> Int], CacheRight', Looked(q),
         q.at \in {"resize", "resizing", "store", "write"} => Right(q.path, q.ver, q.pic)',
         q.at = "served" => q.pic = V!Empty \/ Right(q.path, q.ver, q.pic)'
  PROVE  ViewInv'
<1>1. ViewType' BY DEF ViewInv, ViewType
<1>2. ASSUME NEW w \in Viewers PROVE (Looked(view[w]) /\ Shown(view[w]))'
  <2>1. CASE w = r
    <3>1. view'[r] = q BY ViewIs
    <3> QED BY <2>1, <3>1 DEF Looked, Shown, Right
  <2>2. CASE w # r
    <3>1. view'[w] = view[w] BY <2>2, ViewIs
    <3>2. Looked(view[w]) /\ Shown(view[w]) BY ViewIs
    <3> QED BY <3>1, <3>2 DEF Looked, Shown, Right
  <2> QED BY <2>1, <2>2
<1> QED BY <1>1, <1>2 DEF ViewInv

LEMMA CacheKept ==
  ASSUME ViewInv, UNCHANGED <<kind, cache>>, poisoned \subseteq poisoned'
  PROVE  CacheRight' /\ cache' \in [V!CacheKeys -> Pictures]
BY DEF ViewInv, ViewType, CacheRight, Right, V!CacheKey

-----------------------------------------------------------------------------
(* What a step makes of a request                                             *)

\* It goes on to a place.
LEMMA StepsIs ==
  ASSUME ViewInv, NEW r \in Viewers, NEW at \in Looking, view[r].at \in Looking, V!Steps(r, at)
  PROVE  \E q \in ViewRecs :
           /\ view' = [view EXCEPT ![r] = q] /\ q.at = at /\ Looked(q)
           /\ q.path = view[r].path /\ q.ver = view[r].ver /\ q.size = view[r].size /\ q.pic = view[r].pic
           /\ q.seen = view[r].seen
<1>1. PICK q : q = [view[r] EXCEPT !.at = at] OBVIOUS
<1>2. /\ q \in ViewRecs /\ q.at = at /\ q.path = view[r].path /\ q.ver = view[r].ver /\ q.size = view[r].size
      /\ q.pic = view[r].pic /\ q.seen = view[r].seen
  BY <1>1, ViewIs DEF ViewRecs, Looking
<1>3. view' = [view EXCEPT ![r] = q] BY <1>1, ViewIs DEF V!Steps
<1>4. Looked(q) BY <1>2, ViewIs DEF Looked
<1> QED BY <1>2, <1>3, <1>4

\* It fails, or its folder tries another file.
LEMMA FailsIs ==
  ASSUME V!PreviewsAssumption, ViewInv, NEW r \in Viewers, V!Fails(r)
  PROVE  \E q \in ViewRecs : view' = [view EXCEPT ![r] = q] /\ q.at \in {"probe", "failed"} /\ Looked(q)
<1>1. view[r] \in ViewRecs BY ViewIs
<1>2. CASE V!Probing(r) /\ ~view[r].gone
  <2>1. PICK q : q = [V!Nobody EXCEPT !.at = "probe", !.left = view[r].left \ {view[r].path}, !.want = view[r].want]
    OBVIOUS
  <2>2. view' = [view EXCEPT ![r] = q] BY <1>2, <2>1 DEF V!Fails
  <2>3. q \in ViewRecs /\ q.at = "probe" BY <1>1, <2>1, NobodyIs DEF ViewRecs
  <2> QED BY <2>2, <2>3 DEF Looked, Looking
<1>3. CASE ~(V!Probing(r) /\ ~view[r].gone)
  <2>1. view' = [view EXCEPT ![r] = [V!Nobody EXCEPT !.at = "failed"]] BY <1>3 DEF V!Fails
  <2> QED BY <2>1, NobodyIs DEF Looked, Looking
<1> QED BY <1>2, <1>3

\* There is a picture: it is answered, or the folder takes this file.
LEMMA SucceedsIs ==
  ASSUME V!PreviewsAssumption, ViewInv, NEW r \in Viewers, view[r].at \in Looking, NEW pic \in Nat,
         V!Succeeds(r, pic)
  PROVE  \E q \in ViewRecs :
           /\ view' = [view EXCEPT ![r] = q] /\ q.at \in {"load", "served"} /\ Looked(q)
           /\ q.path = view[r].path /\ q.ver = view[r].ver /\ q.seen = view[r].seen
           /\ q.at = "served" => q.pic = pic
<1>1. view[r] \in ViewRecs /\ Looked(view[r]) BY ViewIs
<1>2. CASE V!Probing(r)
  <2>1. PICK q : q = [view[r] EXCEPT !.at = "load", !.size = view[r].want, !.left = {}, !.pic = V!None] OBVIOUS
  <2>2. view' = [view EXCEPT ![r] = q] BY <1>2, <2>1, ViewIs DEF V!Succeeds
  <2>3. q \in ViewRecs /\ q.at = "load" /\ q.path = view[r].path /\ q.ver = view[r].ver /\ q.seen = view[r].seen
    BY <1>1, <2>1, NoneIs DEF ViewRecs, Pictures
  <2> QED BY <1>1, <2>2, <2>3 DEF Looked
<1>3. CASE ~V!Probing(r)
  <2>1. PICK q : q = [view[r] EXCEPT !.at = "served", !.pic = pic] OBVIOUS
  <2>2. view' = [view EXCEPT ![r] = q] BY <1>3, <2>1, ViewIs DEF V!Succeeds
  <2>3. /\ q \in ViewRecs /\ q.at = "served" /\ q.path = view[r].path /\ q.ver = view[r].ver
        /\ q.seen = view[r].seen /\ q.pic = pic
    BY <1>1, <2>1 DEF ViewRecs, Pictures
  <2> QED BY <1>1, <2>2, <2>3 DEF Looked
<1> QED BY <1>2, <1>3

-----------------------------------------------------------------------------
(* The steps of a request: what they make of it, and of the pictures            *)

\* A picture of the version that is asked for.
LEMMA CacheHit ==
  ASSUME V!PreviewsAssumption, ViewInv, NEW r \in Viewers, view[r].at \in Looking, cache[V!KeyOf(r)] # V!None
  PROVE  /\ cache[V!KeyOf(r)] \in Nat
         /\ cache[V!KeyOf(r)] = V!Empty \/ Right(view[r].path, view[r].ver, cache[V!KeyOf(r)])
<1>1. view[r].path \in Names /\ view[r].ver \in V!Contents /\ view[r].size \in V!PreviewSizes
  BY ViewIs DEF Looked, ViewRecs
<1>2. V!KeyOf(r) = V!CacheKey(view[r].path, view[r].ver, view[r].size) BY DEF V!KeyOf
<1>3. V!KeyOf(r) \in V!CacheKeys BY <1>1, <1>2 DEF V!CacheKey, V!CacheKeys
<1> QED BY <1>1, <1>2, <1>3 DEF ViewInv, ViewType, CacheRight, Pictures

\* A set of names has a least, if any.
LEMMA LeastIs ==
  ASSUME V!PreviewsAssumption, NEW S \in SUBSET Names, S # {}
  PROVE  (CHOOSE n \in S : \A m \in S : n <= m) \in S
<1>1. S \in SUBSET Nat BY Numbers
<1>2. \E n \in S : \A m \in S : n <= m BY <1>1, LeastIn
<1> QED BY <1>2

LEMMA AskViewStep ==
  ASSUME V!PreviewsAssumption, ViewInv, NEW r \in Viewers,
         (\E p \in Names, s \in V!PreviewSizes : V!AskFile(r, p, s)) \/ (\E s \in V!PreviewSizes : V!AskFolder(r, s)) \/ V!Probe(r)
  PROVE  ViewInv'
<1>1. /\ UNCHANGED <<kind, pics, came, cache, slots, change, poisoned>>
      /\ CacheRight' /\ cache' \in [V!CacheKeys -> Pictures] /\ slots' \in [V!Kinds -> Int]
  <2>1. UNCHANGED <<kind, pics, came, cache, slots, change, poisoned>> BY DEF V!AskFile, V!AskFolder, V!Probe
  <2> QED BY <2>1, CacheKept DEF ViewInv, ViewType
<1>2. ASSUME NEW p \in Names, NEW s \in V!PreviewSizes, pics[p] # V!None, V!Stat(r, p, s) PROVE ViewInv'
  <2>1. pics[p] \in V!Contents BY <1>2 DEF ViewInv, ViewType
  <2>2. pics[p] \in Nat BY <2>1, Numbers
  <2>3. PICK q : q = [view[r] EXCEPT !.at = "load", !.path = p, !.size = s, !.ver = pics[p], !.seen = {pics[p]}]
    OBVIOUS
  <2>4. /\ q \in ViewRecs /\ q.at = "load" /\ q.path = p /\ q.ver = pics[p] /\ q.seen = {pics[p]}
    BY <2>1, <2>2, <2>3, ViewIs DEF ViewRecs
  <2>5. view' = [view EXCEPT ![r] = q] BY <1>2, <2>3, ViewIs DEF V!Stat
  <2>6. Looked(q) BY <2>1, <2>4 DEF Looked
  <2> QED BY <1>1, <2>4, <2>5, <2>6, OneView
<1>3. ASSUME NEW q \in ViewRecs, view' = [view EXCEPT ![r] = q], q.at \in {"probe", "failed"} PROVE ViewInv'
  <2>1. Looked(q) BY <1>3 DEF Looked, Looking
  <2> QED BY <1>1, <1>3, <2>1, OneView
<1>4. CASE \E p \in Names, s \in V!PreviewSizes : V!AskFile(r, p, s) BY <1>2, <1>4 DEF V!AskFile
<1>5. CASE \E s \in V!PreviewSizes : V!AskFolder(r, s)
  <2>1. PICK s \in V!PreviewSizes : view' = [view EXCEPT ![r].at = "probe", ![r].left = Names, ![r].want = s]
    BY <1>5 DEF V!AskFolder
  <2>2. PICK q : q = [view[r] EXCEPT !.at = "probe", !.left = Names, !.want = s] OBVIOUS
  <2>3. q \in ViewRecs /\ q.at = "probe" BY <2>2, ViewIs DEF ViewRecs
  <2>4. view' = [view EXCEPT ![r] = q] BY <2>1, <2>2, ViewIs
  <2> QED BY <1>3, <2>3, <2>4
<1>6. CASE V!Probe(r)
  <2> DEFINE p == CHOOSE n \in view[r].left : \A m \in view[r].left : n <= m
  <2>1. view[r].at = "probe" BY <1>6 DEF V!Probe
  <2>2. CASE view[r].left = {}
    <3>1. view' = [view EXCEPT ![r] = [V!Nobody EXCEPT !.at = "failed"]] BY <1>6, <2>2 DEF V!Probe
    <3> QED BY <1>3, <3>1, NobodyIs
  <2>3. CASE view[r].left # {} /\ pics[p] = V!None
    <3>1. view' = [view EXCEPT ![r].left = @ \ {p}] BY <1>6, <2>3 DEF V!Probe
    <3>2. PICK q : q = [view[r] EXCEPT !.left = @ \ {p}] OBVIOUS
    <3> HIDE DEF p
    <3>3. q \in ViewRecs /\ q.at = "probe" BY <2>1, <3>2, ViewIs DEF ViewRecs
    <3>4. view' = [view EXCEPT ![r] = q] BY <3>1, <3>2, ViewIs
    <3> QED BY <1>3, <3>3, <3>4
  <2>4. CASE view[r].left # {} /\ pics[p] # V!None
    <3>1. V!Stat(r, p, "small") BY <1>6, <2>4 DEF V!Probe
    <3>2. view[r].left \subseteq Names BY ViewIs DEF ViewRecs
    <3>3. p \in Names BY <2>4, <3>2, LeastIs
    <3>4. "small" \in V!PreviewSizes BY DEF V!PreviewSizes
    <3> HIDE DEF p
    <3> QED BY <1>2, <2>4, <3>1, <3>3, <3>4
  <2> QED BY <2>2, <2>3, <2>4
<1> QED BY <1>4, <1>5, <1>6

LEMMA LoadStep ==
  ASSUME V!PreviewsAssumption, ViewInv, NEW r \in Viewers, V!Load(r)
  PROVE  ViewInv'
<1>1. /\ UNCHANGED <<kind, pics, came, cache, slots, change, poisoned>>
      /\ CacheRight' /\ cache' \in [V!CacheKeys -> Pictures] /\ slots' \in [V!Kinds -> Int]
  <2>1. UNCHANGED <<kind, pics, came, cache, slots, change, poisoned>> BY DEF V!Load
  <2> QED BY <2>1, CacheKept DEF ViewInv, ViewType
<1>2. view[r].at = "load" /\ view[r].at \in Looking BY DEF V!Load, Looking
<1>3. CASE V!Fails(r) BY <1>1, <1>3, FailsIs, OneView
<1>4. CASE cache[V!KeyOf(r)] # V!None /\ V!Succeeds(r, cache[V!KeyOf(r)])
  <2>1. PICK pic \in Nat : pic = cache[V!KeyOf(r)] BY <1>2, <1>4, CacheHit
  <2>2. pic = V!Empty \/ Right(view[r].path, view[r].ver, pic) BY <1>2, <1>4, <2>1, CacheHit
  <2>3. PICK q \in ViewRecs :
           /\ view' = [view EXCEPT ![r] = q] /\ q.at \in {"load", "served"} /\ Looked(q)
           /\ q.at = "served" => q.path = view[r].path /\ q.ver = view[r].ver /\ q.pic = pic
    BY <1>2, <1>4, <2>1, SucceedsIs
  <2>4. q.at = "served" => q.pic = V!Empty \/ Right(q.path, q.ver, q.pic)' BY <1>1, <2>2, <2>3 DEF Right
  <2> QED BY <1>1, <2>3, <2>4, OneView
<1>5. CASE V!Steps(r, IF V!SlotOf(r) = "none" THEN "work" ELSE "acquire")
  <2>1. PICK at \in {"work", "acquire"} : V!Steps(r, at) BY <1>5
  <2>2. PICK q \in ViewRecs : view' = [view EXCEPT ![r] = q] /\ q.at = at /\ Looked(q)
    BY <1>2, <2>1, StepsIs DEF Looking
  <2> QED BY <1>1, <2>1, <2>2, OneView
<1> QED BY <1>3, <1>4, <1>5 DEF V!Load

LEMMA AcquireStep ==
  ASSUME V!PreviewsAssumption, ViewInv, NEW r \in Viewers, V!Acquire(r)
  PROVE  ViewInv'
<1>1. /\ UNCHANGED <<kind, pics, came, cache, change, poisoned>>
      /\ CacheRight' /\ cache' \in [V!CacheKeys -> Pictures]
  <2>1. UNCHANGED <<kind, pics, came, cache, change, poisoned>> BY DEF V!Acquire
  <2> QED BY <2>1, CacheKept
<1>2. view[r].at \in Looking BY DEF V!Acquire, Looking
<1>3. slots' \in [V!Kinds -> Int] BY DEF V!Acquire, V!Take, ViewInv, ViewType
<1>4. CASE V!Fails(r) BY <1>1, <1>3, <1>4, FailsIs, OneView
<1>5. CASE V!Steps(r, "work")
  <2>1. PICK q \in ViewRecs : view' = [view EXCEPT ![r] = q] /\ q.at = "work" /\ Looked(q)
    BY <1>2, <1>5, StepsIs DEF Looking
  <2> QED BY <1>1, <1>3, <2>1, OneView
<1> QED BY <1>4, <1>5 DEF V!Acquire

\* A generator has read something.
LEMMA GeneratesStep ==
  ASSUME V!PreviewsAssumption, ViewInv, NEW r \in Viewers, view[r].at = "work",
         NEW pic \in V!Contents \cup {V!None}, NEW next \in {"resize", "store"}, V!Generates(r, pic, next),
         UNCHANGED <<kind, pics, came, cache, change>>, kind[view[r].path] = "audio" => pic = view[r].ver
  PROVE  ViewInv'
<1>1. poisoned \subseteq poisoned' BY DEF V!Generates
<1>2. CacheRight' /\ cache' \in [V!CacheKeys -> Pictures] BY <1>1, CacheKept
<1>3. slots' \in [V!Kinds -> Int]
  <2>1. V!GiveBack(r) BY DEF V!Generates
  <2>2. slots \in [V!Kinds -> Int] BY DEF ViewInv, ViewType
  <2> QED BY <2>1, <2>2 DEF V!GiveBack, V!Release
<1>4. CASE V!Fails(r) BY <1>1, <1>2, <1>3, <1>4, FailsIs, OneView
<1>5. CASE /\ view' = [view EXCEPT ![r].pic = pic, ![r].at = next]
           /\ poisoned' = IF pic # view[r].ver
                            THEN poisoned \cup {<<view[r].path, view[r].ver>>} ELSE poisoned
  <2>1. PICK q : q = [view[r] EXCEPT !.pic = pic, !.at = next] OBVIOUS
  <2>2. pic \in Nat BY Numbers
  <2>3. /\ q \in ViewRecs /\ q.at = next /\ q.path = view[r].path /\ q.ver = view[r].ver /\ q.pic = pic
        /\ q.seen = view[r].seen
    BY <2>1, <2>2, ViewIs DEF ViewRecs, Pictures
  <2>4. view' = [view EXCEPT ![r] = q] BY <1>5, <2>1, ViewIs
  <2>5. Looked(view[r]) /\ view[r].at \in Looking BY ViewIs DEF Looking
  <2>6. Looked(q) BY <2>3, <2>5 DEF Looked
  <2>7. Right(q.path, q.ver, q.pic)' BY <1>5, <2>3 DEF Right
  <2>8. q.at # "served" BY <2>3
  <2> QED BY <1>1, <1>2, <1>3, <2>3, <2>4, <2>6, <2>7, <2>8, OneView
<1> QED BY <1>4, <1>5 DEF V!Generates

\* What a generator reads: the file as it is by now, or what came with the request.
LEMMA WorkReads ==
  ASSUME V!PreviewsAssumption, ViewInv, NEW r \in Viewers, V!Work(r)
  PROVE  \E pic \in V!Contents \cup {V!None}, next \in {"resize", "store"} :
           V!Generates(r, pic, next) /\ (kind[view[r].path] = "audio" => pic = view[r].ver)
<1>1. view[r].at = "work" BY DEF V!Work
<1>2. view[r].path \in Names /\ view[r].ver \in V!Contents BY <1>1, ViewIs DEF Looked, Looking
<1>3. pics[view[r].path] \in V!Contents \cup {V!None} BY <1>2 DEF ViewInv, ViewType
<1> DEFINE p == view[r].path
<1>4. CASE V!GenerateImageFromDoc(r, p) BY <1>3, <1>4 DEF V!GenerateImageFromDoc
<1>5. CASE V!GenerateOfficePreview(r, p) BY <1>3, <1>5 DEF V!GenerateOfficePreview
<1>6. CASE V!GenerateVideoPreview(r, p) BY <1>3, <1>6 DEF V!GenerateVideoPreview
<1>7. CASE V!ConvertHEIC(r, p) BY <1>3, <1>7 DEF V!ConvertHEIC
<1>8. CASE V!ReadImage(r, p) BY <1>3, <1>8 DEF V!ReadImage
<1>9. CASE V!AlbumArt(r, p) BY <1>2, <1>9 DEF V!AlbumArt
<1> QED BY <1>4, <1>5, <1>6, <1>7, <1>8, <1>9 DEF V!Work

LEMMA WorkStep ==
  ASSUME V!PreviewsAssumption, ViewInv, NEW r \in Viewers, V!Work(r)
  PROVE  ViewInv'
<1>1. view[r].at = "work" /\ UNCHANGED <<kind, pics, came, cache, change>> BY DEF V!Work
<1>2. PICK pic \in V!Contents \cup {V!None}, next \in {"resize", "store"} :
        V!Generates(r, pic, next) /\ (kind[view[r].path] = "audio" => pic = view[r].ver)
  BY WorkReads
<1> QED BY <1>1, <1>2, GeneratesStep

LEMMA ResizeStep ==
  ASSUME V!PreviewsAssumption, ViewInv, NEW r \in Viewers, V!StartResize(r) \/ V!Resize(r)
  PROVE  ViewInv'
<1>1. /\ UNCHANGED <<kind, pics, came, cache, change, poisoned>>
      /\ CacheRight' /\ cache' \in [V!CacheKeys -> Pictures]
  <2>1. UNCHANGED <<kind, pics, came, cache, change, poisoned>> BY DEF V!StartResize, V!Resize
  <2> QED BY <2>1, CacheKept
<1>2. slots' \in [V!Kinds -> Int]
  BY DEF V!StartResize, V!Resize, V!Take, V!Release, ViewInv, ViewType
<1>3. view[r].at \in {"resize", "resizing"} /\ view[r].at \in Looking BY DEF V!StartResize, V!Resize, Looking
<1>4. Right(view[r].path, view[r].ver, view[r].pic) BY <1>3, ViewIs DEF Shown
<1>5. CASE V!Fails(r) BY <1>1, <1>2, <1>5, FailsIs, OneView
<1>6. ASSUME NEW at \in {"resizing", "store"}, V!Steps(r, at) PROVE ViewInv'
  <2>1. PICK q \in ViewRecs :
           /\ view' = [view EXCEPT ![r] = q] /\ q.at = at /\ Looked(q)
           /\ q.path = view[r].path /\ q.ver = view[r].ver /\ q.size = view[r].size /\ q.pic = view[r].pic
    BY <1>3, <1>6, StepsIs DEF Looking
  <2>2. Right(q.path, q.ver, q.pic)' BY <1>1, <1>4, <2>1 DEF Right
  <2>3. q.at # "served" BY <2>1
  <2> QED BY <1>1, <1>2, <2>1, <2>2, <2>3, OneView
<1> QED BY <1>5, <1>6 DEF V!StartResize, V!Resize

\* A picture is kept under the key of what was asked for.
LEMMA CachePut ==
  ASSUME V!PreviewsAssumption, ViewInv, NEW r \in Viewers, view[r].at \in Looking, NEW pic \in Nat,
         pic = V!Empty \/ Right(view[r].path, view[r].ver, pic),
         cache' = [cache EXCEPT ![V!KeyOf(r)] = pic], UNCHANGED <<kind, poisoned>>
  PROVE  CacheRight' /\ cache' \in [V!CacheKeys -> Pictures]
<1>1. cache \in [V!CacheKeys -> Pictures] BY DEF ViewInv, ViewType
<1>2. view[r].path \in Names /\ view[r].ver \in V!Contents BY ViewIs DEF Looked
<1>3. V!KeyOf(r) = V!CacheKey(view[r].path, view[r].ver, view[r].size) BY DEF V!KeyOf
<1>4. ASSUME NEW p \in Names, NEW v \in V!Contents, NEW s \in V!PreviewSizes
      PROVE  cache'[V!CacheKey(p, v, s)] \in {V!None, V!Empty} \/ Right(p, v, cache'[V!CacheKey(p, v, s)])
  <2>1. V!CacheKey(p, v, s) \in V!CacheKeys BY DEF V!CacheKey, V!CacheKeys
  <2>2. CASE V!CacheKey(p, v, s) = V!KeyOf(r)
    <3>1. cache'[V!CacheKey(p, v, s)] = pic BY <1>1, <2>1, <2>2
    <3>2. v = view[r].ver /\ (p = view[r].path \/ (kind[p] = "audio" /\ kind[view[r].path] = "audio"))
      <4>1. V!None \notin Names BY Numbers
      <4> QED BY <1>2, <1>3, <2>2, <4>1 DEF V!CacheKey
    <3> QED BY <3>1, <3>2 DEF Right
  <2>3. CASE V!CacheKey(p, v, s) # V!KeyOf(r)
    <3>1. cache'[V!CacheKey(p, v, s)] = cache[V!CacheKey(p, v, s)] BY <1>1, <2>1, <2>3
    <3> QED BY <3>1 DEF ViewInv, CacheRight
  <2> QED BY <2>2, <2>3
<1>5. CacheRight' BY <1>4 DEF CacheRight, Right, V!CacheKey
<1> QED BY <1>1, <1>5 DEF Pictures

LEMMA StoreStep ==
  ASSUME V!PreviewsAssumption, ViewInv, NEW r \in Viewers, V!Store(r) \/ V!Write(r)
  PROVE  ViewInv'
<1>1. UNCHANGED <<kind, pics, came, slots, change, poisoned>> BY DEF V!Store, V!Write
<1>2. view[r].at \in {"store", "write"} /\ view[r].at \in Looking BY DEF V!Store, V!Write, Looking
<1>3. Right(view[r].path, view[r].ver, view[r].pic) /\ view[r].pic \in Nat
  BY <1>2, ViewIs DEF Shown, ViewRecs, Pictures
<1>4. slots' \in [V!Kinds -> Int] BY <1>1 DEF ViewInv, ViewType
<1>5. CASE V!Store(r)
  <2>1. cache' = [cache EXCEPT ![V!KeyOf(r)] = V!Empty] /\ V!Steps(r, "write") BY <1>5 DEF V!Store
  <2>2. CacheRight' /\ cache' \in [V!CacheKeys -> Pictures] BY <1>1, <1>2, <2>1, Numbers, CachePut
  <2>3. PICK q \in ViewRecs :
           /\ view' = [view EXCEPT ![r] = q] /\ q.at = "write" /\ Looked(q)
           /\ q.path = view[r].path /\ q.ver = view[r].ver /\ q.size = view[r].size /\ q.pic = view[r].pic
    BY <1>2, <2>1, StepsIs DEF Looking
  <2>4. Right(q.path, q.ver, q.pic)' BY <1>1, <1>3, <2>3 DEF Right
  <2>5. q.at # "served" BY <2>3
  <2> QED BY <1>1, <1>4, <2>2, <2>3, <2>4, <2>5, OneView
<1>6. CASE V!Write(r)
  <2>1. V!Succeeds(r, view[r].pic) BY <1>6 DEF V!Write
  <2>2. CacheRight' /\ cache' \in [V!CacheKeys -> Pictures]
    <3>1. CASE cache' = [cache EXCEPT ![V!KeyOf(r)] = view[r].pic] BY <1>1, <1>2, <1>3, <3>1, CachePut
    <3>2. CASE UNCHANGED cache BY <1>1, <3>2, CacheKept
    <3> QED BY <1>6, <3>1, <3>2 DEF V!Write
  <2>3. PICK q \in ViewRecs :
           /\ view' = [view EXCEPT ![r] = q] /\ q.at \in {"load", "served"} /\ Looked(q)
           /\ q.at = "served" => q.path = view[r].path /\ q.ver = view[r].ver /\ q.pic = view[r].pic
    BY <1>2, <1>3, <2>1, SucceedsIs
  <2>4. q.at = "served" => Right(q.path, q.ver, q.pic)' BY <1>1, <1>3, <2>3 DEF Right
  <2> QED BY <1>1, <1>4, <2>2, <2>3, <2>4, OneView
<1> QED BY <1>5, <1>6

LEMMA CancelStep ==
  ASSUME V!PreviewsAssumption, ViewInv, NEW r \in Viewers, V!Cancel(r)
  PROVE  ViewInv'
<1>1. /\ UNCHANGED <<kind, pics, came, cache, slots, change, poisoned>> /\ view[r].at # "served"
      /\ view' = [view EXCEPT ![r].gone = TRUE]
  BY DEF V!Cancel
<1>2. CacheRight' /\ cache' \in [V!CacheKeys -> Pictures] BY <1>1, CacheKept
<1>3. slots' \in [V!Kinds -> Int] BY <1>1 DEF ViewInv, ViewType
<1>4. PICK q : q = [view[r] EXCEPT !.gone = TRUE] OBVIOUS
<1>5. /\ q \in ViewRecs /\ q.at = view[r].at /\ q.path = view[r].path /\ q.ver = view[r].ver /\ q.seen = view[r].seen
      /\ q.pic = view[r].pic
  BY <1>4, ViewIs DEF ViewRecs
<1>6. view' = [view EXCEPT ![r] = q] BY <1>1, <1>4, ViewIs
<1>7. Looked(q) BY <1>5, ViewIs DEF Looked
<1>8. q.at \in {"resize", "resizing", "store", "write"} => Right(q.path, q.ver, q.pic)'
  BY <1>1, <1>5, ViewIs DEF Shown, Right
<1>9. q.at # "served" BY <1>1, <1>5
<1> QED BY <1>1, <1>2, <1>3, <1>5, <1>6, <1>7, <1>8, <1>9, OneView

-----------------------------------------------------------------------------
(* Files change, and the server starts again                                   *)

LEMMA ChangeField ==
  ASSUME change' = [change EXCEPT !.at = "deleted"]
  PROVE  change'.path = change.path /\ change'.what = change.what
OBVIOUS

LEMMA LookViewStep ==
  ASSUME V!PreviewsAssumption, ViewInv,
         V!DelThumbs \/ \E p \in Names, what \in {"overwrite", "delete", "move"} : V!Look(p, what)
  PROVE  ViewInv'
<1>1. UNCHANGED <<kind, pics, came, slots, view, poisoned>> BY DEF V!DelThumbs, V!Look
<1>2. cache' \in [V!CacheKeys -> Pictures] /\ CacheRight'
  <2>1. CASE UNCHANGED cache BY <1>1, <2>1, CacheKept
  <2>2. ASSUME NEW k, cache' = [cache EXCEPT ![k] = V!None] PROVE cache' \in [V!CacheKeys -> Pictures] /\ CacheRight'
    <3>1. cache \in [V!CacheKeys -> Pictures] BY DEF ViewInv, ViewType
    <3>2. cache' \in [V!CacheKeys -> Pictures] BY <2>2, <3>1, NoneIs DEF Pictures
    <3>3. ASSUME NEW p \in Names, NEW v \in V!Contents, NEW s \in V!PreviewSizes
          PROVE  cache'[V!CacheKey(p, v, s)] \in {V!None, cache[V!CacheKey(p, v, s)]}
      <4>1. V!CacheKey(p, v, s) \in V!CacheKeys BY DEF V!CacheKey, V!CacheKeys
      <4> QED BY <2>2, <3>1, <4>1
    <3>4. ASSUME NEW p \in Names, NEW v \in V!Contents, NEW s \in V!PreviewSizes
          PROVE  (cache[V!CacheKey(p, v, s)] \in {V!None, V!Empty} \/ Right(p, v, cache[V!CacheKey(p, v, s)]))'
      <4>1. V!CacheKey(p, v, s)' = V!CacheKey(p, v, s) BY <1>1 DEF V!CacheKey
      <4>2. PICK old : old = cache[V!CacheKey(p, v, s)] OBVIOUS
      <4>3. PICK new : new = cache'[V!CacheKey(p, v, s)] OBVIOUS
      <4>4. old \in {V!None, V!Empty} \/ Right(p, v, old) BY <4>2 DEF ViewInv, CacheRight
      <4>5. new \in {V!None, old} BY <3>3, <4>2, <4>3
      <4>6. new \in {V!None, V!Empty} \/ Right(p, v, new)' BY <1>1, <4>4, <4>5 DEF Right
      <4> QED BY <4>1, <4>3, <4>6 DEF Right
    <3>5. CacheRight' BY <3>4 DEF CacheRight
    <3> QED BY <3>2, <3>5
  <2> QED BY <2>1, <2>2 DEF V!DelThumbs, V!Look
<1>3. change'.at # "idle" => change'.path \in Names /\ (change'.what = "overwrite" => came < MaxContent)
  <2>1. CASE V!DelThumbs
    <3>1. change.at = "looked" /\ change' = [change EXCEPT !.at = "deleted"] BY <2>1 DEF V!DelThumbs
    <3>2. change.path \in Names /\ (change.what = "overwrite" => came < MaxContent)
      BY <3>1 DEF ViewInv, ViewType
    <3>3. change'.path = change.path /\ change'.what = change.what BY <3>1, ChangeField
    <3> QED BY <3>2, <3>3
  <2>2. ASSUME NEW p \in Names, NEW what \in {"overwrite", "delete", "move"}, V!Look(p, what)
        PROVE  change'.path \in Names /\ (change'.what = "overwrite" => came < MaxContent)
    BY <2>2 DEF V!Look
  <2> QED BY <2>1, <2>2
<1>4. ViewType' BY <1>1, <1>2, <1>3 DEF ViewInv, ViewType
<1>5. \A r \in Viewers : (Looked(view[r]) /\ Shown(view[r]))' BY <1>1 DEF ViewInv, Looked, Shown, Right
<1> QED BY <1>2, <1>4, <1>5 DEF ViewInv

\* What a path becomes, everybody who is at work for it has seen.
LEMMA BecomesStep ==
  ASSUME V!PreviewsAssumption, ViewInv, NEW f \in [Names -> V!Contents \cup {V!None}], V!Becomes(f),
         came' \in Nat, change'.at = "idle", UNCHANGED <<kind, cache, slots, poisoned>>
  PROVE  ViewInv'
<1>1. view' = [r \in Viewers |->
       IF view[r].path # V!None THEN [view[r] EXCEPT !.seen = @ \cup {f[view[r].path]}] ELSE view[r]]
  BY DEF V!Becomes
<1>2. ASSUME NEW r \in Viewers
      PROVE  /\ view'[r] \in ViewRecs /\ view'[r].at = view[r].at /\ view'[r].path = view[r].path
             /\ view'[r].ver = view[r].ver /\ view'[r].pic = view[r].pic /\ view[r].seen \subseteq view'[r].seen
  <2>1. view[r] \in ViewRecs BY ViewIs
  <2>2. CASE view[r].path # V!None
    <3>1. view[r].path \in Names BY <2>1, <2>2 DEF ViewRecs
    <3>2. PICK c \in Nat : c = f[view[r].path] BY <3>1, Numbers, NoneIs
    <3>3. view'[r] = [view[r] EXCEPT !.seen = @ \cup {c}] BY <1>1, <2>2, <3>2
    <3> QED BY <2>1, <3>2, <3>3 DEF ViewRecs
  <2>3. CASE view[r].path = V!None BY <1>1, <2>1, <2>3
  <2> QED BY <2>2, <2>3
<1>3. CacheRight' /\ cache' \in [V!CacheKeys -> Pictures] BY CacheKept
<1>4. pics' = f BY DEF V!Becomes
<1>5. view' \in [Viewers -> ViewRecs] BY <1>1, <1>2
<1>6. ViewType' BY <1>3, <1>4, <1>5 DEF ViewInv, ViewType
<1>7. ASSUME NEW r \in Viewers PROVE (Looked(view[r]) /\ Shown(view[r]))'
  <2>1. Looked(view[r]) /\ Shown(view[r]) BY ViewIs
  <2> QED BY <1>2, <2>1 DEF Looked, Shown, Right
<1> QED BY <1>3, <1>6, <1>7 DEF ViewInv

LEMMA ApplyStep ==
  ASSUME V!PreviewsAssumption, ViewInv, V!Apply
  PROVE  ViewInv'
<1> DEFINE p == change.path
<1>1. /\ change.at = "deleted" /\ change' = V!Resting /\ UNCHANGED <<kind, cache, slots, poisoned>>
  BY DEF V!Apply
<1>2. change'.at = "idle" BY <1>1 DEF V!Resting
<1>3. p \in Names /\ (change.what = "overwrite" => came < MaxContent) BY <1>1 DEF ViewInv, ViewType
<1>4. pics \in [Names -> V!Contents \cup {V!None}] /\ came \in Nat BY DEF ViewInv, ViewType
<1>5. CASE /\ change.what = "overwrite" /\ came' = came + 1
           /\ V!Becomes([pics EXCEPT ![p] = came + 1])
  <2>1. came + 1 \in V!Contents BY <1>3, <1>4, <1>5, Numbers
  <2>2. [pics EXCEPT ![p] = came + 1] \in [Names -> V!Contents \cup {V!None}] BY <1>4, <2>1
  <2>3. came' \in Nat BY <1>4, <1>5
  <2> QED BY <1>1, <1>2, <1>5, <2>2, <2>3, BecomesStep
<1>6. CASE V!Becomes([pics EXCEPT ![p] = V!None]) /\ UNCHANGED came
  <2>1. [pics EXCEPT ![p] = V!None] \in [Names -> V!Contents \cup {V!None}] BY <1>4
  <2>2. came' \in Nat BY <1>4, <1>6
  <2> QED BY <1>1, <1>2, <1>6, <2>1, <2>2, BecomesStep
<1>7. ASSUME NEW q \in Names, V!Becomes([pics EXCEPT ![q] = pics[p], ![p] = V!None]), UNCHANGED came PROVE ViewInv'
  <2>1. [pics EXCEPT ![q] = pics[p], ![p] = V!None] \in [Names -> V!Contents \cup {V!None}] BY <1>3, <1>4
  <2>2. came' \in Nat BY <1>4, <1>7
  <2> QED BY <1>1, <1>2, <1>7, <2>1, <2>2, BecomesStep
<1>8. CASE UNCHANGED <<pics, came, view>>
  <2>1. CacheRight' /\ cache' \in [V!CacheKeys -> Pictures] BY <1>1, CacheKept
  <2>2. ViewType' BY <1>1, <1>2, <1>8 DEF ViewInv, ViewType
  <2>3. \A r \in Viewers : (Looked(view[r]) /\ Shown(view[r]))' BY <1>1, <1>8 DEF ViewInv, Looked, Shown, Right
  <2> QED BY <2>1, <2>2, <2>3 DEF ViewInv
<1> QED BY <1>5, <1>6, <1>7, <1>8 DEF V!Apply

LEMMA RestartStep ==
  ASSUME V!PreviewsAssumption, ViewInv, V!Restart
  PROVE  ViewInv'
<1>1. /\ view' = [r \in Viewers |->
            IF view[r].at \in {"idle", "served", "failed"} THEN view[r] ELSE [V!Nobody EXCEPT !.at = "failed"]]
      /\ slots' = [k \in V!Kinds |-> 0] /\ change' = V!Resting /\ UNCHANGED <<kind, pics, came, cache, poisoned>>
  BY DEF V!Restart
<1>2. ASSUME NEW r \in Viewers PROVE view'[r] \in ViewRecs /\ (Looked(view[r]) /\ Shown(view[r]))'
  <2>1. CASE view[r].at \in {"idle", "served", "failed"}
    <3>1. view'[r] = view[r] BY <1>1, <2>1
    <3>2. view[r] \in ViewRecs /\ Looked(view[r]) /\ Shown(view[r]) BY ViewIs
    <3>3. Looked(view[r])' BY <3>1, <3>2 DEF Looked
    <3>4. Shown(view[r])' BY <1>1, <3>1, <3>2 DEF Shown, Right
    <3> QED BY <3>1, <3>2, <3>3, <3>4
  <2>2. CASE view[r].at \notin {"idle", "served", "failed"}
    <3>1. view'[r] \in ViewRecs /\ view'[r].at = "failed" BY <1>1, <2>2, NobodyIs
    <3> QED BY <3>1 DEF Looked, Shown, Looking
  <2> QED BY <2>1, <2>2
<1>3. view' \in [Viewers -> ViewRecs] BY <1>1, <1>2
<1>4. CacheRight' /\ cache' \in [V!CacheKeys -> Pictures] BY <1>1, CacheKept
<1>5. slots' \in [V!Kinds -> Int] /\ change'.at = "idle" BY <1>1 DEF V!Resting
<1>6. ViewType' BY <1>1, <1>3, <1>4, <1>5 DEF ViewInv, ViewType
<1> QED BY <1>2, <1>4, <1>6 DEF ViewInv

LEMMA ServeStep ==
  ASSUME V!PreviewsAssumption, ViewInv, NEW r \in Viewers, V!Serve(r)
  PROVE  ViewInv'
BY AskViewStep, LoadStep, AcquireStep, WorkStep, ResizeStep, StoreStep, CancelStep DEF V!Serve

LEMMA ViewStep ==
  ASSUME V!PreviewsAssumption, ViewInv, [V!Next]_V!vars
  PROVE  ViewInv'
<1>1. CASE UNCHANGED V!vars
  <2>1. UNCHANGED <<kind, pics, came, cache, slots, view, change, poisoned>> BY <1>1 DEF V!vars
  <2>2. ViewType' BY <2>1 DEF ViewInv, ViewType
  <2>3. CacheRight' BY <2>1, CacheKept
  <2>4. \A r \in Viewers : (Looked(view[r]) /\ Shown(view[r]))' BY <2>1 DEF ViewInv, Looked, Shown, Right
  <2> QED BY <2>2, <2>3, <2>4 DEF ViewInv
<1>2. CASE V!Next
  BY <1>2, ServeStep, LookViewStep, ApplyStep, RestartStep DEF V!Next
<1> QED BY <1>1, <1>2

-----------------------------------------------------------------------------
(* The slots                                                                   *)

Holders(k) == {r \in Viewers : V!Holds(r, k)}

SlotInv ==
  /\ slots \in [V!Kinds -> Int]
  /\ \A k \in V!Kinds : slots[k] = Cardinality(Holders(k)) /\ slots[k] <= V!Capacity[k]

LEMMA HoldersFinite == ASSUME V!PreviewsAssumption, NEW k PROVE IsFiniteSet(Holders(k)) /\ Cardinality(Holders(k)) \in Nat
<1>1. IsFiniteSet(Viewers) BY SameFinite DEF V!PreviewsAssumption
<1>2. IsFiniteSet(Holders(k)) BY <1>1, FS_Subset DEF Holders
<1> QED BY <1>2, FS_CardinalityType

LEMMA CapacityIs == ASSUME V!PreviewsAssumption, NEW k \in V!Kinds PROVE V!Capacity[k] \in Nat
<1>1. V!Capacity[k] = CASE k = "doc" -> 1 [] k = "video" -> (Limit + 1) \div 2 [] OTHER -> Limit
  BY DEF V!Capacity
<1>2. Limit \in Nat BY DEF V!PreviewsAssumption
<1>3. (Limit + 1) \div 2 \in Nat BY <1>2
<1> QED BY <1>1, <1>2, <1>3

\* Nobody takes a slot or gives one back.
LEMMA SlotsKept ==
  ASSUME SlotInv, UNCHANGED slots,
         \A r \in Viewers : \A k \in V!Kinds : V!Holds(r, k)' <=> V!Holds(r, k)
  PROVE  SlotInv'
<1>1. \A k \in V!Kinds : Holders(k)' = Holders(k) BY DEF Holders
<1> QED BY <1>1 DEF SlotInv, V!Kinds, V!Capacity

\* One request gets on.
LEMMA OthersHold ==
  ASSUME ViewInv, NEW r \in Viewers, NEW q, view' = [view EXCEPT ![r] = q], UNCHANGED kind
  PROVE  /\ view'[r] = q
         /\ \A w \in Viewers \ {r} : \A k \in V!Kinds : V!Holds(w, k)' <=> V!Holds(w, k)
<1>1. view'[r] = q /\ \A w \in Viewers \ {r} : view'[w] = view[w] BY ViewIs
<1> QED BY <1>1 DEF V!Holds, V!SlotOf

LEMMA SlotTaken ==
  ASSUME V!PreviewsAssumption, SlotInv, NEW r \in Viewers, NEW k \in V!Kinds, V!Take(k),
         \A w \in Viewers \ {r} : \A j \in V!Kinds : V!Holds(w, j)' <=> V!Holds(w, j),
         \A j \in V!Kinds : ~V!Holds(r, j), \A j \in V!Kinds : V!Holds(r, j)' <=> j = k
  PROVE  SlotInv'
<1>1. slots[k] < V!Capacity[k] /\ slots' = [slots EXCEPT ![k] = @ + 1] BY DEF V!Take
<1>2. slots' \in [V!Kinds -> Int] BY <1>1 DEF SlotInv
<1>3. ASSUME NEW j \in V!Kinds PROVE slots'[j] = Cardinality(Holders(j))' /\ slots'[j] <= V!Capacity[j]
  <2>1. CASE j = k
    <3>1. Holders(k)' = Holders(k) \cup {r} /\ r \notin Holders(k) BY DEF Holders
    <3>2. Cardinality(Holders(k))' = Cardinality(Holders(k)) + 1 BY <3>1, HoldersFinite, FS_AddElement
    <3>3. slots'[k] = slots[k] + 1 /\ slots[k] \in Int /\ slots[k] = Cardinality(Holders(k)) BY <1>1 DEF SlotInv
    <3>4. V!Capacity[k] \in Nat BY CapacityIs
    <3> QED BY <1>1, <2>1, <3>2, <3>3, <3>4
  <2>2. CASE j # k
    <3>1. Holders(j)' = Holders(j) BY <2>2 DEF Holders
    <3>2. slots'[j] = slots[j] BY <1>1, <2>2 DEF SlotInv
    <3> QED BY <3>1, <3>2 DEF SlotInv
  <2> QED BY <2>1, <2>2
<1> QED BY <1>2, <1>3 DEF SlotInv, V!Capacity, V!Kinds

LEMMA SlotGiven ==
  ASSUME V!PreviewsAssumption, SlotInv, NEW r \in Viewers, NEW k \in V!Kinds, V!Release(k),
         \A w \in Viewers \ {r} : \A j \in V!Kinds : V!Holds(w, j)' <=> V!Holds(w, j),
         \A j \in V!Kinds : V!Holds(r, j) <=> j = k, \A j \in V!Kinds : ~V!Holds(r, j)'
  PROVE  SlotInv'
<1>1. slots' = [slots EXCEPT ![k] = @ - 1] BY DEF V!Release
<1>2. slots' \in [V!Kinds -> Int] BY <1>1 DEF SlotInv
<1>3. ASSUME NEW j \in V!Kinds PROVE slots'[j] = Cardinality(Holders(j))' /\ slots'[j] <= V!Capacity[j]
  <2>1. CASE j = k
    <3>1. Holders(k)' = Holders(k) \ {r} /\ r \in Holders(k) BY DEF Holders
    <3>2. Cardinality(Holders(k))' = Cardinality(Holders(k)) - 1 BY <3>1, HoldersFinite, FS_RemoveElement
    <3>3. slots'[k] = slots[k] - 1 /\ slots[k] \in Int /\ slots[k] = Cardinality(Holders(k))
          /\ slots[k] <= V!Capacity[k]
      BY <1>1 DEF SlotInv
    <3>4. V!Capacity[k] \in Nat BY CapacityIs
    <3> QED BY <2>1, <3>2, <3>3, <3>4
  <2>2. CASE j # k
    <3>1. Holders(j)' = Holders(j) BY <2>2 DEF Holders
    <3>2. slots'[j] = slots[j] BY <1>1, <2>2 DEF SlotInv
    <3> QED BY <3>1, <3>2 DEF SlotInv
  <2> QED BY <2>1, <2>2
<1> QED BY <1>2, <1>3 DEF SlotInv, V!Capacity, V!Kinds

LEMMA SlotInit == ASSUME V!PreviewsAssumption, V!Init PROVE SlotInv
<1>1. \A r \in Viewers : view[r].at = "idle" BY NobodyIs DEF V!Init
<1>2. \A k \in V!Kinds : Holders(k) = {} BY <1>1 DEF Holders, V!Holds
<1>3. \A k \in V!Kinds : slots[k] = 0 BY DEF V!Init
<1>4. slots \in [V!Kinds -> Int] BY DEF V!Init
<1> QED BY <1>2, <1>3, <1>4, CapacityIs, FS_EmptySet DEF SlotInv

\* A request that neither holds a slot nor gets one.
LEMMA NoSlotStep ==
  ASSUME ViewInv, SlotInv, NEW r \in Viewers, NEW q, view' = [view EXCEPT ![r] = q], UNCHANGED <<kind, slots>>,
         \A k \in V!Kinds : ~V!Holds(r, k), q.at \notin {"work", "resizing"}
  PROVE  SlotInv'
<1>1. /\ view'[r] = q
      /\ \A w \in Viewers \ {r} : \A k \in V!Kinds : V!Holds(w, k)' <=> V!Holds(w, k)
  BY OthersHold
<1>2. \A k \in V!Kinds : ~V!Holds(r, k) /\ ~V!Holds(r, k)' BY <1>1 DEF V!Holds
<1>3. \A w \in Viewers : \A k \in V!Kinds : V!Holds(w, k)' <=> V!Holds(w, k) BY <1>1, <1>2
<1> QED BY <1>3, SlotsKept

LEMMA HoldsNone ==
  ASSUME NEW r \in Viewers, view[r].at \notin {"work", "resizing"}
  PROVE  \A k \in V!Kinds : ~V!Holds(r, k)
BY DEF V!Holds

LEMMA SlotOfIs ==
  ASSUME ViewInv, NEW r \in Viewers, view[r].at \in Looking
  PROVE  V!SlotOf(r) \in V!Kinds \cup {"none"}
<1>1. view[r].path \in Names BY ViewIs DEF Looked
<1> QED BY <1>1 DEF ViewInv, ViewType, V!SlotOf, V!Kinds

\* The generator returns.
LEMMA GiveBackStep ==
  ASSUME V!PreviewsAssumption, ViewInv, SlotInv, NEW r \in Viewers, view[r].at = "work", V!GiveBack(r), UNCHANGED kind,
         NEW q, view' = [view EXCEPT ![r] = q], q.at \notin {"work", "resizing"}
  PROVE  SlotInv'
<1>1. V!SlotOf(r) \in V!Kinds \cup {"none"} BY SlotOfIs DEF Looking
<1>2. CASE V!SlotOf(r) = "none"
  <2>1. \A k \in V!Kinds : ~V!Holds(r, k) BY <1>2 DEF V!Holds, V!Kinds
  <2>2. UNCHANGED slots BY <1>2 DEF V!GiveBack
  <2> QED BY <2>1, <2>2, NoSlotStep
<1>3. CASE V!SlotOf(r) # "none"
  <2>1. V!SlotOf(r) \in V!Kinds /\ V!Release(V!SlotOf(r)) BY <1>1, <1>3 DEF V!GiveBack
  <2>2. /\ view'[r] = q
        /\ \A w \in Viewers \ {r} : \A k \in V!Kinds : V!Holds(w, k)' <=> V!Holds(w, k)
    BY OthersHold
  <2>3. \A k \in V!Kinds : V!Holds(r, k) <=> k = V!SlotOf(r) BY DEF V!Holds
  <2>4. \A k \in V!Kinds : ~V!Holds(r, k)' BY <2>2 DEF V!Holds
  <2>5. PICK k \in V!Kinds : k = V!SlotOf(r) BY <2>1
  <2>6. V!Release(k) /\ \A j \in V!Kinds : V!Holds(r, j) <=> j = k BY <2>1, <2>3, <2>5
  <2> QED BY <2>2, <2>4, <2>6, SlotGiven
<1> QED BY <1>2, <1>3

LEMMA AskSlots ==
  ASSUME V!PreviewsAssumption, ViewInv, SlotInv, NEW r \in Viewers,
         (\E p \in Names, s \in V!PreviewSizes : V!AskFile(r, p, s)) \/ (\E s \in V!PreviewSizes : V!AskFolder(r, s)) \/ V!Probe(r)
  PROVE  SlotInv'
<1>1. UNCHANGED <<kind, slots>> /\ view[r].at \in {"idle", "probe"} BY DEF V!AskFile, V!AskFolder, V!Probe
<1>2. \A k \in V!Kinds : ~V!Holds(r, k) BY <1>1, HoldsNone
<1>3. ASSUME NEW q, view' = [view EXCEPT ![r] = q], q.at \in {"load", "probe", "failed"} PROVE SlotInv'
  BY <1>1, <1>2, <1>3, NoSlotStep
<1>4. view[r] \in ViewRecs BY ViewIs
<1>5. ASSUME NEW p, NEW s, V!Stat(r, p, s) PROVE SlotInv'
  <2>1. PICK q : q = [view[r] EXCEPT !.at = "load", !.path = p, !.size = s, !.ver = pics[p], !.seen = {pics[p]}]
    OBVIOUS
  <2>2. q.at = "load" BY <1>4, <2>1 DEF ViewRecs
  <2>3. view' = [view EXCEPT ![r] = q] BY <1>5, <2>1, ViewIs DEF V!Stat
  <2> QED BY <1>3, <2>2, <2>3
<1>6. CASE \E p \in Names, s \in V!PreviewSizes : V!AskFile(r, p, s) BY <1>5, <1>6 DEF V!AskFile
<1>7. CASE \E s \in V!PreviewSizes : V!AskFolder(r, s)
  <2>1. PICK s \in V!PreviewSizes : view' = [view EXCEPT ![r].at = "probe", ![r].left = Names, ![r].want = s]
    BY <1>7 DEF V!AskFolder
  <2>2. PICK q : q = [view[r] EXCEPT !.at = "probe", !.left = Names, !.want = s] OBVIOUS
  <2>3. q.at = "probe" BY <1>4, <2>2 DEF ViewRecs
  <2>4. view' = [view EXCEPT ![r] = q] BY <2>1, <2>2, ViewIs
  <2> QED BY <1>3, <2>3, <2>4
<1>8. CASE V!Probe(r)
  <2>1. CASE view[r].left = {}
    <3>1. view' = [view EXCEPT ![r] = [V!Nobody EXCEPT !.at = "failed"]] BY <1>8, <2>1 DEF V!Probe
    <3> QED BY <1>3, <3>1, NobodyIs
  <2>2. ASSUME NEW p, view' = [view EXCEPT ![r].left = @ \ {p}] PROVE SlotInv'
    <3>1. PICK q : q = [view[r] EXCEPT !.left = @ \ {p}] OBVIOUS
    <3>2. q.at = "probe" BY <1>4, <1>8, <3>1 DEF ViewRecs, V!Probe
    <3>3. view' = [view EXCEPT ![r] = q] BY <2>2, <3>1, ViewIs
    <3> QED BY <1>3, <3>2, <3>3
  <2> QED BY <1>5, <1>8, <2>1, <2>2 DEF V!Probe
<1> QED BY <1>6, <1>7, <1>8

\* Load, Store, Write: a picture is looked for, or stored.
LEMMA KeepSlots ==
  ASSUME V!PreviewsAssumption, ViewInv, SlotInv, NEW r \in Viewers, V!Load(r) \/ V!Store(r) \/ V!Write(r)
  PROVE  SlotInv'
<1>1. UNCHANGED slots /\ UNCHANGED kind /\ view[r].at \in {"load", "store", "write"} /\ view[r].at \in Looking
  BY DEF V!Load, V!Store, V!Write, Looking
<1>2. \A k \in V!Kinds : ~V!Holds(r, k) BY <1>1, HoldsNone
<1>3. CASE V!Fails(r)
  <2>1. PICK q \in ViewRecs : view' = [view EXCEPT ![r] = q] /\ q.at \in {"probe", "failed"} BY <1>3, FailsIs
  <2> QED BY <1>1, <1>2, <2>1, NoSlotStep
<1>4. ASSUME NEW pic \in Nat, V!Succeeds(r, pic) PROVE SlotInv'
  <2>1. PICK q \in ViewRecs : view' = [view EXCEPT ![r] = q] /\ q.at \in {"load", "served"}
    BY <1>1, <1>4, SucceedsIs
  <2> QED BY <1>1, <1>2, <2>1, NoSlotStep
<1>5. CASE V!Load(r) /\ ~V!Fails(r)
  <2>1. CASE cache[V!KeyOf(r)] # V!None /\ V!Succeeds(r, cache[V!KeyOf(r)])
    <3>1. cache[V!KeyOf(r)] \in Nat BY <1>1, <2>1, CacheHit
    <3> QED BY <1>4, <2>1, <3>1
  <2>2. CASE V!Steps(r, "acquire")
    <3>1. PICK q \in ViewRecs : view' = [view EXCEPT ![r] = q] /\ q.at = "acquire" BY <1>1, <2>2, StepsIs DEF Looking
    <3> QED BY <1>1, <1>2, <3>1, NoSlotStep
  <2>3. CASE V!SlotOf(r) = "none" /\ V!Steps(r, "work")
    <3>1. PICK q \in ViewRecs : view' = [view EXCEPT ![r] = q] /\ q.at = "work" /\ q.path = view[r].path
      BY <1>1, <2>3, StepsIs DEF Looking
    <3>2. /\ view'[r] = q
          /\ \A w \in Viewers \ {r} : \A k \in V!Kinds : V!Holds(w, k)' <=> V!Holds(w, k)
      BY <1>1, <3>1, OthersHold
    <3>3. V!SlotOf(r)' = "none" BY <1>1, <2>3, <3>1, <3>2 DEF V!SlotOf
    <3>4. \A k \in V!Kinds : ~V!Holds(r, k)' BY <3>1, <3>2, <3>3 DEF V!Holds, V!Kinds
    <3>5. \A w \in Viewers : \A k \in V!Kinds : V!Holds(w, k)' <=> V!Holds(w, k) BY <1>2, <3>2, <3>4
    <3> QED BY <1>1, <3>5, SlotsKept
  <2> QED BY <1>5, <2>1, <2>2, <2>3 DEF V!Load
<1>6. CASE V!Store(r)
  <2>1. V!Steps(r, "write") BY <1>6 DEF V!Store
  <2>2. PICK q \in ViewRecs : view' = [view EXCEPT ![r] = q] /\ q.at = "write" BY <1>1, <2>1, StepsIs DEF Looking
  <2> QED BY <1>1, <1>2, <2>2, NoSlotStep
<1>7. CASE V!Write(r)
  <2>1. view[r].pic \in Nat BY ViewIs DEF ViewRecs, Pictures
  <2> QED BY <1>4, <1>7, <2>1 DEF V!Write
<1> QED BY <1>3, <1>5, <1>6, <1>7

LEMMA AcquireSlots ==
  ASSUME V!PreviewsAssumption, ViewInv, SlotInv, NEW r \in Viewers, V!Acquire(r) \/ V!StartResize(r)
  PROVE  SlotInv'
<1>1. UNCHANGED kind /\ view[r].at \in {"acquire", "resize"} /\ view[r].at \in Looking
  BY DEF V!Acquire, V!StartResize, Looking
<1>2. \A k \in V!Kinds : ~V!Holds(r, k) BY <1>1, HoldsNone
<1>3. CASE V!Fails(r) /\ UNCHANGED slots
  <2>1. PICK q \in ViewRecs : view' = [view EXCEPT ![r] = q] /\ q.at \in {"probe", "failed"} BY <1>3, FailsIs
  <2> QED BY <1>1, <1>2, <1>3, <2>1, NoSlotStep
<1>4. CASE V!Take(V!SlotOf(r)) /\ V!Steps(r, "work")
  <2>1. PICK q \in ViewRecs : view' = [view EXCEPT ![r] = q] /\ q.at = "work" /\ q.path = view[r].path
    BY <1>1, <1>4, StepsIs DEF Looking
  <2>2. /\ view'[r] = q
        /\ \A w \in Viewers \ {r} : \A k \in V!Kinds : V!Holds(w, k)' <=> V!Holds(w, k)
    BY <1>1, <2>1, OthersHold
  <2>3. PICK k : k = V!SlotOf(r) OBVIOUS
  <2>4. V!SlotOf(r)' = k BY <1>1, <2>1, <2>2, <2>3 DEF V!SlotOf
  <2>5. \A j \in V!Kinds : V!Holds(r, j)' <=> j = k BY <2>1, <2>2, <2>4 DEF V!Holds
  <2>6. CASE k \in V!Kinds BY <1>2, <1>4, <2>2, <2>3, <2>5, <2>6, SlotTaken
  <2>7. CASE k \notin V!Kinds
    <3>1. UNCHANGED slots BY <1>4, <2>3, <2>7 DEF V!Take, SlotInv
    <3>2. \A w \in Viewers : \A j \in V!Kinds : V!Holds(w, j)' <=> V!Holds(w, j) BY <1>2, <2>2, <2>5, <2>7
    <3> QED BY <3>1, <3>2, SlotsKept
  <2> QED BY <2>6, <2>7
<1>5. CASE V!Take("image") /\ V!Steps(r, "resizing")
  <2>1. PICK q \in ViewRecs : view' = [view EXCEPT ![r] = q] /\ q.at = "resizing"
    BY <1>1, <1>5, StepsIs DEF Looking
  <2>2. /\ view'[r] = q
        /\ \A w \in Viewers \ {r} : \A k \in V!Kinds : V!Holds(w, k)' <=> V!Holds(w, k)
    BY <1>1, <2>1, OthersHold
  <2>3. "image" \in V!Kinds BY DEF V!Kinds
  <2>4. \A j \in V!Kinds : V!Holds(r, j)' <=> j = "image" BY <2>1, <2>2 DEF V!Holds
  <2> QED BY <1>2, <1>5, <2>2, <2>3, <2>4, SlotTaken
<1> QED BY <1>3, <1>4, <1>5 DEF V!Acquire, V!StartResize

LEMMA WorkSlots ==
  ASSUME V!PreviewsAssumption, ViewInv, SlotInv, NEW r \in Viewers, V!Work(r)
  PROVE  SlotInv'
<1>1. view[r].at = "work" /\ UNCHANGED kind BY DEF V!Work
<1>2. PICK pic \in V!Contents \cup {V!None}, next \in {"resize", "store"} : V!Generates(r, pic, next)
  BY <1>1, WorkReads
<1>3. V!GiveBack(r) BY <1>2 DEF V!Generates
<1>4. CASE V!Fails(r)
  <2>1. PICK q \in ViewRecs : view' = [view EXCEPT ![r] = q] /\ q.at \in {"probe", "failed"} BY <1>4, FailsIs
  <2> QED BY <1>1, <1>3, <2>1, GiveBackStep
<1>5. CASE view' = [view EXCEPT ![r].pic = pic, ![r].at = next]
  <2>1. PICK q : q = [view[r] EXCEPT !.pic = pic, !.at = next] OBVIOUS
  <2>2. q.at = next BY <2>1, ViewIs DEF ViewRecs
  <2>3. view' = [view EXCEPT ![r] = q] BY <1>5, <2>1, ViewIs
  <2> QED BY <1>1, <1>3, <2>2, <2>3, GiveBackStep
<1> QED BY <1>2, <1>4, <1>5 DEF V!Generates

LEMMA ResizeSlots ==
  ASSUME V!PreviewsAssumption, ViewInv, SlotInv, NEW r \in Viewers, V!Resize(r)
  PROVE  SlotInv'
<1>1. UNCHANGED kind /\ view[r].at = "resizing" /\ view[r].at \in Looking /\ V!Release("image")
  BY DEF V!Resize, Looking
<1>2. PICK q \in ViewRecs : view' = [view EXCEPT ![r] = q] /\ q.at \in {"probe", "failed", "store"}
  <2>1. CASE V!Fails(r) BY <2>1, FailsIs
  <2>2. CASE V!Steps(r, "store") BY <1>1, <2>2, StepsIs DEF Looking
  <2> QED BY <2>1, <2>2 DEF V!Resize
<1>3. /\ view'[r] = q
      /\ \A w \in Viewers \ {r} : \A k \in V!Kinds : V!Holds(w, k)' <=> V!Holds(w, k)
  BY <1>1, <1>2, OthersHold
<1>4. \A j \in V!Kinds : V!Holds(r, j) <=> j = "image" BY <1>1 DEF V!Holds
<1>5. \A j \in V!Kinds : ~V!Holds(r, j)' BY <1>2, <1>3 DEF V!Holds
<1>6. "image" \in V!Kinds BY DEF V!Kinds
<1> QED BY <1>1, <1>3, <1>4, <1>5, <1>6, SlotGiven

\* Who has gone still holds what it held.
LEMMA CancelSlots ==
  ASSUME V!PreviewsAssumption, ViewInv, SlotInv, NEW r \in Viewers, V!Cancel(r)
  PROVE  SlotInv'
<1>1. UNCHANGED <<kind, slots>> /\ view' = [view EXCEPT ![r].gone = TRUE] BY DEF V!Cancel
<1>2. PICK q : q = [view[r] EXCEPT !.gone = TRUE] OBVIOUS
<1>3. q.at = view[r].at /\ q.path = view[r].path BY <1>2, ViewIs DEF ViewRecs
<1>4. view' = [view EXCEPT ![r] = q] BY <1>1, <1>2, ViewIs
<1>5. /\ view'[r] = q
      /\ \A w \in Viewers \ {r} : \A k \in V!Kinds : V!Holds(w, k)' <=> V!Holds(w, k)
  BY <1>1, <1>4, OthersHold
<1>6. \A k \in V!Kinds : V!Holds(r, k)' <=> V!Holds(r, k) BY <1>1, <1>3, <1>5 DEF V!Holds, V!SlotOf
<1>7. \A w \in Viewers : \A k \in V!Kinds : V!Holds(w, k)' <=> V!Holds(w, k) BY <1>5, <1>6
<1> QED BY <1>1, <1>7, SlotsKept

LEMMA ChangeSlots ==
  ASSUME V!PreviewsAssumption, ViewInv, SlotInv,
         V!DelThumbs \/ V!Apply \/ \E p \in Names, what \in {"overwrite", "delete", "move"} : V!Look(p, what)
  PROVE  SlotInv'
<1>1. UNCHANGED <<kind, slots>> BY DEF V!DelThumbs, V!Apply, V!Look
<1>2. ASSUME NEW r \in Viewers PROVE view'[r].at = view[r].at /\ view'[r].path = view[r].path
  <2>1. CASE UNCHANGED view BY <2>1
  <2>2. ASSUME NEW f, V!Becomes(f) PROVE view'[r].at = view[r].at /\ view'[r].path = view[r].path
    <3>1. view[r] \in ViewRecs BY ViewIs
    <3> QED BY <2>2, <3>1 DEF V!Becomes, ViewRecs
  <2> QED BY <2>1, <2>2 DEF V!DelThumbs, V!Apply, V!Look
<1>3. \A r \in Viewers : \A k \in V!Kinds : V!Holds(r, k)' <=> V!Holds(r, k)
  BY <1>1, <1>2 DEF V!Holds, V!SlotOf
<1> QED BY <1>1, <1>3, SlotsKept

\* The semaphores are gone with who held them.
LEMMA RestartSlots ==
  ASSUME V!PreviewsAssumption, ViewInv, V!Restart
  PROVE  SlotInv'
<1>1. /\ view' = [r \in Viewers |->
            IF view[r].at \in {"idle", "served", "failed"} THEN view[r] ELSE [V!Nobody EXCEPT !.at = "failed"]]
      /\ slots' = [k \in V!Kinds |-> 0]
  BY DEF V!Restart
<1>2. ASSUME NEW r \in Viewers PROVE view'[r].at \in {"idle", "served", "failed"} BY <1>1, NobodyIs
<1>3. \A k \in V!Kinds : Holders(k)' = {} BY <1>2 DEF Holders, V!Holds
<1>4. \A k \in V!Kinds : slots'[k] = 0 BY <1>1
<1>5. slots' \in [V!Kinds -> Int] BY <1>1
<1> QED BY <1>3, <1>4, <1>5, CapacityIs, FS_EmptySet DEF SlotInv, V!Capacity, V!Kinds

LEMMA SlotStep ==
  ASSUME V!PreviewsAssumption, ViewInv, SlotInv, [V!Next]_V!vars
  PROVE  SlotInv'
<1>1. CASE UNCHANGED V!vars
  <2>1. UNCHANGED <<kind, slots, view>> BY <1>1 DEF V!vars
  <2>2. \A r \in Viewers : \A k \in V!Kinds : V!Holds(r, k)' <=> V!Holds(r, k) BY <2>1 DEF V!Holds, V!SlotOf
  <2> QED BY <2>1, <2>2, SlotsKept
<1>2. ASSUME NEW r \in Viewers, V!Serve(r) PROVE SlotInv'
  BY <1>2, AskSlots, KeepSlots, AcquireSlots, WorkSlots, ResizeSlots, CancelSlots DEF V!Serve
<1> QED BY <1>1, <1>2, ChangeSlots, RestartSlots DEF V!Next

LEMMA SlotsAreHeld == ASSUME SlotInv PROVE V!SlotsHeld
BY SameFinite DEF SlotInv, V!SlotsHeld, Holders

-----------------------------------------------------------------------------
(* The locks of the cache, and whose picture is shown                           *)

InFlight == {"resize", "resizing", "store", "write"}

\* A request gets on with what it looked at: with its picture, with what is there
\* by now, with what it looked at, or with what is kept of it.
Goes(r, q) ==
  /\ view[r].at \in Looking /\ q.at \in Looking
  /\ q.path = view[r].path /\ q.ver = view[r].ver /\ q.seen = view[r].seen
  /\ q.at \in InFlight => \/ view[r].at \in InFlight /\ q.pic = view[r].pic
                          \/ q.pic \in {q.ver, pics[q.path]}
  /\ q.at = "served" => \/ q.pic = cache[V!KeyOf(r)] /\ q.pic # V!None
                        \/ view[r].at \in InFlight /\ q.pic = view[r].pic
  /\ q.at = "write" => view[r].at \in {"store", "write"} /\ q.size = view[r].size

\* A request starts, fails, or looks at a file.
Turns(r, q) ==
  \/ q.at \in {"probe", "failed"}
  \/ q.at = "load" /\ q.path \in Names /\ q.ver = pics[q.path] /\ q.seen = {q.ver}
  \/ Goes(r, q)

AskTurns ==
  \A r \in Viewers : \A p \in Names, s \in V!PreviewSizes :
    pics[p] # V!None /\ V!Stat(r, p, s) => \E q \in ViewRecs : view' = [view EXCEPT ![r] = q] /\ Turns(r, q)

LEMMA StatTurns == ASSUME V!PreviewsAssumption, ViewInv PROVE AskTurns
<1> SUFFICES ASSUME NEW r \in Viewers, NEW p \in Names, NEW s \in V!PreviewSizes, pics[p] # V!None, V!Stat(r, p, s)
             PROVE  \E q \in ViewRecs : view' = [view EXCEPT ![r] = q] /\ Turns(r, q)
  BY DEF AskTurns
<1>1. pics[p] \in V!Contents /\ pics[p] \in Nat BY Numbers DEF ViewInv, ViewType
<1>2. PICK q : q = [view[r] EXCEPT !.at = "load", !.path = p, !.size = s, !.ver = pics[p], !.seen = {pics[p]}]
  OBVIOUS
<1>3. q \in ViewRecs /\ q.at = "load" /\ q.path = p /\ q.ver = pics[p] /\ q.seen = {pics[p]}
  BY <1>1, <1>2, ViewIs DEF ViewRecs
<1>4. view' = [view EXCEPT ![r] = q] BY <1>2, ViewIs DEF V!Stat
<1> QED BY <1>3, <1>4 DEF Turns

LEMMA ServeTurns ==
  ASSUME V!PreviewsAssumption, ViewInv, NEW r \in Viewers, V!Serve(r)
  PROVE  \E q \in ViewRecs : view' = [view EXCEPT ![r] = q] /\ Turns(r, q)
<1>1. view[r] \in ViewRecs BY ViewIs
<1>2. CASE V!Fails(r)
  <2>1. PICK q \in ViewRecs : view' = [view EXCEPT ![r] = q] /\ q.at \in {"probe", "failed"} BY <1>2, FailsIs
  <2> QED BY <2>1 DEF Turns
<1>3. ASSUME NEW at \in Looking \ {"write", "served"}, V!Steps(r, at), view[r].at \in Looking,
             at \in InFlight => view[r].at \in InFlight
      PROVE  \E q \in ViewRecs : view' = [view EXCEPT ![r] = q] /\ Turns(r, q)
  <2>1. PICK q \in ViewRecs :
           /\ view' = [view EXCEPT ![r] = q] /\ q.at = at /\ Looked(q)
           /\ q.path = view[r].path /\ q.ver = view[r].ver /\ q.size = view[r].size /\ q.pic = view[r].pic
           /\ q.seen = view[r].seen
    BY <1>3, StepsIs
  <2> QED BY <1>3, <2>1 DEF Turns, Goes
<1>4. CASE V!AskFolder(r, "small") \/ V!AskFolder(r, "large")
  <2>1. PICK s \in V!PreviewSizes : view' = [view EXCEPT ![r].at = "probe", ![r].left = Names, ![r].want = s]
    BY <1>4 DEF V!AskFolder, V!PreviewSizes
  <2>2. PICK q : q = [view[r] EXCEPT !.at = "probe", !.left = Names, !.want = s] OBVIOUS
  <2>3. q \in ViewRecs /\ q.at = "probe" BY <1>1, <2>2 DEF ViewRecs
  <2>4. view' = [view EXCEPT ![r] = q] BY <2>1, <2>2, ViewIs
  <2> QED BY <2>3, <2>4 DEF Turns
<1>5. CASE \E p \in Names, s \in V!PreviewSizes : V!AskFile(r, p, s)
  BY <1>5, StatTurns DEF V!AskFile, AskTurns
<1>6. CASE V!Probe(r)
  <2> DEFINE p == CHOOSE n \in view[r].left : \A m \in view[r].left : n <= m
  <2>1. view[r].at = "probe" BY <1>6 DEF V!Probe
  <2>2. CASE view[r].left = {}
    <3>1. view' = [view EXCEPT ![r] = [V!Nobody EXCEPT !.at = "failed"]] BY <1>6, <2>2 DEF V!Probe
    <3> QED BY <3>1, NobodyIs DEF Turns
  <2>3. CASE view[r].left # {} /\ pics[p] = V!None
    <3>1. view' = [view EXCEPT ![r].left = @ \ {p}] BY <1>6, <2>3 DEF V!Probe
    <3>2. PICK q : q = [view[r] EXCEPT !.left = @ \ {p}] OBVIOUS
    <3> HIDE DEF p
    <3>3. q \in ViewRecs /\ q.at = "probe" BY <2>1, <3>2, ViewIs DEF ViewRecs
    <3>4. view' = [view EXCEPT ![r] = q] BY <3>1, <3>2, ViewIs
    <3> QED BY <3>3, <3>4 DEF Turns
  <2>4. CASE view[r].left # {} /\ pics[p] # V!None
    <3>1. V!Stat(r, p, "small") BY <1>6, <2>4 DEF V!Probe
    <3>2. p \in Names BY <1>1, <2>4, LeastIs DEF ViewRecs
    <3>3. "small" \in V!PreviewSizes BY DEF V!PreviewSizes
    <3> HIDE DEF p
    <3> QED BY <2>4, <3>1, <3>2, <3>3, StatTurns DEF AskTurns
  <2> QED BY <2>2, <2>3, <2>4
<1>7. CASE V!Load(r)
  <2>1. view[r].at = "load" /\ view[r].at \in Looking BY <1>7 DEF V!Load, Looking
  <2>2. CASE cache[V!KeyOf(r)] # V!None /\ V!Succeeds(r, cache[V!KeyOf(r)])
    <3>1. PICK pic \in Nat : pic = cache[V!KeyOf(r)] BY <2>1, <2>2, CacheHit
    <3>2. PICK q \in ViewRecs :
           /\ view' = [view EXCEPT ![r] = q] /\ q.at \in {"load", "served"} /\ Looked(q)
           /\ q.path = view[r].path /\ q.ver = view[r].ver /\ q.seen = view[r].seen
           /\ q.at = "served" => q.pic = pic
      BY <2>1, <2>2, <3>1, SucceedsIs
    <3> QED BY <2>1, <2>2, <3>1, <3>2 DEF Turns, Goes, Looking, InFlight
  <2> QED BY <1>2, <1>3, <1>7, <2>1, <2>2 DEF V!Load, Looking, InFlight
<1>8. CASE V!Acquire(r)
  <2>1. view[r].at \in Looking BY <1>8 DEF V!Acquire, Looking
  <2> QED BY <1>2, <1>3, <1>8, <2>1 DEF V!Acquire, Looking, InFlight
<1>9. CASE V!Work(r)
  <2>1. view[r].at = "work" /\ view[r].at \in Looking BY <1>9 DEF V!Work, Looking
  <2> DEFINE p == view[r].path
  <2>2. PICK pic \in {pics[p], view[r].ver}, next \in {"resize", "store"} : V!Generates(r, pic, next)
    BY <1>9 DEF V!Work, V!GenerateImageFromDoc, V!GenerateOfficePreview, V!GenerateVideoPreview,
                V!ConvertHEIC, V!ReadImage, V!AlbumArt
  <2>3. CASE view' = [view EXCEPT ![r].pic = pic, ![r].at = next]
    <3>1. PICK q : q = [view[r] EXCEPT !.pic = pic, !.at = next] OBVIOUS
    <3>2. p \in Names /\ view[r].ver \in V!Contents BY <2>1, ViewIs DEF Looked
    <3>3. pics[p] \in V!Contents \cup {V!None} BY <3>2 DEF ViewInv, ViewType
    <3>4. pic \in Nat BY <3>2, <3>3, Numbers
    <3>5. /\ q \in ViewRecs /\ q.at = next /\ q.path = p /\ q.ver = view[r].ver /\ q.pic = pic
          /\ q.seen = view[r].seen
      BY <1>1, <3>1, <3>4 DEF ViewRecs, Pictures
    <3>6. view' = [view EXCEPT ![r] = q] BY <2>3, <3>1, ViewIs
    <3> QED BY <2>1, <3>5, <3>6 DEF Turns, Goes, Looking, InFlight
  <2> QED BY <1>2, <2>2, <2>3 DEF V!Generates
<1>10. CASE V!StartResize(r) \/ V!Resize(r)
  <2>1. view[r].at \in {"resize", "resizing"} BY <1>10 DEF V!StartResize, V!Resize
  <2> QED BY <1>2, <1>3, <1>10, <2>1 DEF V!StartResize, V!Resize, Looking, InFlight
<1>11. CASE V!Store(r)
  <2>1. view[r].at = "store" /\ view[r].at \in Looking /\ V!Steps(r, "write") BY <1>11 DEF V!Store, Looking
  <2>2. PICK q \in ViewRecs :
           /\ view' = [view EXCEPT ![r] = q] /\ q.at = "write" /\ Looked(q)
           /\ q.path = view[r].path /\ q.ver = view[r].ver /\ q.size = view[r].size /\ q.pic = view[r].pic
           /\ q.seen = view[r].seen
    BY <2>1, StepsIs DEF Looking
  <2> QED BY <2>1, <2>2 DEF Turns, Goes, Looking, InFlight
<1>12. CASE V!Write(r)
  <2>1. view[r].at = "write" /\ view[r].at \in Looking /\ V!Succeeds(r, view[r].pic) /\ view[r].pic \in Nat
    BY <1>1, <1>12 DEF V!Write, Looking, ViewRecs, Pictures
  <2>2. PICK q \in ViewRecs :
           /\ view' = [view EXCEPT ![r] = q] /\ q.at \in {"load", "served"} /\ Looked(q)
           /\ q.path = view[r].path /\ q.ver = view[r].ver /\ q.seen = view[r].seen
           /\ q.at = "served" => q.pic = view[r].pic
    BY <2>1, SucceedsIs
  <2> QED BY <2>1, <2>2 DEF Turns, Goes, Looking, InFlight
<1>13. CASE V!Cancel(r)
  <2>1. view' = [view EXCEPT ![r].gone = TRUE] /\ view[r].at \notin {"idle", "served", "failed"}
    BY <1>13 DEF V!Cancel
  <2>2. PICK q : q = [view[r] EXCEPT !.gone = TRUE] OBVIOUS
  <2>3. /\ q \in ViewRecs /\ q.at = view[r].at /\ q.path = view[r].path /\ q.ver = view[r].ver
        /\ q.seen = view[r].seen /\ q.pic = view[r].pic /\ q.size = view[r].size
    BY <1>1, <2>2 DEF ViewRecs
  <2>4. view' = [view EXCEPT ![r] = q] BY <2>1, <2>2, ViewIs
  <2>5. view[r].at \in Looking \/ view[r].at = "probe" BY <1>1, <2>1 DEF ViewRecs, Looking
  <2> QED BY <2>1, <2>3, <2>4, <2>5 DEF Turns, Goes, Looking, InFlight
<1>14. CASE \E s \in V!PreviewSizes : V!AskFolder(r, s) BY <1>4, <1>14 DEF V!PreviewSizes
<1> QED BY <1>5, <1>6, <1>7, <1>8, <1>9, <1>10, <1>11, <1>12, <1>13, <1>14 DEF V!Serve

\* The locks.
LockSame ==
  \A r \in Viewers : /\ view'[r].at = "write" <=> view[r].at = "write"
                     /\ view[r].at = "write" => /\ view'[r].path = view[r].path /\ view'[r].ver = view[r].ver
                                                /\ view'[r].size = view[r].size

LEMMA KeySame ==
  ASSUME NEW r \in Viewers, UNCHANGED kind, view'[r].path = view[r].path, view'[r].ver = view[r].ver,
         view'[r].size = view[r].size
  PROVE  V!KeyOf(r)' = V!KeyOf(r)
BY DEF V!KeyOf, V!CacheKey

LEMMA LocksKept ==
  ASSUME V!LocksHeld, UNCHANGED <<kind, locked>>, LockSame
  PROVE  V!LocksHeld'
<1>1. \A r \in Viewers : view[r].at = "write" => V!KeyOf(r)' = V!KeyOf(r) BY KeySame DEF LockSame
<1> QED BY <1>1 DEF V!LocksHeld, LockSame

LEMMA LockStep ==
  ASSUME V!PreviewsAssumption, ViewInv, V!LocksHeld, [V!Next]_V!vars
  PROVE  V!LocksHeld'
<1>1. CASE UNCHANGED V!vars
  <2>1. UNCHANGED <<kind, locked, view>> BY <1>1 DEF V!vars
  <2> QED BY <2>1, LocksKept DEF LockSame
<1>2. ASSUME NEW r \in Viewers, V!Serve(r) PROVE V!LocksHeld'
  <2>1. PICK q \in ViewRecs : view' = [view EXCEPT ![r] = q] /\ Turns(r, q) BY <1>2, ServeTurns
  <2>2. view'[r] = q /\ \A w \in Viewers \ {r} : view'[w] = view[w] BY <2>1, ViewIs
  <2>3. UNCHANGED kind
    BY <1>2 DEF V!Serve, V!AskFile, V!AskFolder, V!Probe, V!Cancel, V!Load, V!Acquire, V!Work, V!StartResize,
                V!Resize, V!Store, V!Write
  <2>4. \A w \in Viewers \ {r} : V!KeyOf(w)' = V!KeyOf(w) BY <2>2, <2>3, KeySame
  <2>5. CASE V!Store(r)
    <3>1. /\ view[r].at = "store" /\ V!KeyOf(r) \notin locked /\ locked' = locked \cup {V!KeyOf(r)}
          /\ V!Steps(r, "write")
      BY <2>5 DEF V!Store
    <3>2. PICK q2 \in ViewRecs :
             /\ view' = [view EXCEPT ![r] = q2] /\ q2.at = "write" /\ Looked(q2)
             /\ q2.path = view[r].path /\ q2.ver = view[r].ver /\ q2.size = view[r].size /\ q2.pic = view[r].pic
             /\ q2.seen = view[r].seen
      BY <3>1, StepsIs DEF Looking
    <3>3. view'[r].at = "write" /\ V!KeyOf(r)' = V!KeyOf(r)
      <4>1. view'[r] = q2 BY <3>2, ViewIs
      <4> QED BY <2>3, <3>2, <4>1, KeySame
    <3> QED BY <2>2, <2>4, <3>1, <3>3 DEF V!LocksHeld
  <2>6. CASE V!Write(r)
    <3>1. view[r].at = "write" /\ locked' = locked \ {V!KeyOf(r)} /\ V!Succeeds(r, view[r].pic) BY <2>6 DEF V!Write
    <3>2. view'[r].at # "write"
      <4>1. view[r].pic \in Nat BY ViewIs DEF ViewRecs, Pictures
      <4>2. PICK q2 \in ViewRecs : view' = [view EXCEPT ![r] = q2] /\ q2.at \in {"load", "served"}
        BY <3>1, <4>1, SucceedsIs DEF Looking
      <4> QED BY <2>2, <4>2, ViewIs
    <3> QED BY <2>2, <2>4, <3>1, <3>2 DEF V!LocksHeld
  <2>7. CASE ~V!Store(r) /\ ~V!Write(r)
    <3>1. UNCHANGED locked
      BY <1>2, <2>7 DEF V!Serve, V!AskFile, V!AskFolder, V!Probe, V!Cancel, V!Load, V!Acquire, V!Work,
                        V!StartResize, V!Resize
    <3>2. CASE V!Cancel(r)
      <4>1. view' = [view EXCEPT ![r].gone = TRUE] BY <3>2 DEF V!Cancel
      <4>2. /\ view'[r].at = view[r].at /\ view'[r].path = view[r].path /\ view'[r].ver = view[r].ver
            /\ view'[r].size = view[r].size
        BY <4>1, ViewIs DEF ViewRecs
      <4> QED BY <2>2, <2>3, <3>1, <4>2, LocksKept DEF LockSame
    <3>3. CASE ~V!Cancel(r)
      <4>1. view[r].at # "write"
        BY <1>2, <2>7, <3>3 DEF V!Serve, V!AskFile, V!AskFolder, V!Probe, V!Load, V!Acquire, V!Work,
                        V!StartResize, V!Resize
      <4>2. q.at # "write"
        <5>1. view[r].at # "store"
          BY <1>2, <2>7, <3>3 DEF V!Serve, V!AskFile, V!AskFolder, V!Probe, V!Load, V!Acquire, V!Work,
                        V!StartResize, V!Resize
        <5> QED BY <2>1, <4>1, <5>1 DEF Turns, Goes
      <4> QED BY <2>2, <2>3, <3>1, <4>1, <4>2, LocksKept DEF LockSame
    <3> QED BY <3>2, <3>3
  <2> QED BY <2>5, <2>6, <2>7
<1>3. CASE V!DelThumbs \/ V!Apply \/ \E p \in Names, what \in {"overwrite", "delete", "move"} : V!Look(p, what)
  <2>1. UNCHANGED <<kind, locked>> BY <1>3 DEF V!DelThumbs, V!Apply, V!Look
  <2>2. ASSUME NEW r \in Viewers
        PROVE  /\ view'[r].at = view[r].at /\ view'[r].path = view[r].path
               /\ view'[r].ver = view[r].ver /\ view'[r].size = view[r].size
    <3>1. CASE UNCHANGED view BY <3>1
    <3>2. ASSUME NEW f, V!Becomes(f)
          PROVE  /\ view'[r].at = view[r].at /\ view'[r].path = view[r].path
                 /\ view'[r].ver = view[r].ver /\ view'[r].size = view[r].size
      <4>1. view[r] \in ViewRecs BY ViewIs
      <4> QED BY <3>2, <4>1 DEF V!Becomes, ViewRecs
    <3> QED BY <1>3, <3>1, <3>2 DEF V!DelThumbs, V!Apply, V!Look
  <2> QED BY <2>1, <2>2, LocksKept DEF LockSame
<1>4. CASE V!Restart
  <2>1. /\ view' = [r \in Viewers |->
              IF view[r].at \in {"idle", "served", "failed"} THEN view[r] ELSE [V!Nobody EXCEPT !.at = "failed"]]
        /\ locked' = {}
    BY <1>4 DEF V!Restart
  <2>2. ASSUME NEW r \in Viewers PROVE view'[r].at # "write" BY <2>1, NobodyIs
  <2> QED BY <2>1, <2>2 DEF V!LocksHeld
<1> QED BY <1>1, <1>2, <1>3, <1>4 DEF V!Next

LEMMA LockInit == ASSUME V!PreviewsAssumption, V!Init PROVE V!LocksHeld
<1>1. \A r \in Viewers : view[r].at = "idle" BY NobodyIs DEF V!Init
<1> QED BY <1>1 DEF V!Init, V!LocksHeld

-----------------------------------------------------------------------------
(* What is shown is what was there: whoever looks at a content after another was     *)
(* read under it can only do so because it came back.                             *)

Traced(p, v, pic) ==
  pic # v => \/ <<p, v>> \in returned
             \/ /\ pics[p] # v
                /\ \A w \in Viewers : view[w].at \in Looking /\ view[w].path = p /\ view[w].ver = v => pic \in view[w].seen

CacheTraced ==
  \A p \in Names, v \in V!Contents, s \in V!PreviewSizes :
    LET pic == cache[V!CacheKey(p, v, s)] IN kind[p] = "audio" \/ pic \in {V!None, V!Empty} \/ Traced(p, v, pic)

PicTraced(w) ==
  /\ view[w].at \in InFlight => Traced(view[w].path, view[w].ver, view[w].pic)
  /\ view[w].at = "served" => view[w].pic = V!Empty \/ Traced(view[w].path, view[w].ver, view[w].pic)

\* Contents are numbered as they come.
Olds ==
  /\ \A p \in Names : pics[p] <= came
  /\ \A w \in Viewers : view[w].at \in Looking => view[w].ver <= came
  /\ \A p \in Names, v \in V!Contents : <<p, v>> \in poisoned => v <= came

TraceInv ==
  /\ CacheTraced /\ Olds
  /\ \A w \in Viewers : PicTraced(w) /\ (view[w].at \in Looking => pics[view[w].path] \in view[w].seen)

LEMMA TraceInit == ASSUME V!PreviewsAssumption, V!Init PROVE TraceInv
<1>1. \A r \in Viewers : view[r].at = "idle" BY NobodyIs DEF V!Init
<1>2. CacheTraced
  <2>1. ASSUME NEW p \in Names, NEW v \in V!Contents, NEW s \in V!PreviewSizes PROVE V!CacheKey(p, v, s) \in V!CacheKeys
    BY DEF V!CacheKey, V!CacheKeys
  <2> QED BY <2>1 DEF CacheTraced, V!Init
<1>3. \A p \in Names : pics[p] <= came
  <2>1. PICK n \in 1..MaxContent : Names = 1..n BY DEF V!PreviewsAssumption
  <2>2. n \in Nat /\ MaxContent \in Nat BY <2>1, Numbers
  <2>3. Cardinality(1..n) = n BY <2>2, FS_Interval
  <2>4. came = n BY <2>1, <2>3, SameFinite DEF V!Init
  <2>5. PICK P \in (SUBSET Names) \ {{}} : pics = [p \in Names |-> IF p \in P THEN p ELSE V!None]
    BY DEF V!Init
  <2> QED BY <2>1, <2>2, <2>4, <2>5, Numbers
<1>4. Olds BY <1>1, <1>3 DEF Olds, V!Init, Looking
<1> QED BY <1>1, <1>2, <1>4 DEF TraceInv, PicTraced, Looking, InFlight

\* A request gets on: what is known of the pictures stays so.
LEMMA TracedKept ==
  ASSUME ViewInv, NEW r \in Viewers, NEW q \in ViewRecs, view' = [view EXCEPT ![r] = q], Turns(r, q),
         UNCHANGED <<pics, returned>>, NEW p, NEW v, NEW pic, Traced(p, v, pic)
  PROVE  Traced(p, v, pic)'
<1> SUFFICES ASSUME pic # v, <<p, v>> \notin returned
             PROVE  /\ pics[p] # v
                    /\ \A w \in Viewers : view'[w].at \in Looking /\ view'[w].path = p /\ view'[w].ver = v
                                            => pic \in view'[w].seen
  BY DEF Traced
<1>1. /\ pics[p] # v
      /\ \A w \in Viewers : view[w].at \in Looking /\ view[w].path = p /\ view[w].ver = v => pic \in view[w].seen
  BY DEF Traced
<1>2. view'[r] = q /\ \A w \in Viewers \ {r} : view'[w] = view[w] BY ViewIs
<1>3. q.at \in Looking /\ q.path = p /\ q.ver = v => pic \in q.seen
  BY <1>1 DEF Turns, Goes, Looking
<1> QED BY <1>1, <1>2, <1>3

LEMMA ServeTraces ==
  ASSUME V!PreviewsAssumption, ViewInv, ViewInv', TraceInv, NEW r \in Viewers, V!Serve(r)
  PROVE  TraceInv'
<1>1. UNCHANGED <<kind, pics, came, returned>>
  BY DEF V!Serve, V!AskFile, V!AskFolder, V!Probe, V!Cancel, V!Load, V!Acquire, V!Work, V!StartResize,
         V!Resize, V!Store, V!Write
<1>2. PICK q \in ViewRecs : view' = [view EXCEPT ![r] = q] /\ Turns(r, q) BY ServeTurns
<1>3. view'[r] = q /\ \A w \in Viewers \ {r} : view'[w] = view[w] BY <1>2, ViewIs
<1>4. q.at \in Looking => /\ q.path \in Names /\ q.ver \in V!Contents /\ q.ver <= came /\ pics[q.path] \in q.seen
  <2>1. CASE q.at = "load" /\ q.path \in Names /\ q.ver = pics[q.path] /\ q.seen = {q.ver}
    <3>1. Looked(view'[r]) BY DEF ViewInv
    <3> QED BY <1>3, <2>1, <3>1 DEF Looked, Looking, TraceInv, Olds
  <2>2. CASE Goes(r, q)
    <3>1. Looked(view[r]) BY ViewIs
    <3> QED BY <2>2, <3>1 DEF Looked, Goes, TraceInv, Olds
  <2> QED BY <1>2, <2>1, <2>2 DEF Turns, Looking
<1>5. ASSUME NEW w \in Viewers, view'[w].at \in Looking PROVE pics'[view'[w].path] \in view'[w].seen
  BY <1>1, <1>3, <1>4, <1>5 DEF TraceInv
<1>6. Olds'
  <2>1. \A w \in Viewers : view'[w].at \in Looking => view'[w].ver <= came BY <1>3, <1>4 DEF TraceInv, Olds
  <2>2. ASSUME NEW p \in Names, NEW v \in V!Contents, <<p, v>> \in poisoned' PROVE v <= came
    <3>1. CASE UNCHANGED poisoned BY <2>2, <3>1 DEF TraceInv, Olds
    <3>2. CASE view[r].at = "work" /\ poisoned' = poisoned \cup {<<view[r].path, view[r].ver>>}
      <4>1. view[r].ver <= came BY <3>2 DEF TraceInv, Olds, Looking
      <4> QED BY <2>2, <3>2, <4>1 DEF TraceInv, Olds
    <3>3. UNCHANGED poisoned \/ (view[r].at = "work" /\ poisoned' = poisoned \cup {<<view[r].path, view[r].ver>>})
      BY DEF V!Serve, V!AskFile, V!AskFolder, V!Probe, V!Cancel, V!Load, V!Acquire, V!Work, V!StartResize,
             V!Resize, V!Store, V!Write, V!GenerateImageFromDoc, V!GenerateOfficePreview,
             V!GenerateVideoPreview, V!ConvertHEIC, V!ReadImage, V!AlbumArt, V!Generates
    <3> QED BY <3>1, <3>2, <3>3
  <2> QED BY <1>1, <2>1, <2>2 DEF TraceInv, Olds
<1>7. ASSUME NEW p, NEW v, NEW pic, Traced(p, v, pic) PROVE Traced(p, v, pic)'
  BY <1>1, <1>2, <1>7, TracedKept
<1>8. ASSUME NEW w \in Viewers PROVE PicTraced(w)'
  <2>1. CASE w # r
    <3>1. PICK k : k = view[w] OBVIOUS
    <3>2. view'[w] = k BY <1>3, <2>1, <3>1
    <3>3. PicTraced(w) BY DEF TraceInv
    <3>4. k.at \in InFlight => Traced(k.path, k.ver, k.pic)' BY <1>7, <3>1, <3>3 DEF PicTraced
    <3>5. k.at = "served" => k.pic = V!Empty \/ Traced(k.path, k.ver, k.pic)' BY <1>7, <3>1, <3>3 DEF PicTraced
    <3> QED BY <3>2, <3>4, <3>5 DEF PicTraced, Traced
  <2>2. CASE w = r
    <3>1. q.at \in InFlight => Traced(q.path, q.ver, q.pic)'
      <4>1. SUFFICES ASSUME q.at \in InFlight PROVE Traced(q.path, q.ver, q.pic)'
        OBVIOUS
      <4>2. Goes(r, q) /\ q.at \in Looking BY <1>2, <4>1 DEF Turns, InFlight, Looking
      <4>3. CASE view[r].at \in InFlight /\ q.pic = view[r].pic
        <5>1. PicTraced(r) BY DEF TraceInv
        <5>2. Traced(q.path, q.ver, q.pic) BY <4>2, <4>3, <5>1 DEF PicTraced, Goes
        <5> QED BY <1>7, <5>2
      <4>4. CASE q.pic = q.ver BY <4>4 DEF Traced
      <4>5. CASE q.pic = pics[q.path]
        <5>1. \A x \in Viewers : view'[x].at \in Looking /\ view'[x].path = q.path => q.pic \in view'[x].seen
          BY <1>1, <1>5, <4>5
        <5> QED BY <1>1, <4>5, <5>1 DEF Traced
      <4> QED BY <4>1, <4>2, <4>3, <4>4, <4>5 DEF Goes
    <3>2. q.at = "served" => q.pic = V!Empty \/ Traced(q.path, q.ver, q.pic)'
      <4>1. SUFFICES ASSUME q.at = "served" PROVE q.pic = V!Empty \/ Traced(q.path, q.ver, q.pic)'
        OBVIOUS
      <4>2. Goes(r, q) /\ q.at \in Looking BY <1>2, <4>1 DEF Turns, Looking
      <4>3. CASE view[r].at \in InFlight /\ q.pic = view[r].pic
        <5>1. PicTraced(r) BY DEF TraceInv
        <5>2. Traced(q.path, q.ver, q.pic) BY <4>2, <4>3, <5>1 DEF PicTraced, Goes
        <5> QED BY <1>7, <5>2
      <4>4. CASE q.pic = cache[V!KeyOf(r)] /\ q.pic # V!None
        <5>1. /\ view[r].path \in Names /\ view[r].ver \in V!Contents /\ view[r].size \in V!PreviewSizes
              /\ q.path = view[r].path /\ q.ver = view[r].ver
          BY <4>2, ViewIs DEF Goes, Looked, ViewRecs
        <5>2. q.pic = cache[V!CacheKey(q.path, q.ver, view[r].size)] BY <4>4, <5>1 DEF V!KeyOf
        <5>3. CASE kind[q.path] = "audio"
          <6>1. Shown(view'[r]) \/ Shown(q)' BY <1>3 DEF ViewInv
          <6>2. q.pic = V!Empty \/ Right(q.path, q.ver, q.pic)' BY <1>3, <4>1 DEF ViewInv, Shown, Right
          <6>3. q.pic = V!Empty \/ q.pic = q.ver BY <1>1, <5>3, <6>2 DEF Right
          <6> QED BY <6>3 DEF Traced
        <5>4. CASE kind[q.path] # "audio"
          <6>1. q.pic = V!Empty \/ Traced(q.path, q.ver, q.pic)
            BY <4>4, <5>1, <5>2, <5>4 DEF TraceInv, CacheTraced
          <6> QED BY <1>7, <6>1
        <5> QED BY <5>3, <5>4
      <4> QED BY <4>1, <4>2, <4>3, <4>4 DEF Goes
    <3> QED BY <1>3, <2>2, <3>1, <3>2 DEF PicTraced, Traced
  <2> QED BY <2>1, <2>2
<1>9. CacheTraced'
  <2>1. ASSUME NEW p \in Names, NEW v \in V!Contents, NEW s \in V!PreviewSizes, NEW pic, kind[p] # "audio",
               pic = cache'[V!CacheKey(p, v, s)]
        PROVE  pic \in {V!None, V!Empty} \/ Traced(p, v, pic)'
    <3>1. PICK k : k = V!CacheKey(p, v, s) OBVIOUS
    <3>2. k = <<p, v, s>> /\ k \in V!CacheKeys BY <2>1, <3>1 DEF V!CacheKey, V!CacheKeys
    <3>3. pic = cache'[k] BY <2>1, <3>1
    <3>4. cache \in [V!CacheKeys -> Pictures] BY DEF ViewInv, ViewType
    <3>5. CASE pic = cache[k]
      <4>1. pic \in {V!None, V!Empty} \/ Traced(p, v, pic) BY <2>1, <3>1, <3>5 DEF TraceInv, CacheTraced
      <4> QED BY <1>7, <4>1
    <3>6. CASE view[r].at = "write" /\ k = V!KeyOf(r) /\ pic = view[r].pic
      <4>1. view[r].path \in Names /\ view[r].ver \in V!Contents BY <3>6, ViewIs DEF Looked, Looking
      <4>2. V!None \notin Names BY Numbers DEF V!None
      <4>3. view[r].path = p /\ view[r].ver = v BY <3>2, <3>6, <4>1, <4>2 DEF V!KeyOf, V!CacheKey
      <4>4. Traced(p, v, pic) BY <3>6, <4>3 DEF TraceInv, PicTraced, InFlight
      <4> QED BY <1>7, <4>4
    <3>7. CASE pic \in {V!None, V!Empty} BY <3>7
    <3>8. UNCHANGED cache \/ V!Store(r) \/ V!Write(r)
      BY DEF V!Serve, V!AskFile, V!AskFolder, V!Probe, V!Cancel, V!Load, V!Acquire, V!Work, V!StartResize,
             V!Resize
    <3>9. pic = cache[k] \/ pic = V!Empty \/ (view[r].at = "write" /\ k = V!KeyOf(r) /\ pic = view[r].pic)
      BY <3>2, <3>3, <3>4, <3>8 DEF V!Store, V!Write
    <3> QED BY <3>5, <3>6, <3>7, <3>9
  <2>2. ASSUME NEW p \in Names, NEW v \in V!Contents, NEW s \in V!PreviewSizes
        PROVE  V!CacheKey(p, v, s)' = V!CacheKey(p, v, s)
    BY <1>1 DEF V!CacheKey
  <2> QED BY <1>1, <2>1, <2>2 DEF CacheTraced, Traced
<1> QED BY <1>5, <1>6, <1>8, <1>9 DEF TraceInv

\* A path becomes another content: it is new, or it comes back to where it was read for another.
LEMMA BecomesTraces ==
  ASSUME V!PreviewsAssumption, ViewInv, TraceInv, NEW f \in [Names -> V!Contents \cup {V!None}], V!Becomes(f),
         UNCHANGED <<kind, cache, poisoned>>, returned \subseteq returned', came' \in Nat, came <= came',
         \A p \in Names : f[p] <= came',
         \A p \in Names, v \in V!Contents :
           <<p, v>> \in poisoned /\ f[p] = v /\ pics[p] # v => <<p, v>> \in returned'
  PROVE  TraceInv'
<1>1. pics' = f /\ view' = [r \in Viewers |->
       IF view[r].path # V!None THEN [view[r] EXCEPT !.seen = @ \cup {f[view[r].path]}] ELSE view[r]]
  BY DEF V!Becomes
<1>2. ASSUME NEW r \in Viewers
      PROVE  /\ view'[r].at = view[r].at /\ view'[r].path = view[r].path /\ view'[r].ver = view[r].ver
             /\ view'[r].pic = view[r].pic /\ view[r].seen \subseteq view'[r].seen
             /\ view[r].path \in Names => f[view[r].path] \in view'[r].seen
  <2>1. view[r] \in ViewRecs BY ViewIs
  <2>2. CASE view[r].path # V!None
    <3>1. PICK c : c = f[view[r].path] OBVIOUS
    <3>2. view'[r] = [view[r] EXCEPT !.seen = @ \cup {c}] BY <1>1, <2>2, <3>1
    <3> QED BY <2>1, <3>1, <3>2 DEF ViewRecs
  <2>3. CASE view[r].path = V!None
    <3>1. V!None \notin Names BY Numbers DEF V!None
    <3> QED BY <1>1, <2>1, <2>3, <3>1
  <2> QED BY <2>2, <2>3
<1>3. \A r \in Viewers : view[r].at \in Looking => view[r].path \in Names /\ view[r].ver \in V!Contents
  BY ViewIs DEF Looked
<1>4. ASSUME NEW p \in Names, NEW v \in V!Contents, NEW pic, Traced(p, v, pic), Right(p, v, pic)
      PROVE  Traced(p, v, pic)'
  <2> SUFFICES ASSUME pic # v, <<p, v>> \notin returned' PROVE Traced(p, v, pic)'
    BY DEF Traced
  <2>1. <<p, v>> \in poisoned /\ <<p, v>> \notin returned BY <1>4 DEF Right
  <2>2. /\ pics[p] # v
        /\ \A w \in Viewers : view[w].at \in Looking /\ view[w].path = p /\ view[w].ver = v => pic \in view[w].seen
    BY <1>4, <2>1 DEF Traced
  <2>3. f[p] # v BY <2>1, <2>2
  <2> QED BY <1>1, <1>2, <2>2, <2>3 DEF Traced
<1>5. CacheTraced'
  <2>1. ASSUME NEW p \in Names, NEW v \in V!Contents, NEW s \in V!PreviewSizes, NEW pic, kind[p] # "audio",
               pic = cache[V!CacheKey(p, v, s)], pic \notin {V!None, V!Empty}
        PROVE  Traced(p, v, pic)'
    <3>1. Traced(p, v, pic) BY <2>1 DEF TraceInv, CacheTraced
    <3>2. Right(p, v, pic) BY <2>1 DEF ViewInv, CacheRight
    <3> QED BY <1>4, <3>1, <3>2
  <2>2. ASSUME NEW p \in Names, NEW v \in V!Contents, NEW s \in V!PreviewSizes
        PROVE  V!CacheKey(p, v, s)' = V!CacheKey(p, v, s)
    BY DEF V!CacheKey
  <2> QED BY <2>1, <2>2 DEF CacheTraced, Traced
<1>6. ASSUME NEW w \in Viewers PROVE PicTraced(w)'
  <2>1. PICK k \in ViewRecs : k = view[w] BY ViewIs
  <2>2. view'[w].at = k.at /\ view'[w].path = k.path /\ view'[w].ver = k.ver /\ view'[w].pic = k.pic BY <1>2, <2>1
  <2>3. PicTraced(w) /\ Shown(k) BY <2>1, ViewIs DEF TraceInv
  <2>4. k.at \in Looking => k.path \in Names /\ k.ver \in V!Contents BY <1>3, <2>1
  <2>5. k.at \in InFlight => Traced(k.path, k.ver, k.pic)'
    <3>1. k.at \in InFlight => Traced(k.path, k.ver, k.pic) /\ Right(k.path, k.ver, k.pic)
      BY <2>1, <2>3 DEF PicTraced, Shown, InFlight
    <3> QED BY <1>4, <2>4, <3>1 DEF InFlight, Looking
  <2>6. k.at = "served" => k.pic = V!Empty \/ Traced(k.path, k.ver, k.pic)'
    <3>1. k.at = "served" /\ k.pic # V!Empty => Traced(k.path, k.ver, k.pic) /\ Right(k.path, k.ver, k.pic)
      BY <2>1, <2>3 DEF PicTraced, Shown
    <3> QED BY <1>4, <2>4, <3>1 DEF Looking
  <2> QED BY <2>2, <2>5, <2>6 DEF PicTraced, Traced
<1>7. Olds'
  <2>1. \A p \in Names : pics'[p] <= came' BY <1>1
  <2>2. ASSUME NEW w \in Viewers, view'[w].at \in Looking PROVE view'[w].ver <= came'
    <3>1. view[w].at \in Looking /\ view[w].ver <= came /\ view[w].ver \in V!Contents
      BY <1>2, <1>3, <2>2 DEF TraceInv, Olds
    <3>2. view[w].ver \in Nat /\ came \in Nat BY <3>1, Numbers DEF ViewInv, ViewType
    <3>3. PICK n \in Nat : n = view[w].ver BY <3>2
    <3>4. n <= came' BY <3>1, <3>2, <3>3
    <3> QED BY <1>2, <3>3, <3>4
  <2>3. ASSUME NEW p \in Names, NEW v \in V!Contents, <<p, v>> \in poisoned' PROVE v <= came'
    <3>1. v <= came BY <2>3 DEF TraceInv, Olds
    <3>2. v \in Nat /\ came \in Nat BY Numbers DEF ViewInv, ViewType
    <3> QED BY <3>1, <3>2
  <2> QED BY <2>1, <2>2, <2>3 DEF Olds
<1>8. ASSUME NEW w \in Viewers, view'[w].at \in Looking PROVE pics'[view'[w].path] \in view'[w].seen
  BY <1>1, <1>2, <1>3, <1>8
<1> QED BY <1>5, <1>6, <1>7, <1>8 DEF TraceInv

LEMMA ApplyTraces ==
  ASSUME V!PreviewsAssumption, ViewInv, TraceInv, V!Apply
  PROVE  TraceInv'
<1>1. PICK p : p = change.path OBVIOUS
<1>2. /\ change.at = "deleted" /\ UNCHANGED <<kind, cache, poisoned>> BY DEF V!Apply
<1>3. p \in Names /\ (change.what = "overwrite" => came < MaxContent) BY <1>1, <1>2 DEF ViewInv, ViewType
<1>4. pics \in [Names -> V!Contents \cup {V!None}] /\ came \in Nat BY DEF ViewInv, ViewType
<1>5. \A n \in Names : pics[n] <= came BY DEF TraceInv, Olds
<1>6. \A n \in Names : pics[n] \in Nat BY <1>4, Numbers, NoneIs
<1>7. V!None = 0 /\ V!None \notin V!Contents BY Numbers
<1>8. CASE /\ change.what = "overwrite" /\ came' = came + 1 /\ UNCHANGED returned
           /\ V!Becomes([pics EXCEPT ![p] = came + 1])
  <2>1. came + 1 \in V!Contents BY <1>3, <1>4, <1>8, Numbers
  <2>2. PICK f : f = [pics EXCEPT ![p] = came + 1] OBVIOUS
  <2>3. f \in [Names -> V!Contents \cup {V!None}] /\ \A n \in Names : f[n] \in {pics[n], came + 1} /\ (n # p => f[n] = pics[n])
    BY <1>4, <2>1, <2>2
  <2>4. ASSUME NEW n \in Names PROVE f[n] <= came'
    BY <1>4, <1>5, <1>6, <1>8, <2>3
  <2>5. ASSUME NEW n \in Names, NEW v \in V!Contents, <<n, v>> \in poisoned, f[n] = v, pics[n] # v
        PROVE  <<n, v>> \in returned'
    <3>1. v = came + 1 /\ v <= came BY <2>3, <2>5 DEF TraceInv, Olds
    <3> QED BY <1>4, <3>1
  <2>6. came' \in Nat /\ came <= came' BY <1>4, <1>8
  <2> QED BY <1>2, <1>8, <2>2, <2>3, <2>4, <2>5, <2>6, BecomesTraces
<1>9. CASE V!Becomes([pics EXCEPT ![p] = V!None]) /\ UNCHANGED <<came, returned>>
  <2>1. PICK f : f = [pics EXCEPT ![p] = V!None] OBVIOUS
  <2>2. f \in [Names -> V!Contents \cup {V!None}] /\ \A n \in Names : f[n] \in {pics[n], V!None} BY <1>4, <2>1
  <2>3. ASSUME NEW n \in Names PROVE f[n] <= came' BY <1>4, <1>5, <1>6, <1>7, <1>9, <2>2
  <2>4. \A n \in Names, v \in V!Contents : f[n] = v => pics[n] = v BY <1>7, <2>2
  <2>5. came' \in Nat /\ came <= came' /\ returned \subseteq returned' BY <1>4, <1>9
  <2>6. V!Becomes(f) BY <1>9, <2>1
  <2> QED BY <1>2, <2>2, <2>3, <2>4, <2>5, <2>6, BecomesTraces
<1>10. ASSUME NEW q \in Names, V!Becomes([pics EXCEPT ![q] = pics[p], ![p] = V!None]), UNCHANGED came,
              returned' = returned \cup ({<<q, pics[p]>>} \cap poisoned)
       PROVE  TraceInv'
  <2>1. PICK f : f = [pics EXCEPT ![q] = pics[p], ![p] = V!None] OBVIOUS
  <2>2. /\ f \in [Names -> V!Contents \cup {V!None}]
        /\ \A n \in Names : f[n] \in {pics[n], V!None} \/ (n = q /\ f[n] = pics[p])
    BY <1>3, <1>4, <2>1
  <2>3. ASSUME NEW n \in Names PROVE f[n] <= came' BY <1>3, <1>4, <1>5, <1>6, <1>7, <1>10, <2>2
  <2>4. \A n \in Names, v \in V!Contents : <<n, v>> \in poisoned /\ f[n] = v /\ pics[n] # v => <<n, v>> \in returned'
    BY <1>7, <1>10, <2>2
  <2>5. came' \in Nat /\ came <= came' /\ returned \subseteq returned' BY <1>4, <1>10
  <2>6. V!Becomes(f) BY <1>10, <2>1
  <2> QED BY <1>2, <2>2, <2>3, <2>4, <2>5, <2>6, BecomesTraces
<1>11. CASE UNCHANGED <<pics, came, view, returned>>
  <2>1. \A n \in Names, v \in V!Contents, s \in V!PreviewSizes : V!CacheKey(n, v, s)' = V!CacheKey(n, v, s)
    BY <1>2 DEF V!CacheKey
  <2> QED BY <1>2, <1>11, <2>1 DEF TraceInv, CacheTraced, PicTraced, Traced, Olds
<1> QED BY <1>1, <1>8, <1>9, <1>10, <1>11 DEF V!Apply

\* A thumbnail is removed, or nothing happens to files, pictures and requests.
LEMMA LookTraces ==
  ASSUME V!PreviewsAssumption, ViewInv, TraceInv, UNCHANGED <<kind, pics, came, view, poisoned, returned>>,
         UNCHANGED cache \/ \E k : cache' = [cache EXCEPT ![k] = V!None]
  PROVE  TraceInv'
<1>1. \A n \in Names, v \in V!Contents, s \in V!PreviewSizes : V!CacheKey(n, v, s)' = V!CacheKey(n, v, s)
  BY DEF V!CacheKey
<1>2. ASSUME NEW n \in Names, NEW v \in V!Contents, NEW s \in V!PreviewSizes
      PROVE  cache'[V!CacheKey(n, v, s)] \in {V!None, cache[V!CacheKey(n, v, s)]}
  <2>1. V!CacheKey(n, v, s) \in V!CacheKeys BY DEF V!CacheKey, V!CacheKeys
  <2>2. cache \in [V!CacheKeys -> Pictures] BY DEF ViewInv, ViewType
  <2> QED BY <2>1, <2>2
<1>3. CacheTraced'
  <2>1. ASSUME NEW n \in Names, NEW v \in V!Contents, NEW s \in V!PreviewSizes, NEW pic,
               pic = cache'[V!CacheKey(n, v, s)], kind[n] # "audio", pic \notin {V!None, V!Empty}
        PROVE  Traced(n, v, pic)'
    <3>1. pic = cache[V!CacheKey(n, v, s)] BY <1>2, <2>1
    <3>2. Traced(n, v, pic) BY <2>1, <3>1 DEF TraceInv, CacheTraced
    <3> QED BY <3>2 DEF Traced
  <2> QED BY <1>1, <2>1 DEF CacheTraced, Traced
<1> QED BY <1>3 DEF TraceInv, PicTraced, Traced, Olds

LEMMA RestartTraces ==
  ASSUME V!PreviewsAssumption, ViewInv, TraceInv, V!Restart
  PROVE  TraceInv'
<1>1. /\ view' = [r \in Viewers |->
            IF view[r].at \in {"idle", "served", "failed"} THEN view[r] ELSE [V!Nobody EXCEPT !.at = "failed"]]
      /\ UNCHANGED <<kind, pics, came, cache, poisoned, returned>>
  BY DEF V!Restart
<1>2. ASSUME NEW r \in Viewers, view'[r].at \in Looking PROVE view'[r] = view[r]
  <2>1. "failed" \notin Looking BY DEF Looking
  <2> QED BY <1>1, <1>2, <2>1, NobodyIs
<1>3. \A p, v, pic : Traced(p, v, pic) => Traced(p, v, pic)' BY <1>1, <1>2 DEF Traced
<1>4. \A n \in Names, v \in V!Contents, s \in V!PreviewSizes : V!CacheKey(n, v, s)' = V!CacheKey(n, v, s)
  BY <1>1 DEF V!CacheKey
<1>5. CacheTraced'
  <2>1. ASSUME NEW n \in Names, NEW v \in V!Contents, NEW s \in V!PreviewSizes, NEW pic,
               pic = cache[V!CacheKey(n, v, s)], kind[n] # "audio", pic \notin {V!None, V!Empty}
        PROVE  Traced(n, v, pic)'
    <3>1. Traced(n, v, pic) BY <2>1 DEF TraceInv, CacheTraced
    <3> QED BY <1>3, <3>1
  <2> QED BY <1>1, <1>4, <2>1 DEF CacheTraced, Traced
<1>6. ASSUME NEW r \in Viewers PROVE PicTraced(r)'
  <2>1. CASE view'[r].at \in Looking
    <3>1. PICK k : k = view[r] OBVIOUS
    <3>2. view'[r] = k BY <1>2, <2>1, <3>1
    <3>3. PicTraced(r) BY DEF TraceInv
    <3>4. k.at \in InFlight => Traced(k.path, k.ver, k.pic)' BY <1>3, <3>1, <3>3 DEF PicTraced
    <3>5. k.at = "served" => k.pic = V!Empty \/ Traced(k.path, k.ver, k.pic)' BY <1>3, <3>1, <3>3 DEF PicTraced
    <3> QED BY <3>2, <3>4, <3>5 DEF PicTraced, Traced
  <2>2. CASE view'[r].at \notin Looking BY <2>2 DEF PicTraced, Looking, InFlight
  <2> QED BY <2>1, <2>2
<1>7. Olds' BY <1>1, <1>2 DEF TraceInv, Olds
<1>8. \A r \in Viewers : view'[r].at \in Looking => pics'[view'[r].path] \in view'[r].seen BY <1>1, <1>2 DEF TraceInv
<1> QED BY <1>5, <1>6, <1>7, <1>8 DEF TraceInv

LEMMA TraceStep ==
  ASSUME V!PreviewsAssumption, ViewInv, ViewInv', TraceInv, [V!Next]_V!vars
  PROVE  TraceInv'
<1>1. CASE UNCHANGED V!vars
  <2>1. UNCHANGED <<kind, pics, came, cache, view, poisoned, returned>> BY <1>1 DEF V!vars
  <2> QED BY <2>1, LookTraces
<1>2. CASE V!DelThumbs \/ \E p \in Names, what \in {"overwrite", "delete", "move"} : V!Look(p, what)
  <2>1. /\ UNCHANGED <<kind, pics, came, view, poisoned, returned>>
        /\ UNCHANGED cache \/ \E k : cache' = [cache EXCEPT ![k] = V!None]
    BY <1>2 DEF V!DelThumbs, V!Look
  <2> QED BY <2>1, LookTraces
<1> QED BY <1>1, <1>2, ServeTraces, ApplyTraces, RestartTraces DEF V!Next

LEMMA ViewShows == ASSUME ViewInv, TraceInv PROVE V!ShowsWhatWasThere
<1> SUFFICES ASSUME NEW r \in Viewers, view[r].at = "served", view[r].pic # V!Empty,
                    <<view[r].path, view[r].ver>> \notin returned
             PROVE  view[r].pic \in view[r].seen
  BY DEF V!ShowsWhatWasThere
<1>1. view[r].at \in Looking BY DEF Looking
<1>2. view[r].ver \in view[r].seen BY <1>1, ViewIs DEF Looked
<1>3. Traced(view[r].path, view[r].ver, view[r].pic) BY DEF TraceInv, PicTraced
<1> QED BY <1>1, <1>2, <1>3 DEF Traced

\* PicturesMatch: every slot of a generator that is in use is held by a request
\* that gives it back, every lock of the cache by the request that is writing that
\* picture, and an answered picture shows what was at its path when it was asked for
\* or came there before the answer, though files are replaced, deleted and moved
\* while their pictures are made.  Excepted is a content that came back to a path where
\* another was read in its place, and a picture that was left without bytes.
THEOREM PicturesMatchAlways == ASSUME V!PreviewsAssumption PROVE ViewsSpec => []PicturesMatch
<1> DEFINE PicInv == ViewInv /\ SlotInv /\ V!LocksHeld /\ TraceInv
<1>1. ViewsInit => (part = "previews" => PicInv)
  BY PreviewsInit, SlotInit, LockInit, TraceInit DEF ViewsInit
<1>2. (part = "previews" => PicInv) /\ [ViewsNext]_viewsVars => (part = "previews" => PicInv)'
  <2> SUFFICES ASSUME part = "previews" => PicInv, [ViewsNext]_viewsVars, part' = "previews"
               PROVE  PicInv'
    OBVIOUS
  <2>1. part = "previews" /\ [V!Next]_V!vars BY DEF ViewsNext, viewsVars, previewVars, V!vars
  <2>2. ViewInv' BY <2>1, ViewStep
  <2> QED BY <2>1, <2>2, SlotStep, LockStep, TraceStep
<1>3. (part = "previews" => PicInv) => PicturesMatch
  BY ViewShows, SlotsAreHeld DEF PicturesMatch, V!PicturesMatch
<1> QED BY <1>1, <1>2, <1>3, PTL DEF ViewsSpec

-------------------------------------------------------------------------------
(* Downloads.  The tree: a node, the folder it is in, the folder that is in, ...  *)

LEMMA Tree ==
  ASSUME W!DownloadsAssumption
  PROVE  /\ IsFiniteSet(Nodes) /\ Nodes \subseteq Nat \ {W!Top} /\ W!Top \in Nat
         /\ Folders \subseteq Nodes
         /\ \A n \in Nodes : Parent[n] \in Folders \cup {W!Top} /\ Parent[n] \in Nat /\ Parent[n] < n
         /\ MaxSize \in Nat /\ W!Missing \in Nat /\ W!Missing \notin 0 .. MaxSize
         /\ Sizes \in [Nodes -> 0 .. MaxSize] /\ \A n \in Folders : Sizes[n] = 0
         /\ \A r \in Requests : r.list \in SUBSET Nodes
         /\ MaxArchive \in Nat
<1>1. IsFiniteSet(Nodes) BY DEF W!DownloadsAssumption, W!IsFiniteSet, IsFiniteSet
<1>2. Nodes \subseteq Nat \ {W!Top} /\ W!Top \in Nat BY DEF W!DownloadsAssumption, W!Top
<1>3. Folders \subseteq Nodes BY DEF W!DownloadsAssumption
<1>4. \A n \in Nodes : Parent[n] \in Folders \cup {W!Top} /\ Parent[n] < n BY DEF W!DownloadsAssumption
<1>5. \A n \in Nodes : Parent[n] \in Nat BY <1>2, <1>3, <1>4
<1>6. MaxSize \in Nat BY DEF W!DownloadsAssumption
<1>7. W!Missing \in Nat /\ W!Missing \notin 0 .. MaxSize BY <1>6 DEF W!Missing
<1>8. Sizes \in [Nodes -> 0 .. MaxSize] /\ \A n \in Folders : Sizes[n] = 0 BY DEF W!DownloadsAssumption
<1>9. (\A r \in Requests : r.list \in SUBSET Nodes) /\ MaxArchive \in Nat BY DEF W!DownloadsAssumption
<1> QED BY <1>1, <1>2, <1>3, <1>4, <1>5, <1>6, <1>7, <1>8, <1>9

\* With a node what it is in.
Closed(S) == \A m \in S : Parent[m] # W!Top => Parent[m] \in S
\* The least such set a node is in.
Up(n) == {m \in Nodes : \A S \in SUBSET Nodes : n \in S /\ Closed(S) => m \in S}

LEMMA UpIs ==
  ASSUME W!DownloadsAssumption, NEW n \in Nodes
  PROVE  Up(n) = {n} \cup IF Parent[n] = W!Top THEN {} ELSE Up(Parent[n])
<1>1. n \in Up(n) BY DEF Up
<1>2. CASE Parent[n] = W!Top
  <2>1. {n} \in SUBSET Nodes /\ n \in {n} /\ Closed({n}) BY <1>2 DEF Closed
  <2>2. Up(n) \subseteq {n} BY <2>1 DEF Up
  <2> QED BY <1>1, <1>2, <2>2
<1>3. CASE Parent[n] # W!Top
  <2>1. PICK p \in Nodes : p = Parent[n] BY <1>3, Tree
  <2>2. Up(p) \subseteq Up(n)
    <3> SUFFICES ASSUME NEW m \in Up(p), NEW S \in SUBSET Nodes, n \in S, Closed(S) PROVE m \in S BY DEF Up
    <3>1. p \in S BY <1>3, <2>1 DEF Closed
    <3> QED BY <3>1 DEF Up
  <2>3. p \in Up(p) BY DEF Up
  <2>4. Closed(Up(p))
    <3> SUFFICES ASSUME NEW m \in Up(p), Parent[m] # W!Top PROVE Parent[m] \in Up(p) BY DEF Closed
    <3>1. m \in Nodes BY DEF Up
    <3>2. Parent[m] \in Nodes BY <3>1, Tree
    <3>3. ASSUME NEW S \in SUBSET Nodes, p \in S, Closed(S) PROVE Parent[m] \in S
      <4>1. m \in S BY <3>3 DEF Up
      <4> QED BY <3>3, <4>1 DEF Closed
    <3> QED BY <3>2, <3>3 DEF Up
  <2>5. PICK T : T = {n} \cup Up(p) OBVIOUS
  <2>6. Closed(T) BY <2>1, <2>3, <2>4, <2>5 DEF Closed
  <2>7. T \in SUBSET Nodes /\ n \in T BY <2>5 DEF Up
  <2>8. Up(n) \subseteq T BY <2>6, <2>7 DEF Up
  <2>9. Up(n) = {n} \cup Up(p) BY <1>1, <2>2, <2>5, <2>8
  <2> QED BY <1>3, <2>1, <2>9
<1> QED BY <1>2, <1>3

(* There is a function that goes up the tree.                                    *)
LEMMA AboveIs ==
  ASSUME W!DownloadsAssumption
  PROVE  \A n \in Nodes : W!Above[n] = {n} \cup IF Parent[n] = W!Top THEN {} ELSE W!Above[Parent[n]]
<1>1. PICK g : g = [n \in Nodes |-> Up(n)] OBVIOUS
<1>2. ASSUME NEW n \in Nodes PROVE g[n] = {n} \cup IF Parent[n] = W!Top THEN {} ELSE g[Parent[n]]
  <2>1. CASE Parent[n] = W!Top BY <1>1, <2>1, UpIs
  <2>2. CASE Parent[n] # W!Top
    <3>1. Parent[n] \in Nodes BY <2>2, Tree
    <3>2. g[n] = Up(n) /\ g[Parent[n]] = Up(Parent[n]) BY <1>1, <3>1
    <3>3. Up(n) = {n} \cup Up(Parent[n]) BY <2>2, UpIs
    <3> QED BY <2>2, <3>2, <3>3
  <2> QED BY <2>1, <2>2
<1>3. g = [n \in Nodes |-> {n} \cup IF Parent[n] = W!Top THEN {} ELSE g[Parent[n]]] BY <1>1, <1>2
<1>4. W!Above = [n \in Nodes |-> {n} \cup IF Parent[n] = W!Top THEN {} ELSE W!Above[Parent[n]]]
  BY <1>3 DEF W!Above
<1> QED BY <1>4

(* It gives no more than what every closed set has that has the node.              *)
LEMMA AboveLeast ==
  ASSUME W!DownloadsAssumption, NEW S \in SUBSET Nodes, Closed(S), NEW n \in S
  PROVE  W!Above[n] \subseteq S
<1> SUFFICES ASSUME ~(W!Above[n] \subseteq S) PROVE FALSE OBVIOUS
<1> DEFINE Bad == {m \in S : ~(W!Above[m] \subseteq S)}
<1>1. Bad \in SUBSET Nat /\ Bad # {} BY Tree
<1>2. PICK x \in Bad : \A y \in Bad : x <= y BY <1>1, LeastIn
<1>3. x \in Nodes /\ x \in S OBVIOUS
<1>4. W!Above[x] = {x} \cup IF Parent[x] = W!Top THEN {} ELSE W!Above[Parent[x]] BY <1>3, AboveIs
<1>5. Parent[x] # W!Top BY <1>2, <1>3, <1>4
<1>6. Parent[x] \in S BY <1>3, <1>5 DEF Closed
<1>7. Parent[x] \in Nat /\ Parent[x] < x /\ x \in Nat BY <1>3, Tree
<1>8. Parent[x] \notin Bad BY <1>2, <1>7
<1>9. W!Above[Parent[x]] \subseteq S BY <1>6, <1>8
<1> QED BY <1>2, <1>3, <1>4, <1>5, <1>9

LEMMA AboveClosed ==
  ASSUME W!DownloadsAssumption, NEW n \in Nodes
  PROVE  W!Above[n] \in SUBSET Nodes /\ n \in W!Above[n] /\ Closed(W!Above[n])
<1>1. Closed(Nodes) BY Tree DEF Closed
<1>2. \A m \in Nodes : W!Above[m] \subseteq Nodes BY <1>1, AboveLeast
<1>3. \A m \in Nodes : m \in W!Above[m] BY AboveIs
<1> SUFFICES ASSUME ~Closed(W!Above[n]) PROVE FALSE BY <1>2, <1>3
<1> DEFINE Bad == {m \in Nodes : ~Closed(W!Above[m])}
<1>4. Bad \in SUBSET Nat /\ Bad # {} BY Tree
<1>5. PICK x \in Bad : \A y \in Bad : x <= y BY <1>4, LeastIn
<1>6. x \in Nodes OBVIOUS
<1>7. W!Above[x] = {x} \cup IF Parent[x] = W!Top THEN {} ELSE W!Above[Parent[x]] BY <1>6, AboveIs
<1>8. Parent[x] \in Nat /\ Parent[x] < x /\ x \in Nat BY <1>6, Tree
<1>9. Parent[x] \notin Bad BY <1>5, <1>8
<1>10. CASE Parent[x] = W!Top BY <1>5, <1>7, <1>10 DEF Closed
<1>11. CASE Parent[x] # W!Top
  <2>1. Parent[x] \in Nodes BY <1>6, <1>11, Tree
  <2>2. Closed(W!Above[Parent[x]]) /\ Parent[x] \in W!Above[Parent[x]] BY <1>3, <1>9, <2>1
  <2>3. Closed(W!Above[x]) BY <1>7, <1>11, <2>2 DEF Closed
  <2> QED BY <1>5, <2>3
<1> QED BY <1>10, <1>11

(* What is above what is above a node is above it, and comes before it.             *)
LEMMA AboveTransitive ==
  ASSUME W!DownloadsAssumption, NEW n \in Nodes, NEW m \in W!Above[n]
  PROVE  m \in Nodes /\ W!Above[m] \subseteq W!Above[n]
BY AboveClosed, AboveLeast

LEMMA AboveBefore ==
  ASSUME W!DownloadsAssumption, NEW n \in Nodes, NEW m \in W!Above[n]
  PROVE  m <= n
<1>1. PICK S : S = {x \in Nodes : x <= n} OBVIOUS
<1>2. ASSUME NEW x \in S, Parent[x] # W!Top PROVE Parent[x] \in S
  <2>1. x \in Nodes /\ x <= n BY <1>1
  <2>2. Parent[x] \in Nodes /\ Parent[x] < x BY <1>2, <2>1, Tree
  <2>3. Parent[x] \in Nat /\ x \in Nat /\ n \in Nat BY <2>1, <2>2, Tree
  <2>4. Parent[x] <= n BY <2>1, <2>2, <2>3
  <2> QED BY <1>1, <2>2, <2>4
<1>3. S \in SUBSET Nodes /\ n \in S BY <1>1, Tree
<1>4. W!Above[n] \subseteq S BY <1>2, <1>3, AboveLeast DEF Closed
<1> QED BY <1>1, <1>4

(* On the way up to a folder is one of those in it.                                *)
LEMMA ChildOf ==
  ASSUME W!DownloadsAssumption, NEW n \in Nodes, NEW m \in W!Above[n], m # n
  PROVE  \E c \in W!Above[n] : c \in Nodes /\ Parent[c] = m
<1>1. PICK S : S = {x \in W!Above[n] : x = n \/ \E c \in W!Above[n] : Parent[c] = x} OBVIOUS
<1>2. W!Above[n] \in SUBSET Nodes /\ n \in W!Above[n] /\ Closed(W!Above[n]) BY AboveClosed
<1>3. S \in SUBSET Nodes /\ n \in S BY <1>1, <1>2
<1>4. Closed(S) BY <1>1, <1>2 DEF Closed
<1>5. W!Above[n] \subseteq S BY <1>3, <1>4, AboveLeast
<1> QED BY <1>1, <1>2, <1>5

(* A fold of the library over some of the nodes is their sum.                        *)
LEMMA SumOnIs ==
  ASSUME W!DownloadsAssumption, NEW f \in [Nodes -> Nat], NEW S \in SUBSET Nodes
  PROVE  W!SumFunctionOnSet(f, S) = Total(f, S) /\ Total(f, S) \in Nat
<1>1. IsFiniteSet(S) /\ f \in [Nodes -> Int] BY Tree, FS_Subset
<1>2. W!SumFunctionOnSet(f, S)
        = (CHOOSE g : g = [s \in SUBSET S |->
                             IF s = {} THEN 0 ELSE f[Some(s)] + g[s \ {Some(s)}]])[S]
  BY DEF W!SumFunctionOnSet, W!FoldFunctionOnSet, W!MapThenFoldSet, Some
<1> QED BY <1>1, <1>2, Folded, TotalNat

(* What is below some nodes is below one of them.                                    *)
LEMMA BelowIs ==
  ASSUME W!DownloadsAssumption
  PROVE  /\ \A S : W!Below(S) \in SUBSET Nodes
         /\ \A S \in SUBSET Nodes, n \in Nodes : n \in W!Below(S) <=> \E m \in S : m \in W!Above[n]
         /\ \A S \in SUBSET Nodes : \A x \in S : W!Below(S) = W!Below(S \ {x}) \cup W!Below({x})
         /\ W!Below({}) = {}
BY DEF W!Below, W!Inside

(* What is below some nodes weighs no more than what is below each, added up.          *)
LEMMA SumBelow ==
  ASSUME W!DownloadsAssumption, NEW f \in [Nodes -> Nat], NEW h \in [Nodes -> Nat],
         NEW L \in SUBSET Nodes, \A n \in L : h[n] = Total(f, W!Below({n})),
         NEW A \in SUBSET W!Below(L)
  PROVE  Total(f, A) <= Total(h, L)
<1> DEFINE C == {s \in SUBSET L : Total(f, W!Below(s)) <= Total(h, s)}
<1>1. \A s \in SUBSET Nodes : IsFiniteSet(s) /\ Total(f, s) \in Nat /\ Total(h, s) \in Nat
  BY Tree, FS_Subset, TotalNat
<1>2. {} \in C BY BelowIs, TotalEmpty
<1>3. ASSUME NEW s \in SUBSET L, NEW x \in s, s \ {x} \in C PROVE s \in C
  <2>1. PICK q \in SUBSET L : q = s \ {x} OBVIOUS
  <2>2. PICK b \in SUBSET Nodes : b = W!Below(q) BY BelowIs
  <2>3. PICK e \in SUBSET Nodes : e = W!Below({x}) BY BelowIs
  <2>4. W!Below(s) = b \cup e BY <2>1, <2>2, <2>3, BelowIs
  <2>5. Total(f, b \cup e) <= Total(f, b) + Total(f, e) BY <1>1, TotalUnion
  <2>6. h \in [Nodes -> Int] /\ s \in SUBSET Nodes /\ x \in L OBVIOUS
  <2>7. Total(h, s) = h[x] + Total(h, q) BY <1>1, <2>1, <2>6, TotalElement
  <2>8. h[x] = Total(f, e) BY <2>3, <2>6
  <2>9. Total(f, b) <= Total(h, q) BY <1>3, <2>1, <2>2
  <2>10. /\ Total(f, b \cup e) \in Nat /\ Total(f, b) \in Nat /\ Total(f, e) \in Nat
         /\ Total(h, q) \in Nat /\ Total(h, s) \in Nat
    BY <1>1
  <2>11. Total(f, W!Below(s)) <= Total(h, s) BY <2>4, <2>5, <2>7, <2>8, <2>9, <2>10
  <2> QED BY <2>11
<1> HIDE DEF C
<1>4. IsFiniteSet(L) BY <1>1
<1>5. \A s \in SUBSET L : s \in C BY <1>2, <1>3, <1>4, SubsetInduct
<1>6. PICK b \in SUBSET Nodes : b = W!Below(L) BY BelowIs
<1>7. Total(f, b) <= Total(h, L) BY <1>5, <1>6 DEF C
<1>8. A \in SUBSET b BY <1>6
<1>9. Total(f, A) <= Total(f, b) BY <1>1, <1>8, TotalSubset
<1> QED BY <1>1, <1>6, <1>7, <1>8, <1>9

-------------------------------------------------------------------------------
(* Downloads.  The invariant.                                                      *)

Underway == {"walk", "copy", "send"}
GetAts == Underway \cup {"idle", "stream", "refused", "cut", "done", "left", "failed"}
Forms == {"zip"} \cup {r.form : r \in Requests}
GetRecs == [at : GetAts, list : SUBSET Nodes, form : Forms, pending : SUBSET Nodes,
            cur : Nodes \cup {W!Top}, told : Nat, sum : Int]

GetType ==
  /\ bytes \in [Nodes -> 0 .. W!Missing] /\ known \in [Nodes -> Nat] /\ denied \in SUBSET Nodes
  /\ get \in GetRecs
  /\ archive \in SUBSET (Nodes \cup {W!Top})
  /\ behind \in BOOLEAN

\* A folder has no size of its own, and what is there is in a folder that is.
Rooted ==
  /\ \A n \in Folders : W!There(n) => bytes[n] = 0
  /\ \A n \in Nodes : W!There(n) /\ Parent[n] # W!Top => W!There(Parent[n])

\* What is in the archive or about to be.
Taking == archive \cup IF get.at = "copy" THEN {get.cur} ELSE {}

\* The archive has been made of what was asked for; the rest is below what is pending.
OnWay ==
  get.at \in Underway =>
    /\ archive \subseteq Nodes
    /\ get.at = "copy" => get.cur \in Nodes \ Folders
    /\ always \subseteq W!Visible /\ W!Visible \subseteq ever
    /\ \A n \in Taking \cup get.pending : \E m \in get.list : m \in W!Above[n]
    /\ Taking \subseteq ever
    /\ \A n \in Taking : \A m \in get.pending : n < m
    /\ get.at = "copy" => \A n \in archive : n < get.cur
    /\ \A n \in always : (\E m \in get.list : m \in W!Above[n])
                           => n \in Taking \/ \E m \in get.pending : m \in W!Above[n]
    /\ get.at = "send" => get.pending = {}

\* What has been packed, while nothing changed.
Counted ==
  get.at \in Underway /\ ~behind =>
    /\ Taking \subseteq W!Visible
    /\ \A A \in SUBSET Nodes : A = archive => get.sum = W!Weight(A)
    /\ \A n \in get.list : known[n] = W!Weight(W!Below({n}))
    /\ MaxArchive # W!Unlimited => \A L \in SUBSET Nodes : L = get.list => W!Estimate(L) <= MaxArchive

ArchiveInv == GetType /\ Rooted /\ OnWay /\ Counted

(* The weight of some nodes is a natural, the sum of what they have.                   *)
LEMMA WeightIs ==
  ASSUME W!DownloadsAssumption, bytes \in [Nodes -> 0 .. W!Missing]
  PROVE  \E f \in [Nodes -> Nat] :
           /\ \A n \in Nodes : f[n] = IF W!There(n) THEN bytes[n] ELSE 0
           /\ \A S \in SUBSET Nodes : W!Weight(S) = Total(f, S) /\ Total(f, S) \in Nat
<1>1. PICK f : f = [n \in Nodes |-> IF bytes[n] = W!Missing THEN 0 ELSE bytes[n]] OBVIOUS
<1>2. f \in [Nodes -> Nat] BY <1>1, Tree
<1>3. \A n \in Nodes : f[n] = IF W!There(n) THEN bytes[n] ELSE 0 BY <1>1 DEF W!There
<1>4. ASSUME NEW S \in SUBSET Nodes PROVE W!Weight(S) = Total(f, S) /\ Total(f, S) \in Nat
  <2>1. W!Weight(S) = W!SumFunctionOnSet(f, S) BY <1>1 DEF W!Weight
  <2> QED BY <1>2, <2>1, SumOnIs
<1> QED BY <1>2, <1>3, <1>4

(* One more node weighs what it has, more.                                          *)
LEMMA WeightMore ==
  ASSUME W!DownloadsAssumption, bytes \in [Nodes -> 0 .. W!Missing], NEW S \in SUBSET Nodes, NEW n \in Nodes \ S,
         W!There(n)
  PROVE  W!Weight(S \cup {n}) = W!Weight(S) + bytes[n]
<1>1. PICK f \in [Nodes -> Nat] :
           /\ \A m \in Nodes : f[m] = IF W!There(m) THEN bytes[m] ELSE 0
           /\ \A R \in SUBSET Nodes : W!Weight(R) = Total(f, R) /\ Total(f, R) \in Nat
  BY WeightIs
<1>2. PICK R \in SUBSET Nodes : R = S \cup {n} OBVIOUS
<1>3. R \ {n} = S /\ n \in R BY <1>2
<1>4. IsFiniteSet(R) /\ f \in [Nodes -> Int] BY Tree, FS_Subset
<1>5. Total(f, R) = f[n] + Total(f, S) BY <1>3, <1>4, TotalElement
<1>6. W!Weight(R) = Total(f, R) /\ W!Weight(S) = Total(f, S) /\ Total(f, S) \in Nat BY <1>1
<1>7. f[n] = bytes[n] /\ f[n] \in Nat BY <1>1
<1> QED BY <1>2, <1>5, <1>6, <1>7

LEMMA WeightNone ==
  ASSUME W!DownloadsAssumption, bytes \in [Nodes -> 0 .. W!Missing]
  PROVE  W!Weight({}) = 0
BY WeightIs, TotalEmpty

(* What is estimated of a list is a natural, the sum of what is known of its nodes.       *)
LEMMA EstimateIs ==
  ASSUME W!DownloadsAssumption, known \in [Nodes -> Nat]
  PROVE  \E h \in [Nodes -> Nat] :
           /\ \A n \in Nodes : h[n] = IF W!Permitted(n) THEN known[n] ELSE 0
           /\ \A S \in SUBSET Nodes : W!Estimate(S) = Total(h, S) /\ Total(h, S) \in Nat
<1>1. PICK h : h = [n \in Nodes |-> IF W!Permitted(n) THEN known[n] ELSE 0] OBVIOUS
<1>2. h \in [Nodes -> Nat] BY <1>1
<1>3. \A n \in Nodes : h[n] = IF W!Permitted(n) THEN known[n] ELSE 0 BY <1>1
<1>4. ASSUME NEW S \in SUBSET Nodes PROVE W!Estimate(S) = Total(h, S) /\ Total(h, S) \in Nat
  <2>1. W!Estimate(S) = W!SumFunctionOnSet(h, S) BY <1>1 DEF W!Estimate
  <2> QED BY <1>2, <2>1, SumOnIs
<1> QED BY <1>2, <1>3, <1>4

(* With the user sees a node, there and permitted, what it is in.                        *)
LEMMA SeenAbove ==
  ASSUME W!DownloadsAssumption, ArchiveInv, NEW n \in Nodes, NEW m \in W!Above[n]
  PROVE  /\ m \in Nodes
         /\ W!There(n) => W!There(m)
         /\ W!Permitted(n) => W!Permitted(m)
<1>1. m \in Nodes /\ W!Above[m] \subseteq W!Above[n] BY AboveTransitive
<1>2. ASSUME W!There(n) PROVE W!There(m)
  <2>1. PICK S : S = {x \in Nodes : W!There(x)} OBVIOUS
  <2>2. S \in SUBSET Nodes /\ n \in S BY <1>2, <2>1
  <2>3. ASSUME NEW x \in S, Parent[x] # W!Top PROVE Parent[x] \in S
    <3>1. x \in Nodes /\ W!There(x) BY <2>1
    <3>2. Parent[x] \in Nodes BY <2>3, <3>1, Tree
    <3>3. W!There(Parent[x]) BY <2>3, <3>1 DEF ArchiveInv, Rooted
    <3> QED BY <2>1, <3>2, <3>3
  <2>4. W!Above[n] \subseteq S BY <2>2, <2>3, AboveLeast DEF Closed
  <2> QED BY <2>1, <2>4
<1>3. ASSUME W!Permitted(n) PROVE W!Permitted(m) BY <1>1, <1>3 DEF W!Permitted, W!Inside
<1> QED BY <1>1, <1>2, <1>3

-------------------------------------------------------------------------------
(* What the invariant shows                                                       *)

LEMMA ArchiveShown ==
  ASSUME W!DownloadsAssumption, ArchiveInv
  PROVE  W!ArchiveIsExact
<1> SUFFICES ASSUME get.at = "send"
             PROVE  /\ always \cap W!Below(get.list) \subseteq archive
                    /\ archive \subseteq ever \cap W!Below(get.list)
  BY DEF W!ArchiveIsExact
<1>1. get.at \in Underway /\ Taking = archive BY DEF Underway, Taking
<1>2. get.list \in SUBSET Nodes BY DEF ArchiveInv, GetType, GetRecs
<1>3. ASSUME NEW n \in always, n \in W!Below(get.list) PROVE n \in archive
  <2>1. \E m \in get.list : m \in W!Above[n] BY <1>3 DEF W!Below, W!Inside
  <2>2. get.pending = {} BY <1>1 DEF ArchiveInv, OnWay
  <2> QED BY <1>1, <2>1, <2>2 DEF ArchiveInv, OnWay
<1>4. ASSUME NEW n \in archive PROVE n \in ever /\ n \in W!Below(get.list)
  <2>1. n \in Nodes /\ n \in ever /\ \E m \in get.list : m \in W!Above[n] BY <1>1 DEF ArchiveInv, OnWay
  <2> QED BY <2>1 DEF W!Below, W!Inside
<1> QED BY <1>3, <1>4

LEMMA LimitShown ==
  ASSUME W!DownloadsAssumption, ArchiveInv
  PROVE  W!ArchiveWithinLimit
<1> SUFFICES ASSUME get.at = "send", MaxArchive # W!Unlimited, ~behind PROVE get.sum <= MaxArchive
  BY DEF W!ArchiveWithinLimit
<1>1. get.at \in Underway /\ Taking = archive BY DEF Underway, Taking
<1>2. GetType /\ OnWay /\ Counted BY DEF ArchiveInv
<1>3. PICK A \in SUBSET Nodes : A = archive BY <1>1, <1>2 DEF OnWay
<1>4. PICK L \in SUBSET Nodes : L = get.list BY <1>2 DEF GetType, GetRecs
<1>5. /\ get.sum = W!Weight(A) /\ A \subseteq W!Visible
      /\ \A n \in L : known[n] = W!Weight(W!Below({n}))
      /\ W!Estimate(L) <= MaxArchive
      /\ \A n \in A : \E m \in L : m \in W!Above[n]
  BY <1>1, <1>2, <1>3, <1>4 DEF Counted, OnWay
<1>6. PICK f \in [Nodes -> Nat] : \A S \in SUBSET Nodes : W!Weight(S) = Total(f, S) /\ Total(f, S) \in Nat
  BY <1>2, WeightIs DEF GetType
<1>7. PICK h \in [Nodes -> Nat] :
           /\ \A n \in Nodes : h[n] = IF W!Permitted(n) THEN known[n] ELSE 0
           /\ \A S \in SUBSET Nodes : W!Estimate(S) = Total(h, S) /\ Total(h, S) \in Nat
  BY <1>2, EstimateIs DEF GetType
<1>8. PICK P \in SUBSET L : P = {n \in L : W!Permitted(n)} OBVIOUS
<1>9. ASSUME NEW n \in P PROVE h[n] = Total(f, W!Below({n}))
  <2>1. n \in Nodes /\ n \in L /\ W!Permitted(n) BY <1>8
  <2>2. h[n] = W!Weight(W!Below({n})) BY <1>5, <1>7, <2>1
  <2>3. W!Below({n}) \in SUBSET Nodes BY BelowIs
  <2> QED BY <1>6, <2>2, <2>3
<1>10. A \subseteq W!Below(P)
  <2> SUFFICES ASSUME NEW n \in A PROVE n \in W!Below(P) OBVIOUS
  <2>1. n \in Nodes /\ W!Permitted(n) BY <1>5 DEF W!Visible
  <2>2. PICK m \in L : m \in W!Above[n] BY <1>5
  <2>3. m \in P BY <1>8, <2>1, <2>2, SeenAbove
  <2> QED BY <2>1, <2>2, <2>3 DEF W!Below, W!Inside
<1>11. P \in SUBSET Nodes OBVIOUS
<1>12. Total(f, A) <= Total(h, P) BY <1>9, <1>10, <1>11, SumBelow
<1>13. IsFiniteSet(L) BY Tree, FS_Subset
<1>14. Total(h, P) <= Total(h, L) BY <1>13, TotalSubset
<1>15. /\ get.sum = Total(f, A) /\ W!Estimate(L) = Total(h, L)
       /\ Total(f, A) \in Nat /\ Total(h, P) \in Nat /\ Total(h, L) \in Nat
  BY <1>5, <1>6, <1>7, <1>11
<1> QED BY <1>5, <1>12, <1>14, <1>15, Tree

-------------------------------------------------------------------------------
(* Its steps                                                                      *)

LEMMA ArchiveInit == ASSUME W!DownloadsAssumption, W!Init PROVE ArchiveInv
<1>1. /\ bytes = Sizes /\ get = W!Idle /\ archive = {W!Top} /\ behind = FALSE
      /\ known = [n \in Nodes |-> W!Weight(W!Below({n}))]
      /\ denied \in {{}} \cup {{n} : n \in Nodes}
  BY DEF W!Init, W!NoArchive
<1>2. bytes \in [Nodes -> 0 .. W!Missing] BY <1>1, Tree DEF W!Missing
<1>3. known \in [Nodes -> Nat] BY <1>1, <1>2, WeightIs, BelowIs
<1>4. get \in GetRecs /\ get.at = "idle" BY <1>1, Tree DEF W!Idle, GetRecs, Forms, GetAts, Underway
<1>5. \A n \in Nodes : W!There(n) BY <1>1, Tree DEF W!There
<1>6. Rooted BY <1>1, <1>5, Tree DEF Rooted
<1>7. GetType BY <1>1, <1>2, <1>3, <1>4 DEF GetType
<1> QED BY <1>4, <1>6, <1>7 DEF ArchiveInv, OnWay, Counted, Underway

(* A step of the request that packs nothing afterwards.                               *)
LEMMA Packed ==
  ASSUME ArchiveInv, UNCHANGED <<bytes, known, denied>>, get' \in GetRecs, behind' \in BOOLEAN,
         archive' \in SUBSET (Nodes \cup {W!Top}), get'.at \notin Underway
  PROVE  ArchiveInv'
<1>1. Rooted' BY DEF ArchiveInv, Rooted, W!There
<1>2. GetType' BY DEF ArchiveInv, GetType
<1> QED BY <1>1, <1>2 DEF ArchiveInv, OnWay, Counted, Underway

(* While bytes, index and rules are as they were, so are weights and what is seen.      *)
LEMMA SameSight ==
  ASSUME UNCHANGED <<bytes, known, denied>>
  PROVE  /\ \A n \in Nodes : W!There(n)' <=> W!There(n)
         /\ \A n \in Nodes : W!Permitted(n)' <=> W!Permitted(n)
         /\ W!Visible' = W!Visible
         /\ \A S : W!Weight(S)' = W!Weight(S)
         /\ \A S : W!Estimate(S)' = W!Estimate(S)
<1>1. \A n \in Nodes : W!There(n)' <=> W!There(n) BY DEF W!There
<1>2. \A n \in Nodes : W!Permitted(n)' <=> W!Permitted(n) BY DEF W!Permitted
<1>3. W!Visible' = W!Visible BY <1>1, <1>2 DEF W!Visible
<1>4. \A S : W!Weight(S)' = W!Weight(S) BY DEF W!Weight
<1>5. \A S : W!Estimate(S)' = W!Estimate(S) BY <1>2 DEF W!Estimate, W!Permitted
<1> QED BY <1>1, <1>2, <1>3, <1>4, <1>5

LEMMA BeginArchiveStep ==
  ASSUME W!DownloadsAssumption, ArchiveInv, NEW r \in Requests, W!BeginArchive(r)
  PROVE  ArchiveInv'
<1>1. /\ UNCHANGED <<bytes, known, denied>> /\ always' = W!Visible /\ ever' = W!Visible
      /\ behind' = \E n \in r.list : known[n] # W!Weight(W!Below({n}))
  BY DEF W!BeginArchive
<1>2. r.list \in SUBSET Nodes BY Tree
<1>3. GetType /\ Rooted BY DEF ArchiveInv
<1>4. behind' \in BOOLEAN BY <1>1
<1>5. CASE MaxArchive # W!Unlimited /\ W!Estimate(r.list) > MaxArchive
  <2>1. get' = [W!Idle EXCEPT !.at = "refused"] /\ archive' = archive BY <1>5 DEF W!BeginArchive
  <2>2. get' \in GetRecs /\ get'.at = "refused" BY <2>1 DEF W!Idle, GetRecs, Forms, GetAts, Underway
  <2> QED BY <1>1, <1>3, <1>4, <2>1, <2>2, Packed DEF GetType, Underway
<1>6. CASE ~(MaxArchive # W!Unlimited /\ W!Estimate(r.list) > MaxArchive)
  <2>1. /\ get' = [W!Idle EXCEPT !.at = "walk", !.list = r.list, !.form = r.form, !.pending = r.list]
        /\ archive' = {}
    BY <1>6 DEF W!BeginArchive
  <2>2. /\ get' \in GetRecs /\ get'.at = "walk" /\ get'.list = r.list /\ get'.pending = r.list
        /\ get'.sum = 0
    <3>1. get' = [at |-> "walk", list |-> r.list, form |-> r.form, pending |-> r.list, cur |-> W!Top,
                  told |-> 0, sum |-> 0]
      BY <2>1 DEF W!Idle
    <3>2. "walk" \in GetAts /\ r.form \in Forms BY DEF GetAts, Underway, Forms
    <3> QED BY <1>2, <3>1, <3>2 DEF GetRecs
  <2>3. Taking' = {} BY <2>1, <2>2 DEF Taking
  <2>4. Rooted' BY <1>1, <1>3 DEF Rooted, W!There
  <2>5. GetType' BY <1>1, <1>3, <1>4, <2>1, <2>2 DEF GetType
  <2>6. W!Visible' = W!Visible /\ \A S : W!Weight(S)' = W!Weight(S) /\ W!Estimate(S)' = W!Estimate(S)
    BY <1>1, SameSight
  <2>7. \A n \in r.list : n \in W!Above[n] BY <1>2, AboveClosed
  <2>8. OnWay' BY <1>1, <2>1, <2>2, <2>3, <2>6, <2>7 DEF OnWay, Underway
  <2>9. Counted'
    <3> SUFFICES ASSUME ~behind'
                 PROVE  /\ \A A \in SUBSET Nodes : A = archive' => get'.sum = W!Weight(A)'
                        /\ \A n \in get'.list : known'[n] = W!Weight(W!Below({n}))'
                        /\ MaxArchive # W!Unlimited =>
                             \A L \in SUBSET Nodes : L = get'.list => W!Estimate(L)' <= MaxArchive
      BY <2>3 DEF Counted
    <3>1. W!Weight({}) = 0 BY <1>3, WeightNone DEF GetType
    <3>2. \A n \in r.list : known[n] = W!Weight(W!Below({n})) BY <1>1
    <3>3. W!Estimate(r.list) \in Nat BY <1>2, <1>3, EstimateIs DEF GetType
    <3>4. MaxArchive # W!Unlimited => W!Estimate(r.list) <= MaxArchive BY <1>6, <3>3, Tree
    <3> QED BY <1>1, <2>1, <2>2, <2>6, <3>1, <3>2, <3>4
  <2> QED BY <2>4, <2>5, <2>8, <2>9 DEF ArchiveInv
<1> QED BY <1>5, <1>6

LEMMA SingleSteps ==
  ASSUME W!DownloadsAssumption, ArchiveInv, (\E r \in Requests : W!BeginSingle(r)) \/ W!Stream
  PROVE  ArchiveInv'
<1>1. UNCHANGED <<bytes, known, denied, archive, behind>> BY DEF W!BeginSingle, W!Stream
<1>2. GetType BY DEF ArchiveInv
<1>3. get' \in GetRecs /\ get'.at \notin Underway
  <2>1. ASSUME NEW r \in Requests, W!BeginSingle(r) PROVE get' \in GetRecs /\ get'.at \notin Underway
    <3>1. PICK n : n = CHOOSE m \in r.list : TRUE OBVIOUS
    <3>2. r.list \in SUBSET Nodes BY Tree
    <3>3. n \in Nodes BY <2>1, <3>1, <3>2 DEF W!BeginSingle, W!Single
    <3>4. CASE W!Permitted(n) /\ W!There(n)
      <4>1. get' = [W!Idle EXCEPT !.at = "stream", !.list = r.list, !.cur = n, !.told = bytes[n]]
        BY <2>1, <3>1, <3>4 DEF W!BeginSingle
      <4>2. bytes[n] \in Nat BY <1>2, <3>3, Tree DEF GetType
      <4>3. get' = [at |-> "stream", list |-> r.list, form |-> "zip", pending |-> {}, cur |-> n,
                    told |-> bytes[n], sum |-> 0]
        BY <4>1 DEF W!Idle
      <4>4. "stream" \in GetAts /\ "stream" \notin Underway /\ "zip" \in Forms BY DEF GetAts, Underway, Forms
      <4> QED BY <3>2, <3>3, <4>2, <4>3, <4>4 DEF GetRecs
    <3>5. CASE ~(W!Permitted(n) /\ W!There(n))
      <4>1. get' = [W!Idle EXCEPT !.at = "refused"] BY <2>1, <3>1, <3>5 DEF W!BeginSingle
      <4> QED BY <4>1 DEF W!Idle, GetRecs, Forms, GetAts, Underway
    <3> QED BY <3>4, <3>5
  <2>2. CASE W!Stream
    <3>1. get \in GetRecs BY <1>2 DEF GetType
    <3>2. PICK left \in Int : left = get.told - get.sum BY <3>1 DEF GetRecs
    <3>3. PICK read \in Int : read = IF left < Buffer THEN left ELSE Buffer
      BY DEF W!DownloadsAssumption
    <3>4. /\ get.at = "stream"
          /\ get' = IF W!There(get.cur) /\ bytes[get.cur] < get.sum + read THEN [get EXCEPT !.at = "cut"]
                    ELSE IF Bandwidth # W!Unlimited /\ read > Bandwidth
                           THEN [get EXCEPT !.at = "cut", !.sum = @ + read]
                    ELSE [get EXCEPT !.sum = @ + read, !.at = IF left = read THEN "done" ELSE "stream"]
      BY <2>2, <3>2, <3>3 DEF W!Stream
    <3>8. get.sum + read \in Int BY <3>1 DEF GetRecs
    <3>9. {"cut", "done", "stream"} \subseteq GetAts \ Underway BY DEF GetAts, Underway
    <3>5. CASE get' = [get EXCEPT !.at = "cut"] BY <3>1, <3>5 DEF GetRecs, GetAts, Underway
    <3>6. CASE get' = [get EXCEPT !.at = "cut", !.sum = @ + read] BY <3>1, <3>6, <3>8, <3>9 DEF GetRecs
    <3>7. CASE get' = [get EXCEPT !.sum = @ + read, !.at = IF left = read THEN "done" ELSE "stream"]
      BY <3>1, <3>7, <3>8, <3>9 DEF GetRecs
    <3> QED BY <3>4, <3>5, <3>6, <3>7
  <2> QED BY <2>1, <2>2
<1> QED BY <1>1, <1>2, <1>3, Packed DEF GetType

\* The request ends, with what is said of it.
LEMMA Over ==
  ASSUME W!DownloadsAssumption, ArchiveInv, NEW how \in GetAts, W!Ends(how), how \notin Underway,
         UNCHANGED <<bytes, known, denied, behind>>, archive' \in {archive, {W!Top}}
  PROVE  ArchiveInv'
<1>1. get \in GetRecs BY DEF ArchiveInv, GetType
<1>2. get' = [get EXCEPT !.at = how, !.pending = {}] BY DEF W!Ends
<1>3. get' \in GetRecs /\ get'.at = how BY <1>1, <1>2 DEF GetRecs
<1>4. archive' \in SUBSET (Nodes \cup {W!Top}) /\ behind' \in BOOLEAN BY DEF ArchiveInv, GetType
<1> QED BY <1>3, <1>4, Packed

LEMMA OverSteps ==
  ASSUME W!DownloadsAssumption, ArchiveInv, W!Send \/ W!Restart
  PROVE  ArchiveInv'
<1>1. UNCHANGED <<bytes, known, denied, behind>> BY DEF W!Send, W!Restart
<1>2. archive' \in {archive, {W!Top}} BY DEF W!Send, W!Restart, W!NoArchive
<1>3. \E how \in {"done", "left", "failed"} : W!Ends(how) BY DEF W!Send, W!Restart
<1> QED BY <1>1, <1>2, <1>3, Over DEF GetAts, Underway

LEMMA ScanStep ==
  ASSUME W!DownloadsAssumption, ArchiveInv, W!Scan
  PROVE  ArchiveInv'
<1>1. /\ UNCHANGED <<bytes, denied, get, archive, behind>> /\ get.at = "idle"
      /\ known' = [n \in Nodes |-> W!Weight(W!Below({n}))]
  BY DEF W!Scan
<1>2. known' \in [Nodes -> Nat] BY <1>1, WeightIs, BelowIs DEF ArchiveInv, GetType
<1>3. GetType' BY <1>1, <1>2 DEF ArchiveInv, GetType
<1>4. Rooted' BY <1>1 DEF ArchiveInv, Rooted, W!There
<1> QED BY <1>1, <1>3, <1>4 DEF ArchiveInv, OnWay, Counted, Underway

\* The packer has come further: with l asked for, these nodes in the archive or about
\* to be, and these pending.
Going(l, taken, left) ==
  /\ taken \in SUBSET Nodes
  /\ \A n \in taken \cup left : \E m \in l : m \in W!Above[n]
  /\ taken \subseteq ever
  /\ \A n \in taken : \A m \in left : n < m
  /\ \A n \in always : (\E m \in l : m \in W!Above[n]) => n \in taken \/ \E m \in left : m \in W!Above[n]

LEMMA GoingOn ==
  ASSUME W!DownloadsAssumption, ArchiveInv, UNCHANGED <<bytes, known, denied, always, ever, behind>>,
         get.at \in Underway,
         get' \in GetRecs, get'.list = get.list, get'.at \in Underway,
         NEW A \in SUBSET Nodes, archive' = A,
         NEW T, T = A \cup IF get'.at = "copy" THEN {get'.cur} ELSE {},
         Going(get.list, T, get'.pending),
         get'.at = "copy" => get'.cur \in Nodes \ Folders /\ \A n \in A : n < get'.cur,
         get'.at = "send" => get'.pending = {},
         ~behind => T \subseteq W!Visible /\ get'.sum = W!Weight(A)
  PROVE  ArchiveInv'
<1>1. GetType /\ Rooted /\ OnWay /\ Counted BY DEF ArchiveInv
<1>2. W!Visible' = W!Visible /\ \A S : W!Weight(S)' = W!Weight(S) /\ W!Estimate(S)' = W!Estimate(S)
  BY SameSight
<1>3. Taking' = T BY DEF Taking
<1>4. Rooted' BY <1>1 DEF Rooted, W!There
<1>5. GetType' BY <1>1 DEF GetType
<1>6. always \subseteq W!Visible /\ W!Visible \subseteq ever BY <1>1 DEF OnWay
<1>7. OnWay'
  <2>1. archive' \subseteq Nodes OBVIOUS
  <2>2. \A n \in Taking' \cup get'.pending : \E m \in get'.list : m \in W!Above[n] BY <1>3 DEF Going
  <2>3. Taking' \subseteq ever' BY <1>3 DEF Going
  <2>4. \A n \in Taking' : \A m \in get'.pending : n < m BY <1>3 DEF Going
  <2>5. \A n \in always' : (\E m \in get'.list : m \in W!Above[n])
                              => n \in Taking' \/ \E m \in get'.pending : m \in W!Above[n]
    BY <1>3 DEF Going
  <2>6. always' \subseteq W!Visible' /\ W!Visible' \subseteq ever' BY <1>2, <1>6
  <2> QED BY <2>1, <2>2, <2>3, <2>4, <2>5, <2>6 DEF OnWay
<1>8. Counted'
  <2> SUFFICES ASSUME ~behind
               PROVE  /\ Taking' \subseteq W!Visible'
                      /\ \A R \in SUBSET Nodes : R = archive' => get'.sum = W!Weight(R)'
                      /\ \A n \in get'.list : known'[n] = W!Weight(W!Below({n}))'
                      /\ MaxArchive # W!Unlimited =>
                           \A L \in SUBSET Nodes : L = get'.list => W!Estimate(L)' <= MaxArchive
    BY DEF Counted
  <2>1. /\ \A n \in get.list : known[n] = W!Weight(W!Below({n}))
        /\ MaxArchive # W!Unlimited => \A L \in SUBSET Nodes : L = get.list => W!Estimate(L) <= MaxArchive
    BY <1>1 DEF Counted
  <2> QED BY <1>2, <1>3, <2>1
<1> QED BY <1>4, <1>5, <1>7, <1>8 DEF ArchiveInv

LEMMA CloseArchiveStep ==
  ASSUME W!DownloadsAssumption, ArchiveInv, W!Close
  PROVE  ArchiveInv'
<1>1. /\ get.at = "walk" /\ get.pending = {} /\ get' = [get EXCEPT !.at = "send"]
      /\ UNCHANGED <<bytes, known, denied, archive, always, ever, behind>>
  BY DEF W!Close
<1>2. GetType /\ OnWay /\ Counted BY DEF ArchiveInv
<1>3. get \in GetRecs /\ "send" \in GetAts BY <1>2 DEF GetType, GetAts, Underway
<1>4. /\ get' \in GetRecs /\ get'.list = get.list /\ get'.at = "send" /\ get'.pending = {} /\ get'.sum = get.sum
  BY <1>1, <1>3 DEF GetRecs
<1>5. get.at \in Underway /\ get'.at \in Underway BY <1>1, <1>4 DEF Underway
<1>6. PICK A \in SUBSET Nodes : A = archive BY <1>2, <1>5 DEF OnWay
<1>7. Taking = A BY <1>1, <1>6 DEF Taking
<1>8. Going(get.list, A, get'.pending) BY <1>1, <1>2, <1>4, <1>5, <1>7 DEF OnWay, Going
<1>9. ~behind => A \subseteq W!Visible /\ get'.sum = W!Weight(A) BY <1>2, <1>4, <1>5, <1>6, <1>7 DEF Counted
<1>10. A = A \cup IF get'.at = "copy" THEN {get'.cur} ELSE {} BY <1>4
<1> QED BY <1>1, <1>4, <1>5, <1>6, <1>8, <1>9, <1>10, GoingOn

LEMMA CopyStep ==
  ASSUME W!DownloadsAssumption, ArchiveInv, W!Copy
  PROVE  ArchiveInv'
<1>1. get.at = "copy" /\ UNCHANGED <<bytes, known, denied, always, ever, behind>> BY DEF W!Copy
<1>2. GetType /\ OnWay /\ Counted BY DEF ArchiveInv
<1>3. get \in GetRecs /\ get.at \in Underway BY <1>1, <1>2 DEF GetType, Underway
<1>4. PICK n \in Nodes : n = get.cur BY <1>1, <1>2, <1>3 DEF OnWay
<1>5. PICK now \in Nat : now = IF W!There(n) THEN bytes[n] ELSE get.told
  BY <1>2, <1>3, Tree DEF GetType, GetRecs
<1>6. CASE W!Ends("failed") /\ UNCHANGED archive BY <1>1, <1>6, Over DEF GetAts, Underway
<1>7. CASE get' = [get EXCEPT !.at = "walk", !.sum = @ + now] /\ archive' = archive \cup {get.cur}
  <2>1. PICK A \in SUBSET Nodes : A = archive BY <1>2, <1>3 DEF OnWay
  <2>2. PICK T \in SUBSET Nodes : T = A \cup {n} OBVIOUS
  <2>3. get.sum + now \in Int /\ "walk" \in GetAts BY <1>3 DEF GetRecs, GetAts, Underway
  <2>4. /\ get' \in GetRecs /\ get'.list = get.list /\ get'.at = "walk" /\ get'.pending = get.pending
        /\ get'.sum = get.sum + now
    BY <1>3, <1>7, <2>3 DEF GetRecs
  <2>5. Taking = T BY <1>1, <1>4, <2>1, <2>2 DEF Taking
  <2>6. Going(get.list, T, get'.pending) BY <1>2, <1>3, <2>4, <2>5 DEF OnWay, Going
  <2>7. ASSUME ~behind PROVE T \subseteq W!Visible /\ get'.sum = W!Weight(T)
    <3>1. T \subseteq W!Visible /\ get.sum = W!Weight(A) BY <1>2, <1>3, <2>1, <2>5, <2>7 DEF Counted
    <3>2. W!There(n) BY <2>2, <3>1 DEF W!Visible
    <3>3. n \notin A
      <4>1. \A m \in A : m < n BY <1>1, <1>2, <1>3, <1>4, <2>1 DEF OnWay
      <4>2. n \in Nat BY Tree
      <4> QED BY <4>1, <4>2
    <3>4. W!Weight(T) = W!Weight(A) + bytes[n] BY <1>2, <2>2, <3>2, <3>3, WeightMore DEF GetType
    <3> QED BY <1>5, <2>4, <3>1, <3>2, <3>4
  <2>8. archive' = T BY <1>4, <1>7, <2>1, <2>2
  <2>9. get'.at \in Underway /\ T = T \cup IF get'.at = "copy" THEN {get'.cur} ELSE {} BY <2>4 DEF Underway
  <2> QED BY <1>1, <1>3, <2>4, <2>6, <2>7, <2>8, <2>9, GoingOn
<1> QED BY <1>4, <1>5, <1>6, <1>7 DEF W!Copy

LEMMA WalkStep ==
  ASSUME W!DownloadsAssumption, ArchiveInv, W!Walk
  PROVE  ArchiveInv'
<1>1. /\ get.at = "walk" /\ get.pending # {} /\ UNCHANGED <<bytes, known, denied, always, ever, behind>>
  BY DEF W!Walk
<1>2. GetType /\ OnWay /\ Counted BY DEF ArchiveInv
<1>3. get \in GetRecs /\ get.at \in Underway /\ get.pending \in SUBSET Nodes
  BY <1>1, <1>2 DEF GetType, GetRecs, Underway
<1>4. PICK n : n = CHOOSE m \in get.pending : \A k \in get.pending : m <= k OBVIOUS
<1>5. n \in get.pending /\ \A k \in get.pending : n <= k
  <2>1. get.pending \in SUBSET Nat BY <1>3, Tree
  <2>2. \E m \in get.pending : \A k \in get.pending : m <= k BY <1>1, <2>1, LeastIn
  <2> QED BY <1>4, <2>2
<1>6. PICK rest \in SUBSET Nodes : rest = get.pending \ {n} BY <1>3
<1>7. \A k \in rest : n < k
  <2>1. n \in Nat /\ rest \in SUBSET Nat BY <1>3, <1>5, Tree
  <2> QED BY <1>5, <1>6, <2>1
<1>8. PICK A \in SUBSET Nodes : A = archive BY <1>2, <1>3 DEF OnWay
<1>9. Taking = A /\ \A m \in A : m < n BY <1>1, <1>2, <1>3, <1>5, <1>8 DEF Taking, OnWay
<1>10. n \in Nodes /\ n \in Nat /\ n \notin A
  <2>1. n \in Nodes /\ n \in Nat BY <1>3, <1>5, Tree
  <2> QED BY <1>9, <2>1
<1>11. PICK l \in SUBSET Nodes : l = get.list /\ Going(l, A, get.pending)
  BY <1>2, <1>3, <1>9 DEF OnWay, Going, GetRecs
<1>12. always \subseteq W!Visible /\ W!Visible \subseteq ever BY <1>2, <1>3 DEF OnWay
<1>13. ~behind => A \subseteq W!Visible /\ get.sum = W!Weight(A) BY <1>2, <1>3, <1>8, <1>9 DEF Counted
<1>14. CASE W!Ends("failed") /\ UNCHANGED archive BY <1>1, <1>14, Over DEF GetAts, Underway
<1>15. CASE ~W!Permitted(n) /\ get' = [get EXCEPT !.pending = rest \ W!Skips(n, n \in Folders)] /\ UNCHANGED archive
  <2>1. rest \ W!Skips(n, n \in Folders) = rest BY <1>6 DEF W!Skips
  <2>2. /\ get' \in GetRecs /\ get'.list = l /\ get'.at = "walk" /\ get'.pending = rest /\ get'.sum = get.sum
    BY <1>1, <1>3, <1>11, <1>15, <2>1 DEF GetRecs
  <2>3. ASSUME NEW k \in always, n \in W!Above[k] PROVE FALSE
    <3>1. k \in Nodes /\ W!Permitted(k) BY <1>12 DEF W!Visible
    <3> QED BY <1>15, <2>3, <3>1, SeenAbove
  <2>4. Going(l, A, rest) BY <1>6, <1>11, <2>3 DEF Going
  <2>5. get'.at \in Underway /\ A = A \cup IF get'.at = "copy" THEN {get'.cur} ELSE {} BY <2>2 DEF Underway
  <2> QED BY <1>1, <1>3, <1>8, <1>11, <1>13, <1>15, <2>2, <2>4, <2>5, GoingOn
<1>16. CASE /\ W!Permitted(n) /\ W!There(n) /\ n \in Folders
            /\ get' = [get EXCEPT !.pending = rest \cup {m \in Nodes : Parent[m] = n /\ W!There(m)}]
            /\ archive' = archive \cup {n}
  <2>1. PICK new \in SUBSET Nodes : new = {m \in Nodes : Parent[m] = n /\ W!There(m)} OBVIOUS
  <2>2. PICK T \in SUBSET Nodes : T = A \cup {n} BY <1>10
  <2>3. PICK left \in SUBSET Nodes : left = rest \cup new OBVIOUS
  <2>4. /\ get' \in GetRecs /\ get'.list = l /\ get'.at = "walk" /\ get'.pending = left /\ get'.sum = get.sum
    BY <1>1, <1>3, <1>11, <1>16, <2>1, <2>3 DEF GetRecs
  <2>5. \A m \in new : n < m /\ n \in W!Above[m]
    <3> SUFFICES ASSUME NEW m \in new PROVE n < m /\ n \in W!Above[m] OBVIOUS
    <3>1. m \in Nodes /\ Parent[m] = n /\ n # W!Top BY <1>10, <2>1, Tree
    <3>2. n < m BY <3>1, Tree
    <3>3. m \in W!Above[m] /\ Closed(W!Above[m]) BY <3>1, AboveClosed
    <3> QED BY <3>1, <3>2, <3>3 DEF Closed
  <2>6. Going(l, T, left)
    <3>1. \A k \in T \cup left : \E m \in l : m \in W!Above[k]
      <4>1. \E m \in l : m \in W!Above[n] BY <1>5, <1>11 DEF Going
      <4>2. ASSUME NEW k \in new PROVE \E m \in l : m \in W!Above[k]
        <5>1. k \in Nodes /\ n \in W!Above[k] BY <2>5
        <5>2. W!Above[n] \subseteq W!Above[k] BY <5>1, AboveTransitive
        <5> QED BY <4>1, <5>2
      <4>3. \A k \in A \cup rest : \E m \in l : m \in W!Above[k] BY <1>6, <1>11 DEF Going
      <4> QED BY <2>2, <2>3, <4>1, <4>2, <4>3
    <3>2. T \subseteq ever
      <4>1. n \in W!Visible BY <1>10, <1>16 DEF W!Visible
      <4> QED BY <1>11, <1>12, <2>2, <4>1 DEF Going
    <3>3. \A k \in T : \A m \in left : k < m
      <4> SUFFICES ASSUME NEW k \in T, NEW m \in left PROVE k < m OBVIOUS
      <4>1. k \in Nat /\ m \in Nat BY Tree
      <4>2. n < m BY <1>7, <2>3, <2>5
      <4>3. k = n \/ k < n BY <1>9, <2>2
      <4> QED BY <1>10, <4>1, <4>2, <4>3
    <3>4. ASSUME NEW k \in always, \E m \in l : m \in W!Above[k]
          PROVE  k \in T \/ \E m \in left : m \in W!Above[k]
      <4>1. k \in A \/ \E m \in get.pending : m \in W!Above[k] BY <1>11, <3>4 DEF Going
      <4>2. CASE k \in A \/ \E m \in rest : m \in W!Above[k] BY <2>2, <2>3, <4>2
      <4>3. CASE n \in W!Above[k] /\ k # n
        <5>1. k \in Nodes /\ W!There(k) BY <1>12 DEF W!Visible
        <5>2. PICK c \in W!Above[k] : c \in Nodes /\ Parent[c] = n BY <4>3, <5>1, ChildOf
        <5>3. W!There(c) BY <5>1, <5>2, SeenAbove
        <5>4. c \in left BY <2>1, <2>3, <5>2, <5>3
        <5> QED BY <5>2, <5>4
      <4>4. CASE k = n BY <2>2, <4>4
      <4> QED BY <1>6, <4>1, <4>2, <4>3, <4>4
    <3> QED BY <3>1, <3>2, <3>3, <3>4 DEF Going
  <2>7. ASSUME ~behind PROVE T \subseteq W!Visible /\ get'.sum = W!Weight(T)
    <3>1. n \in W!Visible BY <1>10, <1>16 DEF W!Visible
    <3>2. bytes[n] = 0 BY <1>16 DEF ArchiveInv, Rooted
    <3>3. W!Weight(T) = W!Weight(A) + bytes[n] BY <1>2, <1>10, <1>16, <2>2, WeightMore DEF GetType
    <3>4. W!Weight(A) \in Nat BY <1>2, WeightIs DEF GetType
    <3> QED BY <1>13, <2>2, <2>4, <2>7, <3>1, <3>2, <3>3, <3>4
  <2>8. archive' = T BY <1>8, <1>16, <2>2
  <2>9. get'.at \in Underway /\ T = T \cup IF get'.at = "copy" THEN {get'.cur} ELSE {} BY <2>4 DEF Underway
  <2> QED BY <1>1, <1>3, <1>11, <2>4, <2>6, <2>7, <2>8, <2>9, GoingOn
<1>17. CASE /\ W!Permitted(n) /\ W!There(n) /\ n \notin Folders
            /\ get' = [get EXCEPT !.at = "copy", !.pending = rest, !.cur = n, !.told = bytes[n]]
            /\ UNCHANGED archive
  <2>1. bytes[n] \in Nat /\ "copy" \in GetAts BY <1>2, <1>10, Tree DEF GetType, GetAts, Underway
  <2>2. PICK T \in SUBSET Nodes : T = A \cup {n} BY <1>10
  <2>3. /\ get' \in GetRecs /\ get'.list = l /\ get'.at = "copy" /\ get'.pending = rest /\ get'.sum = get.sum
        /\ get'.cur = n
    BY <1>3, <1>10, <1>11, <1>17, <2>1 DEF GetRecs
  <2>4. n \in W!Visible BY <1>10, <1>17 DEF W!Visible
  <2>5. Going(l, T, rest)
    <3>1. \A k \in T \cup rest : \E m \in l : m \in W!Above[k] BY <1>5, <1>6, <1>11, <2>2 DEF Going
    <3>2. T \subseteq ever BY <1>11, <1>12, <2>2, <2>4 DEF Going
    <3>3. \A k \in T : \A m \in rest : k < m BY <1>6, <1>7, <1>11, <2>2 DEF Going
    <3>4. ASSUME NEW k \in always, \E m \in l : m \in W!Above[k]
          PROVE  k \in T \/ \E m \in rest : m \in W!Above[k]
      <4>1. k \in A \/ \E m \in get.pending : m \in W!Above[k] BY <1>11, <3>4 DEF Going
      <4>2. CASE n \in W!Above[k] /\ k # n
        <5>1. k \in Nodes BY <1>12 DEF W!Visible
        <5>2. PICK c \in W!Above[k] : c \in Nodes /\ Parent[c] = n BY <4>2, <5>1, ChildOf
        <5>3. n \in Folders BY <1>10, <5>2, Tree
        <5> QED BY <1>17, <5>3
      <4> QED BY <1>6, <2>2, <4>1, <4>2
    <3> QED BY <3>1, <3>2, <3>3, <3>4 DEF Going
  <2>6. get'.at \in Underway /\ T = A \cup IF get'.at = "copy" THEN {get'.cur} ELSE {}
    BY <2>2, <2>3 DEF Underway
  <2>7. archive' = A /\ (~behind => T \subseteq W!Visible /\ get'.sum = W!Weight(A))
    BY <1>8, <1>13, <1>17, <2>2, <2>3, <2>4
  <2> QED BY <1>1, <1>3, <1>9, <1>10, <1>11, <1>17, <2>3, <2>5, <2>6, <2>7, GoingOn
<1>18. /\ IF ~W!There(n) /\ (n \in get.list => W!Permitted(n))
            THEN W!Ends("failed") /\ UNCHANGED archive
          ELSE IF ~W!Permitted(n)
            THEN get' = [get EXCEPT !.pending = rest \ W!Skips(n, n \in Folders)] /\ UNCHANGED archive
          ELSE IF n \in Folders
            THEN /\ get' = [get EXCEPT !.pending = rest \cup {m \in Nodes : Parent[m] = n /\ W!There(m)}]
                 /\ archive' = archive \cup {n}
          ELSE /\ get' = [get EXCEPT !.at = "copy", !.pending = rest, !.cur = n, !.told = bytes[n]]
               /\ UNCHANGED archive
  BY <1>4, <1>6 DEF W!Walk
<1> QED BY <1>14, <1>15, <1>16, <1>17, <1>18

\* Files or rules change: nothing is counted any more.
LEMMA ChangedMeanwhile ==
  ASSUME W!DownloadsAssumption, ArchiveInv, W!Sees, behind' = TRUE, GetType', Rooted'
  PROVE  ArchiveInv'
<1>1. /\ always' = always \cap W!Visible' /\ ever' = ever \cup W!Visible'
      /\ UNCHANGED <<get, archive, known>>
  BY DEF W!Sees
<1>2. Taking' = Taking BY <1>1 DEF Taking
<1>3. OnWay' BY <1>1, <1>2 DEF ArchiveInv, OnWay
<1>4. Counted' BY DEF Counted
<1> QED BY <1>3, <1>4 DEF ArchiveInv

LEMMA WriteDownload ==
  ASSUME W!DownloadsAssumption, ArchiveInv, NEW n \in Nodes, NEW k \in 0 .. MaxSize, W!Write(n, k)
  PROVE  ArchiveInv'
<1>1. /\ n \notin Folders /\ bytes' = [bytes EXCEPT ![n] = k] /\ behind' = TRUE /\ UNCHANGED denied /\ W!Sees
      /\ Parent[n] # W!Top => W!There(Parent[n])
  BY DEF W!Write
<1>2. UNCHANGED <<get, archive, known>> BY <1>1 DEF W!Sees
<1>3. GetType /\ Rooted BY DEF ArchiveInv
<1>4. k \in 0 .. W!Missing /\ k # W!Missing BY Tree DEF W!Missing
<1>5. \A m \in Nodes : bytes'[m] = IF m = n THEN k ELSE bytes[m] BY <1>1, <1>3 DEF GetType
<1>6. GetType' BY <1>1, <1>2, <1>3, <1>4 DEF GetType
<1>7. \A m \in Nodes : W!There(m)' <=> W!There(m) \/ m = n BY <1>4, <1>5 DEF W!There
<1>8. \A m \in Folders : W!There(m)' => bytes'[m] = 0 BY <1>1, <1>3, <1>5, <1>7, Tree DEF Rooted
<1>9. ASSUME NEW m \in Nodes, W!There(m)', Parent[m] # W!Top PROVE W!There(Parent[m])'
  <2>1. PICK p \in Nodes : p = Parent[m] BY <1>9, Tree
  <2>2. W!There(p) BY <1>1, <1>3, <1>7, <1>9, <2>1 DEF Rooted
  <2>3. bytes'[p] # W!Missing BY <1>7, <2>2 DEF W!There
  <2> QED BY <2>1, <2>3 DEF W!There
<1>10. Rooted' BY <1>8, <1>9 DEF Rooted
<1> QED BY <1>1, <1>6, <1>10, ChangedMeanwhile

LEMMA DeleteDownload ==
  ASSUME W!DownloadsAssumption, ArchiveInv, NEW n \in Nodes, W!Delete(n)
  PROVE  ArchiveInv'
<1>1. /\ bytes' = [m \in Nodes |-> IF n \in W!Above[m] THEN W!Missing ELSE bytes[m]]
      /\ behind' = TRUE /\ UNCHANGED denied /\ W!Sees
  BY DEF W!Delete, W!Inside
<1>2. UNCHANGED <<get, archive, known>> BY <1>1 DEF W!Sees
<1>3. GetType /\ Rooted BY DEF ArchiveInv
<1>4. W!Missing \in 0 .. W!Missing BY Tree
<1>5. bytes' \in [Nodes -> 0 .. W!Missing] BY <1>1, <1>3, <1>4 DEF GetType
<1>6. GetType' BY <1>1, <1>2, <1>3, <1>5 DEF GetType
<1>7. \A m \in Nodes : W!There(m)' <=> W!There(m) /\ n \notin W!Above[m] BY <1>1 DEF W!There
<1>8. \A m \in Folders : W!There(m)' => bytes'[m] = 0 BY <1>1, <1>3, <1>7, Tree DEF Rooted
<1>9. ASSUME NEW m \in Nodes, W!There(m)', Parent[m] # W!Top PROVE W!There(Parent[m])'
  <2>1. PICK p \in Nodes : p = Parent[m] BY <1>9, Tree
  <2>2. W!There(p) BY <1>3, <1>7, <1>9, <2>1 DEF Rooted
  <2>3. W!Above[m] = {m} \cup W!Above[p] BY <1>9, <2>1, AboveIs
  <2>4. n \notin W!Above[p] BY <1>7, <1>9, <2>3
  <2>5. bytes'[p] # W!Missing BY <1>7, <2>2, <2>4 DEF W!There
  <2> QED BY <2>1, <2>5 DEF W!There
<1>10. Rooted' BY <1>8, <1>9 DEF Rooted
<1> QED BY <1>1, <1>6, <1>10, ChangedMeanwhile

LEMMA RuleDownload ==
  ASSUME W!DownloadsAssumption, ArchiveInv, NEW n \in Nodes, W!Rule(n)
  PROVE  ArchiveInv'
<1>1. /\ denied' = (IF n \in denied THEN denied \ {n} ELSE denied \cup {n}) /\ behind' = TRUE
      /\ UNCHANGED bytes /\ W!Sees
  BY DEF W!Rule
<1>2. UNCHANGED <<get, archive, known>> BY <1>1 DEF W!Sees
<1>3. GetType' BY <1>1, <1>2 DEF ArchiveInv, GetType
<1>4. Rooted' BY <1>1 DEF ArchiveInv, Rooted, W!There
<1> QED BY <1>1, <1>3, <1>4, ChangedMeanwhile

LEMMA ArchiveStep ==
  ASSUME W!DownloadsAssumption, ArchiveInv, [W!Next]_W!vars
  PROVE  ArchiveInv'
<1>1. CASE UNCHANGED W!vars
  <2>1. UNCHANGED <<bytes, known, denied, get, archive, always, ever, behind>> BY <1>1 DEF W!vars
  <2>2. W!Visible' = W!Visible /\ \A S : W!Weight(S)' = W!Weight(S) /\ W!Estimate(S)' = W!Estimate(S)
    BY <2>1, SameSight
  <2>3. Taking' = Taking BY <2>1 DEF Taking
  <2>4. GetType' BY <2>1 DEF ArchiveInv, GetType
  <2>5. Rooted' BY <2>1 DEF ArchiveInv, Rooted, W!There
  <2>6. OnWay' BY <2>1, <2>2, <2>3 DEF ArchiveInv, OnWay
  <2>7. Counted' BY <2>1, <2>2, <2>3 DEF ArchiveInv, Counted
  <2> QED BY <2>4, <2>5, <2>6, <2>7 DEF ArchiveInv
<1>2. CASE \E r \in Requests : W!BeginArchive(r) \/ W!BeginSingle(r)
  BY <1>2, BeginArchiveStep, SingleSteps
<1>3. CASE W!Stream \/ W!Walk \/ W!Copy \/ W!Close \/ W!Send
  BY <1>3, SingleSteps, WalkStep, CopyStep, CloseArchiveStep, OverSteps
<1>4. CASE \E n \in Nodes : W!Delete(n) \/ W!Rule(n) \/ \E k \in 0 .. MaxSize : W!Write(n, k)
  BY <1>4, WriteDownload, DeleteDownload, RuleDownload
<1>5. CASE W!Scan \/ W!Restart BY <1>5, ScanStep, OverSteps
<1> QED BY <1>1, <1>2, <1>3, <1>4, <1>5 DEF W!Next

\* ArchivesAreRight: when an archive is sent it has everything below what was asked for
\* that was there for the user from the request on, and nothing that never was; and it is
\* no larger than the limit, unless the index did not know the sizes or something
\* changed while it was made.
THEOREM ArchivesAreRightAlways == ASSUME W!DownloadsAssumption PROVE ViewsSpec => []ArchivesAreRight
<1>1. ViewsInit => (part = "downloads" => ArchiveInv) BY ArchiveInit DEF ViewsInit
<1>2. (part = "downloads" => ArchiveInv) /\ [ViewsNext]_viewsVars => (part = "downloads" => ArchiveInv)'
  <2> SUFFICES ASSUME part = "downloads" => ArchiveInv, [ViewsNext]_viewsVars, part' = "downloads"
               PROVE  ArchiveInv'
    OBVIOUS
  <2>1. part = "downloads" /\ [W!Next]_W!vars BY DEF ViewsNext, viewsVars, downloadVars, W!vars
  <2> QED BY <2>1, ArchiveStep
<1>3. (part = "downloads" => ArchiveInv) => ArchivesAreRight BY ArchiveShown, LimitShown DEF ArchivesAreRight
<1> QED BY <1>1, <1>2, <1>3, PTL DEF ViewsSpec
===============================================================================
