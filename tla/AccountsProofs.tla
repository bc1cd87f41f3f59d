---------------------------- MODULE AccountsProofs ----------------------------
(***************************************************************************)
(* What users are told of their sessions, keys and one-time passwords holds    *)
(* for any number of users, tokens, names and requests, unless two requests    *)
(* change one record at once; and what a start of the server makes of the users *)
(* of Startup is what they expect.                                            *)
(***************************************************************************)
EXTENDS SignIn, TLAPS

-------------------------------------------------------------------------------
(* Types: what a request has in hand at each of its places.                     *)

KeyOps == {"create", "minimal", "delete"}

KeyWork(r) ==
  /\ r.op \in KeyOps => r.arg \in Names
  /\ r.pc \in {"read", "write", "answer"} =>
       /\ r.op \in KeyOps
       /\ r.op = "delete" => r.fresh = Nil /\ r.snap.keys[r.arg] # Nil
       /\ r.op # "delete" => r.fresh # Nil /\ r.snap.keys[r.arg] = Nil
  /\ r.pc = "write" => r.mine # Nil
  /\ r.pc \in {"in", "guard", "update", "session"} => r.fresh = Nil

SaveWork(r) ==
  r.op = "save" =>
    /\ r.pc \in {"guard", "update"} /\ r.new # Nil
    /\ r.pc = "update" => r.old # Nil
    /\ r.pc = "guard" => r.todo = IF r.arg = "permissions" THEN <<"api", "otp">> ELSE <<"otp">>
    /\ r.arg = "permissions" => r.todo \in {<<"api", "otp">>, <<"otp">>, <<>>}
    /\ r.arg # "permissions" => r.todo \in {<<"otp">>, <<>>}

CodeWork(r) ==
  r.pc = "update" /\ r.op # "save" =>
    /\ r.op \in {"login", "verify"} /\ r.new # Nil
    /\ r.new.secret = r.arg /\ r.arg # Nil /\ r.new.otp
    /\ r.todo \in {SavedFields, <<"otp">>, <<>>}

RequestOK(r) ==
  /\ r.op # "save" => r.snap # Nil /\ r.pc # "guard"
  /\ r.op = "logout" => r.token # Nil
  /\ ~r.late
  /\ KeyWork(r) /\ SaveWork(r) /\ CodeWork(r)

TypeInv ==
  /\ AccountsTyped
  /\ \A c \in Calls : call[c] # Nil => RequestOK(call[c])
  /\ kept \in [Users -> [Names -> Tokens \cup {Nil}]]
  /\ dropped \subseteq Tokens /\ barred \subseteq Users /\ clash \subseteq Users
  /\ device \in [Users -> Codes]

-------------------------------------------------------------------------------
(* Keys.  A request carries those of the record it was let in with, those it has  *)
(* read again, and the one it has made.                                         *)

Copied(r, t) == \/ r.op # "save" /\ \E n \in Names : r.snap.keys[n] = t
                \/ r.pc = "write" /\ \E n \in Names : r.mine.keys[n] = t

Carries(r, t) == Copied(r, t) \/ r.fresh = t

Listed(u, t) == \E n \in Names : acc[u].keys[n] = t

Holds(u, t) == Listed(u, t) \/ \E c \in Calls : call[c] # Nil /\ call[c].user = u /\ Carries(call[c], t)

\* No token is a key of two users, and every key has been made.
KeysApart ==
  /\ \A u, w \in Users, t \in Tokens : Holds(u, t) /\ Holds(w, t) => u = w
  /\ \A u \in Users, t \in Tokens : Holds(u, t) => tok[t] # Nil
  /\ \A t \in dropped : tok[t] # Nil

\* A key that is not in the record yet is in the hands of the request that made it.
FreshOK ==
  \A c \in Calls :
    call[c] # Nil /\ call[c].pc \in {"read", "write"} /\ call[c].fresh # Nil =>
      /\ \A u \in Users : ~Listed(u, call[c].fresh)
      /\ \A d \in Calls : call[d] # Nil => /\ ~Copied(call[d], call[c].fresh)
                                           /\ d # c => call[d].fresh # call[c].fresh
      /\ call[c].fresh \notin dropped

\* The record and what requests know of it, while no two of them change it at once.
ListOK(u) ==
  /\ \A m, n \in Names : acc[u].keys[m] = acc[u].keys[n] /\ acc[u].keys[n] # Nil => m = n
  /\ \A n \in Names : kept[u][n] # Nil => acc[u].keys[n] = kept[u][n]
  /\ \A t \in dropped : ~Listed(u, t)
  /\ \A c \in Calls : call[c] # Nil /\ call[c].user = u =>
       /\ call[c].pc = "write" => call[c].mine.keys = acc[u].keys
       /\ call[c].pc = "answer" /\ call[c].op = "delete" => ~Listed(u, call[c].snap.keys[call[c].arg])

KeysInv == KeysApart /\ FreshOK /\ \A u \in Users \ clash : ListOK(u)

-------------------------------------------------------------------------------
(* The permission to have keys.  A save that has written it is the only one since.  *)

WroteApi(r) == r.pc = "update" /\ r.op = "save" /\ r.arg = "permissions" /\ r.todo # <<"api", "otp">>

BarredOK(u) ==
  /\ \A c \in Calls : call[c] # Nil /\ call[c].user = u /\ WroteApi(call[c]) => acc[u].api = call[c].new.api
  /\ u \in barred =>
       \/ \E c \in Calls : call[c] # Nil /\ call[c].user = u /\ WroteApi(call[c]) /\ call[c].new.api
       \/ ~acc[u].api /\ \A n \in Names : acc[u].keys[n] # Nil => acc[u].keys[n] \in revoked

BarredInv == \A u \in Users \ clash : BarredOK(u)

-------------------------------------------------------------------------------
(* One-time passwords.  Record and app agree but for a code that is being saved.   *)

WroteCode(r) == r.pc = "update" /\ r.op # "save" /\ r.todo # SavedFields

Agreed(u) ==
  /\ acc[u].secret # Nil => device[u] = acc[u].secret
  /\ enforced /\ device[u] # Nil => acc[u].secret # Nil

CodesOK(u) ==
  /\ \A c \in Calls : call[c] # Nil /\ call[c].user = u /\ WroteCode(call[c]) => acc[u].secret = call[c].new.secret
  /\ Agreed(u) \/ \E c \in Calls : call[c] # Nil /\ call[c].user = u /\ WroteCode(call[c])

CodesInv ==
  /\ enforced => \A c \in Calls : At(c, "update") /\ Does(c, "save") => call[c].new.otp
  /\ \A u \in Users \ clash : CodesOK(u)

-------------------------------------------------------------------------------
(* Type correctness.  All steps but a restart change one request at most.          *)

Turn(c, r) == call' = [call EXCEPT ![c] = r]

\* Of a request that goes on, only some fields change.
LEMMA Turns ==
  ASSUME TypeInv, NEW c \in Calls, call[c] # Nil
  PROVE  /\ \A pc : Go(c, pc) => Turn(c, [call[c] EXCEPT !.pc = pc])
         /\ \A t : MakeKey(c, t) => Turn(c, [call[c] EXCEPT !.pc = "read", !.fresh = t])
         /\ ReadKeys(c) => Turn(c, [call[c] EXCEPT !.pc = "write", !.mine = acc[call[c].user]])
         /\ CodeRight(c) => Turn(c, [call[c] EXCEPT !.pc = "update", !.todo = SavedFields,
                                       !.new = [call[c].snap EXCEPT !.secret = Confirmed(c), !.otp = TRUE]])
         /\ WriteField(c) => Turn(c, [call[c] EXCEPT !.todo = Tail(@)])
<1>1. call \in [Calls -> Requests \cup {Nil}] /\ call[c] \in Requests
  BY DEF TypeInv, AccountsTyped
<1>2. \A pc : Go(c, pc) => Turn(c, [call[c] EXCEPT !.pc = pc])
  BY <1>1 DEF Go, Turn
<1>3. \A t : MakeKey(c, t) => Turn(c, [call[c] EXCEPT !.pc = "read", !.fresh = t])
  BY <1>1 DEF MakeKey, Turn
<1>4. ReadKeys(c) => Turn(c, [call[c] EXCEPT !.pc = "write", !.mine = acc[call[c].user]])
  BY <1>1 DEF ReadKeys, Turn
<1>5. CodeRight(c) => Turn(c, [call[c] EXCEPT !.pc = "update", !.todo = SavedFields,
                                 !.new = [call[c].snap EXCEPT !.secret = Confirmed(c), !.otp = TRUE]])
  BY <1>1 DEF CodeRight, Turn
<1>6. WriteField(c) => Turn(c, [call[c] EXCEPT !.todo = Tail(@)])
  BY <1>1 DEF WriteField, Turn
<1> QED BY <1>2, <1>3, <1>4, <1>5, <1>6

LEMMA CallsTyped ==
  ASSUME TypeInv, NEW c \in Calls, NEW r \in Requests \cup {Nil}, r # Nil => RequestOK(r), Turn(c, r)
  PROVE  /\ call' \in [Calls -> Requests \cup {Nil}]
         /\ \A d \in Calls : call'[d] # Nil => RequestOK(call'[d])
         /\ call'[c] = r /\ \A d \in Calls \ {c} : call'[d] = call[d]
<1>1. call \in [Calls -> Requests \cup {Nil}]
  BY DEF TypeInv, AccountsTyped
<1>2. call'[c] = r /\ \A d \in Calls \ {c} : call'[d] = call[d]
  BY <1>1 DEF Turn
<1>3. call' \in [Calls -> Requests \cup {Nil}]
  BY <1>1 DEF Turn
<1> QED BY <1>2, <1>3 DEF TypeInv

\* A request has the fields of one.
LEMMA RequestFields ==
  ASSUME NEW r \in Requests
  PROVE  /\ r.op \in Bearing \cup {"login", "save"} /\ r.token \in Tokens \cup {Nil} /\ r.user \in Users
         /\ r.pc \in {"in", "read", "write", "answer", "update", "guard", "session"}
         /\ r.snap \in Records \cup {Nil} /\ r.mine \in Records \cup {Nil}
         /\ r.old \in Records \cup {Nil} /\ r.new \in Records \cup {Nil}
         /\ r.fresh \in Tokens \cup {Nil} /\ r.arg \in Names \cup Codes \cup {"permissions"}
         /\ r.todo \in {SavedFields, <<"api", "otp">>, <<"otp">>, <<>>} /\ r.late \in BOOLEAN
BY DEF Requests

LEMMA RecordFields ==
  ASSUME NEW a \in Records
  PROVE  a.api \in BOOLEAN /\ a.keys \in [Names -> Tokens \cup {Nil}] /\ a.secret \in Codes /\ a.otp \in BOOLEAN
BY DEF Records

\* A request that is let in.
LEMMA NewRequest ==
  ASSUME AccountsAssumption, TypeInv, NEW op \in Bearing \cup {"login"}, NEW t \in Tokens \cup {Nil}, NEW u \in Users,
         NEW arg \in Names \cup Codes, op \in KeyOps => arg \in Names,
         op = "logout" => t # Nil, t \notin ended
  PROVE  Request(op, t, u, arg) \in Requests /\ RequestOK(Request(op, t, u, arg))
<1> DEFINE r == Request(op, t, u, arg)
<1>1. acc[u] \in Records
  BY DEF TypeInv, AccountsTyped
<1>2. acc[u] # Nil
  BY <1>1 DEF AccountsAssumption
<1>3. r \in Requests
  <2>1. "in" \in {"in", "read", "write", "answer", "update", "guard", "session"}
    OBVIOUS
  <2> HIDE DEF Records
  <2> QED BY <1>1, <2>1 DEF Request, Requests
<1>4. /\ r.op = op /\ r.token = t /\ r.pc = "in" /\ r.snap = acc[u] /\ r.fresh = Nil /\ r.arg = arg
      /\ r.late = (t \in ended)
  BY DEF Request
<1>5. op # "save"
  BY DEF Bearing
<1> HIDE DEF r
<1>6. KeyWork(r) /\ SaveWork(r) /\ CodeWork(r)
  BY <1>4, <1>5 DEF KeyWork, SaveWork, CodeWork
<1>7. RequestOK(r)
  BY <1>2, <1>4, <1>6 DEF RequestOK
<1> QED BY <1>3, <1>7 DEF r

\* What stays typed while acc, tok and history do.
LEMMA StaysTyped ==
  ASSUME TypeInv, UNCHANGED <<acc, tok, revoked, ended, second, ownerOf, pending, kept, dropped, barred, clash, device>>,
         call' \in [Calls -> Requests \cup {Nil}], \A c \in Calls : call'[c] # Nil => RequestOK(call'[c])
  PROVE  TypeInv'
BY DEF TypeInv, AccountsTyped

LEMMA EnterType ==
  ASSUME AccountsAssumption, TypeInv, NEW c \in Calls, NEW op, NEW t \in Tokens, NEW u \in Users,
         NEW arg \in Names \cup Codes, op \in KeyOps => arg \in Names, Enter(c, op, t, u, arg)
  PROVE  TypeInv'
<1>1. t \notin ended /\ t # Nil
  BY DEF Enter, LetsIn, Fallback, Passes, TypeInv, AccountsTyped, AccountsAssumption
<1>2. op \in Bearing
  BY DEF Enter
<1>3. Request(op, t, u, arg) \in Requests /\ RequestOK(Request(op, t, u, arg))
  BY <1>1, <1>2, NewRequest
<1>4. Turn(c, Request(op, t, u, arg))
  BY DEF Enter, Turn
<1>5. /\ call' \in [Calls -> Requests \cup {Nil}]
      /\ \A d \in Calls : call'[d] # Nil => RequestOK(call'[d])
  BY <1>3, <1>4, CallsTyped
<1>6. ownerOf' \in [Tokens -> Users \cup {Nil}]
  BY DEF Enter, TypeInv, AccountsTyped
<1> QED BY <1>5, <1>6 DEF Enter, history, TypeInv, AccountsTyped

LEMMA LoginType ==
  ASSUME AccountsAssumption, TypeInv, NEW c \in Calls, NEW u \in Users, NEW code \in Codes,
         \/ EnterByPassword(c, "generate", u, code) \/ EnterByPassword(c, "verify", u, code)
         \/ Login(c, u, code)
  PROVE  TypeInv'
<1>1. Nil \notin ended /\ {"generate", "verify", "login"} \cap KeyOps = {}
      /\ {"generate", "verify", "login"} \subseteq Bearing \cup {"login"} /\ "logout" \notin {"generate", "verify", "login"}
  BY DEF TypeInv, AccountsTyped, AccountsAssumption, Bearing, KeyOps
<1>2. PICK op \in {"generate", "verify", "login"} : Turn(c, Request(op, Nil, u, code))
  BY DEF EnterByPassword, Login, Turn
<1>3. Request(op, Nil, u, code) \in Requests /\ RequestOK(Request(op, Nil, u, code))
  BY <1>1, NewRequest
<1>4. /\ call' \in [Calls -> Requests \cup {Nil}]
      /\ \A d \in Calls : call'[d] # Nil => RequestOK(call'[d])
  BY <1>2, <1>3, CallsTyped
<1> QED BY <1>4, StaysTyped DEF EnterByPassword, Login, memory, history

LEMMA SaveType ==
  ASSUME AccountsAssumption, TypeInv, NEW c \in Calls, NEW u \in Users, NEW otp \in BOOLEAN, NEW api \in BOOLEAN,
         NEW fields \in {<<"api", "otp">>, <<"otp">>}, Save(c, u, otp, api, fields)
  PROVE  TypeInv'
<1> DEFINE r == [Request("save", Nil, u, IF "api" \in Range(fields) THEN "permissions" ELSE Nil) EXCEPT
                   !.pc = "guard", !.snap = Nil, !.todo = fields, !.new = [Blank EXCEPT !.otp = otp, !.api = api]]
<1>1. Turn(c, r)
  BY DEF Save, Turn
<1>2. [Blank EXCEPT !.otp = otp, !.api = api] \in Records
  BY DEF Blank, Records, Codes
<1>3. ("api" \in Range(fields)) <=> fields = <<"api", "otp">>
  <2>1. CASE fields = <<"api", "otp">>
    BY <2>1 DEF Range
  <2>2. CASE fields = <<"otp">>
    BY <2>2 DEF Range
  <2> QED BY <2>1, <2>2
<1>4. /\ r.op = "save" /\ r.token = Nil /\ r.user = u /\ r.pc = "guard" /\ r.snap = Nil /\ r.mine = Nil
      /\ r.old = Nil /\ r.new = [Blank EXCEPT !.otp = otp, !.api = api] /\ r.fresh = Nil /\ r.todo = fields
      /\ r.late = (Nil \in ended) /\ r.arg = IF "api" \in Range(fields) THEN "permissions" ELSE Nil
  BY DEF Request
<1>5. r \in Requests
  <2> DEFINE q == Request("save", Nil, u, IF "api" \in Range(fields) THEN "permissions" ELSE Nil)
             x == [Blank EXCEPT !.otp = otp, !.api = api]
  <2>1. q \in Requests
    <3>1. acc[u] \in Records
      BY DEF TypeInv, AccountsTyped
    <3>2. (IF "api" \in Range(fields) THEN "permissions" ELSE Nil) \in Names \cup Codes \cup {"permissions"}
      BY DEF Codes
    <3> QED BY <3>1, <3>2 DEF Request, Requests
  <2>2. x \in Records
    BY <1>2
  <2> HIDE DEF q, x
  <2>3. [q EXCEPT !.pc = "guard", !.snap = Nil, !.todo = fields, !.new = x] \in Requests
    BY <2>1, <2>2 DEF Requests
  <2> QED BY <2>3 DEF q, x
<1>6. Nil \notin ended /\ r.new # Nil /\ Nil # "permissions"
  BY <1>2, <1>4 DEF TypeInv, AccountsTyped, AccountsAssumption
<1> HIDE DEF r
<1>7. KeyWork(r) /\ SaveWork(r) /\ CodeWork(r)
  BY <1>3, <1>4, <1>6 DEF KeyWork, SaveWork, CodeWork, KeyOps
<1>8. RequestOK(r)
  BY <1>4, <1>6, <1>7 DEF RequestOK
<1>9. /\ call' \in [Calls -> Requests \cup {Nil}]
      /\ \A d \in Calls : call'[d] # Nil => RequestOK(call'[d])
  BY <1>1, <1>5, <1>8, CallsTyped
<1> QED BY <1>9, StaysTyped DEF Save, memory, history

\* A request that is answered.
LEMMA LeaveType ==
  ASSUME TypeInv, NEW c \in Calls, Leave(c)
  PROVE  /\ Turn(c, Nil) /\ call' \in [Calls -> Requests \cup {Nil}]
         /\ \A d \in Calls : call'[d] # Nil => RequestOK(call'[d])
<1>1. Turn(c, Nil)
  BY DEF Leave, Turn
<1> QED BY <1>1, CallsTyped

\* Fields of a request change one by one.
LEMMA AlteredTyped ==
  ASSUME NEW r \in Requests
  PROVE  /\ \A p \in {"in", "read", "write", "answer", "update", "guard", "session"} : [r EXCEPT !.pc = p] \in Requests
         /\ \A t \in Tokens : [r EXCEPT !.pc = "read", !.fresh = t] \in Requests
         /\ \A a \in Records : [r EXCEPT !.pc = "write", !.mine = a] \in Requests
         /\ \A a \in Records : [r EXCEPT !.pc = "update", !.old = a] \in Requests
         /\ \A a \in Records : [r EXCEPT !.pc = "update", !.todo = SavedFields, !.new = a] \in Requests
         /\ \A s \in {SavedFields, <<"api", "otp">>, <<"otp">>, <<>>} : [r EXCEPT !.todo = s] \in Requests
<1>1. \A p \in {"in", "read", "write", "answer", "update", "guard", "session"} : [r EXCEPT !.pc = p] \in Requests
  BY DEF Requests
<1>2. \A t \in Tokens : [r EXCEPT !.pc = "read", !.fresh = t] \in Requests
  BY DEF Requests
<1>3. \A a \in Records : [r EXCEPT !.pc = "write", !.mine = a] \in Requests
  BY DEF Requests
<1>4. \A a \in Records : [r EXCEPT !.pc = "update", !.old = a] \in Requests
  BY DEF Requests
<1>5. \A a \in Records : [r EXCEPT !.pc = "update", !.todo = SavedFields, !.new = a] \in Requests
  BY DEF Requests
<1>6. \A s \in {SavedFields, <<"api", "otp">>, <<"otp">>, <<>>} : [r EXCEPT !.todo = s] \in Requests
  BY DEF Requests
<1> QED BY <1>1, <1>2, <1>3, <1>4, <1>5, <1>6

\* A token is made.
LEMMA MadeType ==
  ASSUME AccountsAssumption, TypeInv, NEW t \in Tokens, NEW kind, NEW u \in Users, Made(t, kind, u)
  PROVE  tok' \in [Tokens -> Marks \cup {Nil}] /\ second' \subseteq Tokens
<1>1. [live |-> TRUE, owner |-> IF kind = "minimal" THEN Nil ELSE u] \in Marks
  BY DEF Marks
<1> QED BY <1>1 DEF Made, TypeInv, AccountsTyped

LEMMA MakeKeyType ==
  ASSUME AccountsAssumption, TypeInv, NEW c \in Calls, NEW t \in Tokens, MakeKey(c, t)
  PROVE  TypeInv'
<1>1. call[c] \in Requests /\ RequestOK(call[c]) /\ call[c].pc = "in" /\ call[c].op \in KeyOps \ {"delete"}
      /\ call[c] # Nil
  BY DEF MakeKey, At, Does, TypeInv, AccountsTyped, KeyOps
<1> DEFINE r == [call[c] EXCEPT !.pc = "read", !.fresh = t]
<1>2. r \in Requests
  BY <1>1, AlteredTyped
<1>3. Turn(c, r)
  BY <1>1, Turns
<1>4. /\ r.op = call[c].op /\ r.pc = "read" /\ r.snap = call[c].snap /\ r.fresh = t /\ r.arg = call[c].arg
      /\ r.late = call[c].late /\ r.token = call[c].token
  BY <1>1 DEF Requests
<1>5. t # Nil /\ r.snap.keys[r.arg] = Nil
  BY <1>4 DEF MakeKey, AccountsAssumption
<1> HIDE DEF r
<1>6. KeyWork(r) /\ SaveWork(r) /\ CodeWork(r)
  BY <1>1, <1>4, <1>5 DEF RequestOK, KeyWork, SaveWork, CodeWork, KeyOps
<1>7. RequestOK(r)
  BY <1>1, <1>4, <1>6 DEF RequestOK, KeyOps
<1>8. /\ call' \in [Calls -> Requests \cup {Nil}]
      /\ \A d \in Calls : call'[d] # Nil => RequestOK(call'[d])
  BY <1>2, <1>3, <1>7, CallsTyped
<1>9. tok' \in [Tokens -> Marks \cup {Nil}] /\ second' \subseteq Tokens
  BY <1>1, MadeType, RequestFields DEF MakeKey
<1> QED BY <1>8, <1>9 DEF MakeKey, history, TypeInv, AccountsTyped

LEMMA DropKeyType ==
  ASSUME AccountsAssumption, TypeInv, NEW c \in Calls, DropKey(c)
  PROVE  TypeInv'
<1>1. call[c] \in Requests /\ RequestOK(call[c]) /\ call[c].pc = "in" /\ call[c].op = "delete"
      /\ call[c] # Nil
  BY DEF DropKey, At, Does, TypeInv, AccountsTyped
<1> DEFINE r == [call[c] EXCEPT !.pc = "read"]
<1>2. r \in Requests
  BY <1>1, AlteredTyped
<1>3. Turn(c, r)
  BY <1>1, Turns DEF DropKey
<1>4. /\ r.op = call[c].op /\ r.pc = "read" /\ r.snap = call[c].snap /\ r.fresh = call[c].fresh /\ r.arg = call[c].arg
      /\ r.late = call[c].late /\ r.token = call[c].token
  BY <1>1 DEF Requests
<1>5. r.snap.keys[r.arg] # Nil
  BY <1>4 DEF DropKey
<1> HIDE DEF r
<1>6. KeyWork(r) /\ SaveWork(r) /\ CodeWork(r)
  BY <1>1, <1>4, <1>5 DEF RequestOK, KeyWork, SaveWork, CodeWork, KeyOps
<1>7. RequestOK(r)
  BY <1>1, <1>4, <1>6 DEF RequestOK
<1>8. /\ call' \in [Calls -> Requests \cup {Nil}]
      /\ \A d \in Calls : call'[d] # Nil => RequestOK(call'[d])
  BY <1>2, <1>3, <1>7, CallsTyped
<1> QED BY <1>8, StaysTyped DEF DropKey, memory, history

LEMMA ReadKeysType ==
  ASSUME AccountsAssumption, TypeInv, NEW c \in Calls, ReadKeys(c)
  PROVE  TypeInv'
<1>1. call[c] \in Requests /\ RequestOK(call[c]) /\ call[c].pc = "read" /\ call[c] # Nil
  BY DEF ReadKeys, At, TypeInv, AccountsTyped
<1> DEFINE r == [call[c] EXCEPT !.pc = "write", !.mine = acc[call[c].user]]
<1>2. acc[call[c].user] \in Records /\ acc[call[c].user] # Nil
  BY <1>1, RequestFields DEF TypeInv, AccountsTyped, AccountsAssumption
<1>3. r \in Requests
  BY <1>1, <1>2, AlteredTyped
<1>4. Turn(c, r)
  BY <1>1, Turns
<1>5. /\ r.op = call[c].op /\ r.pc = "write" /\ r.snap = call[c].snap /\ r.fresh = call[c].fresh /\ r.arg = call[c].arg
      /\ r.late = call[c].late /\ r.token = call[c].token /\ r.mine = acc[call[c].user]
  BY <1>1 DEF Requests
<1> HIDE DEF r
<1>6. KeyWork(r) /\ SaveWork(r) /\ CodeWork(r)
  BY <1>1, <1>2, <1>5 DEF RequestOK, KeyWork, SaveWork, CodeWork, KeyOps
<1>7. RequestOK(r)
  BY <1>1, <1>5, <1>6 DEF RequestOK
<1>8. /\ call' \in [Calls -> Requests \cup {Nil}]
      /\ \A d \in Calls : call'[d] # Nil => RequestOK(call'[d])
  BY <1>3, <1>4, <1>7, CallsTyped
<1> QED BY <1>8, StaysTyped DEF ReadKeys, memory, history

LEMMA WriteKeysType ==
  ASSUME AccountsAssumption, TypeInv, NEW c \in Calls, WriteKeys(c)
  PROVE  TypeInv'
<1> DEFINE u == call[c].user
           r == [call[c] EXCEPT !.pc = "answer"]
<1>1. call[c] \in Requests /\ RequestOK(call[c]) /\ call[c].pc = "write" /\ call[c] # Nil
  BY DEF WriteKeys, At, TypeInv, AccountsTyped
<1>2. u \in Users /\ call[c].mine \in Records /\ call[c].fresh \in Tokens \cup {Nil}
  BY <1>1, RequestFields DEF RequestOK, KeyWork
<1>3. r \in Requests
  BY <1>1, AlteredTyped
<1>4. Go(c, "answer") => Turn(c, r)
  BY <1>1, Turns
<1>5. /\ r.op = call[c].op /\ r.pc = "answer" /\ r.snap = call[c].snap /\ r.fresh = call[c].fresh /\ r.arg = call[c].arg
      /\ r.late = call[c].late /\ r.token = call[c].token
  BY <1>1 DEF Requests
<1> HIDE DEF u, r
<1>6. KeyWork(r) /\ SaveWork(r) /\ CodeWork(r)
  BY <1>1, <1>5 DEF RequestOK, KeyWork, SaveWork, CodeWork, KeyOps
<1>7. RequestOK(r)
  BY <1>1, <1>5, <1>6 DEF RequestOK
<1>8. /\ call' \in [Calls -> Requests \cup {Nil}]
      /\ \A d \in Calls : call'[d] # Nil => RequestOK(call'[d])
  <2>1. CASE Leave(c)
    BY <2>1, LeaveType
  <2>2. CASE Go(c, "answer")
    BY <1>3, <1>4, <1>7, <2>2, CallsTyped
  <2> QED BY <2>1, <2>2 DEF WriteKeys
<1>9. CASE UNCHANGED <<acc, kept, clash>>
  BY <1>8, <1>9, StaysTyped DEF WriteKeys, memory
<1>10. CASE ~UNCHANGED <<acc, kept, clash>>
  <2> DEFINE ks == [call[c].mine.keys EXCEPT ![call[c].arg] = call[c].fresh]
  <2>1. acc' = [acc EXCEPT ![u].keys = ks] /\ clash' \subseteq clash \cup {u}
        /\ (kept' = kept \/ kept' = [kept EXCEPT ![u][call[c].arg] = Nil])
    BY <1>10 DEF WriteKeys, u
  <2>2. ks \in [Names -> Tokens \cup {Nil}]
    BY <1>2, RecordFields
  <2>3. acc \in [Users -> Records]
    BY DEF TypeInv, AccountsTyped
  <2>4. [acc[u] EXCEPT !.keys = ks] \in Records
    <3> HIDE DEF ks
    <3> QED BY <1>2, <2>2, <2>3 DEF Records
  <2>5. acc' = [acc EXCEPT ![u] = [acc[u] EXCEPT !.keys = ks]]
    <3> HIDE DEF ks
    <3> QED BY <1>2, <2>1, <2>3
  <2>6. acc' \in [Users -> Records]
    BY <1>2, <2>3, <2>4, <2>5
  <2>7. kept' \in [Users -> [Names -> Tokens \cup {Nil}]]
    BY <1>2, <2>1 DEF TypeInv
  <2>8. clash' \subseteq Users
    BY <1>2, <2>1 DEF TypeInv
  <2> QED BY <1>8, <2>6, <2>7, <2>8 DEF WriteKeys, memory, TypeInv, AccountsTyped
<1> QED BY <1>9, <1>10

LEMMA AnswerKeyType ==
  ASSUME AccountsAssumption, TypeInv, NEW c \in Calls, AnswerKey(c)
  PROVE  TypeInv'
<1> DEFINE u == call[c].user
           n == call[c].arg
           k == call[c].snap.keys[n]
<1>1. call[c] \in Requests /\ RequestOK(call[c]) /\ call[c].pc = "answer" /\ call[c] # Nil
  BY DEF AnswerKey, At, TypeInv, AccountsTyped
<1>2. u \in Users /\ n \in Names /\ call[c].fresh \in Tokens \cup {Nil} /\ call[c].snap \in Records
  BY <1>1, RequestFields DEF RequestOK, KeyWork, KeyOps
<1>3. call[c].op = "delete" => k \in Tokens
  BY <1>1, <1>2, RecordFields DEF RequestOK, KeyWork
<1>4. /\ call' \in [Calls -> Requests \cup {Nil}]
      /\ \A d \in Calls : call'[d] # Nil => RequestOK(call'[d])
  BY LeaveType DEF AnswerKey
<1> HIDE DEF u, n, k
<1>5. CASE call[c].op = "delete"
  <2>1. revoked' = revoked \cup {k} /\ ended' = ended \cup {k} /\ dropped' = dropped \cup {k}
    BY <1>1, <1>5 DEF AnswerKey, Does, k, n
  <2>2. UNCHANGED <<kept, clash>>
    BY <1>1, <1>5 DEF AnswerKey, Does
  <2>3. revoked' \subseteq Tokens /\ ended' \subseteq revoked' /\ dropped' \subseteq Tokens
    BY <1>3, <1>5, <2>1 DEF TypeInv, AccountsTyped
  <2> QED BY <1>4, <2>2, <2>3 DEF AnswerKey, TypeInv, AccountsTyped
<1>6. CASE call[c].op # "delete"
  <2>1. kept' = [kept EXCEPT ![u][n] = call[c].fresh] /\ clash' \subseteq clash \cup {u}
        /\ UNCHANGED <<revoked, ended, dropped>>
    BY <1>1, <1>6 DEF AnswerKey, Does, u, n
  <2>2. kept' \in [Users -> [Names -> Tokens \cup {Nil}]] /\ clash' \subseteq Users
    BY <1>2, <2>1 DEF TypeInv
  <2> QED BY <1>4, <2>1, <2>2 DEF AnswerKey, TypeInv, AccountsTyped
<1> QED BY <1>5, <1>6

LEMMA CodeRightType ==
  ASSUME AccountsAssumption, TypeInv, NEW c \in Calls, CodeRight(c)
  PROVE  TypeInv'
<1> DEFINE a == [call[c].snap EXCEPT !.secret = Confirmed(c), !.otp = TRUE]
           r == [call[c] EXCEPT !.pc = "update", !.todo = SavedFields, !.new = a]
<1>1. call[c] \in Requests /\ RequestOK(call[c]) /\ call[c].pc = "in" /\ call[c].op \in {"verify", "login"}
      /\ call[c] # Nil
  BY DEF CodeRight, At, Does, TypeInv, AccountsTyped
<1>2. call[c].snap \in Records
  BY <1>1, RequestFields DEF RequestOK
<1>3. Confirmed(c) \in Codes /\ Confirmed(c) = call[c].arg /\ Confirmed(c) # Nil
  <2>1. call[c].user \in Users /\ pending[call[c].user] \in Codes /\ call[c].snap.secret \in Codes
    BY <1>1, <1>2, RequestFields, RecordFields DEF TypeInv, AccountsTyped
  <2>2. Confirmed(c) \in Codes
    BY <2>1 DEF Confirmed, Wanted
  <2>3. Confirmed(c) = call[c].arg /\ Confirmed(c) # Nil
    BY DEF CodeRight, Right, Confirmed
  <2> QED BY <2>2, <2>3
<1>4. a \in Records /\ a.secret = Confirmed(c) /\ a.otp
  BY <1>2, <1>3 DEF Records
<1>5. a # Nil
  BY <1>4 DEF AccountsAssumption
<1>6. Turn(c, r)
  BY <1>1, Turns
<1> HIDE DEF a
<1>7. r \in Requests
  BY <1>1, <1>4, AlteredTyped
<1>8. /\ r.op = call[c].op /\ r.pc = "update" /\ r.snap = call[c].snap /\ r.fresh = call[c].fresh /\ r.arg = call[c].arg
      /\ r.late = call[c].late /\ r.token = call[c].token /\ r.new = a /\ r.todo = SavedFields
  BY <1>1 DEF Requests
<1> HIDE DEF r
<1>9. KeyWork(r) /\ SaveWork(r) /\ CodeWork(r)
  BY <1>1, <1>3, <1>4, <1>5, <1>8 DEF RequestOK, KeyWork, SaveWork, CodeWork, KeyOps
<1>10. RequestOK(r)
  BY <1>1, <1>8, <1>9 DEF RequestOK
<1>11. /\ call' \in [Calls -> Requests \cup {Nil}]
       /\ \A d \in Calls : call'[d] # Nil => RequestOK(call'[d])
  BY <1>6, <1>7, <1>10, CallsTyped
<1> QED BY <1>11, StaysTyped DEF CodeRight, memory, history

\* A login goes on to its session.
LEMMA SessionType ==
  ASSUME TypeInv, NEW c \in Calls, call[c] # Nil, call[c].op = "login", Go(c, "session")
  PROVE  /\ call' \in [Calls -> Requests \cup {Nil}]
         /\ \A d \in Calls : call'[d] # Nil => RequestOK(call'[d])
<1> DEFINE r == [call[c] EXCEPT !.pc = "session"]
<1>1. call[c] \in Requests /\ RequestOK(call[c])
  BY DEF TypeInv, AccountsTyped
<1>2. r \in Requests
  BY <1>1, AlteredTyped
<1>3. Turn(c, r)
  BY Turns
<1>4. /\ r.op = call[c].op /\ r.pc = "session" /\ r.snap = call[c].snap /\ r.fresh = call[c].fresh /\ r.arg = call[c].arg
      /\ r.late = call[c].late /\ r.token = call[c].token
  BY <1>1 DEF Requests
<1>5. r.fresh = Nil
  BY <1>1, <1>4, RequestFields DEF RequestOK, KeyWork, KeyOps
<1> HIDE DEF r
<1>6. KeyWork(r) /\ SaveWork(r) /\ CodeWork(r)
  BY <1>1, <1>4, <1>5 DEF RequestOK, KeyWork, SaveWork, CodeWork, KeyOps
<1>7. RequestOK(r)
  BY <1>1, <1>4, <1>6 DEF RequestOK
<1> QED BY <1>2, <1>3, <1>7, CallsTyped

LEMMA ReadOldType ==
  ASSUME AccountsAssumption, TypeInv, NEW c \in Calls, ReadOld(c)
  PROVE  TypeInv'
<1> DEFINE r == [call[c] EXCEPT !.pc = "update", !.old = acc[call[c].user]]
<1>1. call[c] \in Requests /\ RequestOK(call[c]) /\ call[c].pc = "guard" /\ call[c] # Nil
  BY DEF ReadOld, At, TypeInv, AccountsTyped
<1>2. acc[call[c].user] \in Records /\ acc[call[c].user] # Nil
  BY <1>1, RequestFields DEF TypeInv, AccountsTyped, AccountsAssumption
<1>3. r \in Requests
  BY <1>1, <1>2, AlteredTyped
<1>4. Allowed(c) => Turn(c, r)
  BY <1>1 DEF ReadOld, Turn, TypeInv, AccountsTyped
<1>5. /\ r.op = call[c].op /\ r.pc = "update" /\ r.snap = call[c].snap /\ r.fresh = call[c].fresh /\ r.arg = call[c].arg
      /\ r.late = call[c].late /\ r.token = call[c].token /\ r.old = acc[call[c].user] /\ r.new = call[c].new
      /\ r.todo = call[c].todo
  BY <1>1 DEF Requests
<1>6. call[c].op = "save"
  BY <1>1 DEF RequestOK
<1> HIDE DEF r
<1>7. KeyWork(r) /\ SaveWork(r) /\ CodeWork(r)
  BY <1>1, <1>2, <1>5, <1>6 DEF RequestOK, KeyWork, SaveWork, CodeWork, KeyOps
<1>8. RequestOK(r)
  BY <1>1, <1>5, <1>6, <1>7 DEF RequestOK
<1>9. /\ call' \in [Calls -> Requests \cup {Nil}]
      /\ \A d \in Calls : call'[d] # Nil => RequestOK(call'[d])
  <2>1. CASE Allowed(c)
    BY <1>3, <1>4, <1>8, <2>1, CallsTyped
  <2>2. CASE ~Allowed(c)
    BY <2>2, LeaveType DEF ReadOld
  <2> QED BY <2>1, <2>2
<1> QED BY <1>9, StaysTyped DEF ReadOld, memory, history

\* The fields that are left.
LEMMA Tails ==
  /\ SavedFields = <<"secret", "otp">>
  /\ Head(<<"secret", "otp">>) = "secret" /\ Tail(<<"secret", "otp">>) = <<"otp">>
  /\ Head(<<"api", "otp">>) = "api" /\ Tail(<<"api", "otp">>) = <<"otp">>
  /\ Head(<<"otp">>) = "otp" /\ Tail(<<"otp">>) = <<>>
  /\ <<"otp">> # <<>> /\ <<"secret", "otp">> # <<>> /\ <<"api", "otp">> # <<>>
  /\ <<"secret", "otp">> # <<"otp">> /\ <<"api", "otp">> # <<"otp">> /\ <<"secret", "otp">> # <<"api", "otp">>
BY DEF SavedFields

\* What one field of a save does to the record.
LEMMA FieldWritten ==
  ASSUME AccountsAssumption, TypeInv, NEW c \in Calls, WriteField(c)
  PROVE  LET u == call[c].user f == Head(call[c].todo) r == call[c].new IN
         /\ u \in Users /\ r \in Records
         /\ f \in {"secret", "otp", "api"}
         /\ f = "api" <=> call[c].todo = <<"api", "otp">>
         /\ f = "secret" <=> call[c].todo = SavedFields
         /\ acc' \in [Users -> Records]
         /\ \A w \in Users \ {u} : acc'[w] = acc[w]
         /\ acc'[u].keys = acc[u].keys
         /\ acc'[u].api = IF f = "api" THEN r.api ELSE acc[u].api
         /\ acc'[u].secret = IF f = "secret" THEN r.secret
                             ELSE IF f = "otp" /\ ~r.otp THEN Nil ELSE acc[u].secret
<1> DEFINE u == call[c].user f == Head(call[c].todo) r == call[c].new
<1>1. call[c] \in Requests /\ RequestOK(call[c]) /\ call[c].pc = "update" /\ call[c] # Nil /\ call[c].todo # <<>>
  BY DEF WriteField, At, TypeInv, AccountsTyped
<1>2. u \in Users /\ r \in Records
  BY <1>1, RequestFields DEF RequestOK, SaveWork, CodeWork
<1>3. call[c].todo \in {SavedFields, <<"api", "otp">>, <<"otp">>}
  BY <1>1, RequestFields
<1>4. /\ f \in {"secret", "otp", "api"}
      /\ f = "api" <=> call[c].todo = <<"api", "otp">>
      /\ f = "secret" <=> call[c].todo = SavedFields
  BY <1>3, Tails
<1>5. acc[u] \in Records /\ acc \in [Users -> Records]
  BY <1>2 DEF TypeInv, AccountsTyped
<1>6. r.secret \in Codes /\ r.api \in BOOLEAN /\ Nil \in Codes
  BY <1>2, RecordFields DEF Codes
<1> DEFINE a == CASE f = "secret" -> [acc[u] EXCEPT !.secret = r.secret]
                  [] f = "otp" -> IF r.otp THEN [acc[u] EXCEPT !.otp = TRUE] ELSE [acc[u] EXCEPT !.secret = Nil]
                  [] f = "api" -> [acc[u] EXCEPT !.api = r.api]
<1>7. acc' = [acc EXCEPT ![u] = a]
  BY DEF WriteField
<1> HIDE DEF u, f, r
<1>8. /\ a \in Records /\ a.keys = acc[u].keys
      /\ a.api = IF f = "api" THEN r.api ELSE acc[u].api
      /\ a.secret = IF f = "secret" THEN r.secret ELSE IF f = "otp" /\ ~r.otp THEN Nil ELSE acc[u].secret
  <2>1. CASE f = "secret"
    BY <1>5, <1>6, <2>1 DEF Records
  <2>2. CASE f = "otp"
    BY <1>5, <1>6, <2>2 DEF Records
  <2>3. CASE f = "api"
    BY <1>5, <1>6, <2>3 DEF Records
  <2> QED BY <1>4, <2>1, <2>2, <2>3
<1> HIDE DEF a
<1>9. acc' \in [Users -> Records] /\ acc'[u] = a /\ \A w \in Users \ {u} : acc'[w] = acc[w]
  BY <1>2, <1>5, <1>7, <1>8
<1> QED BY <1>2, <1>4, <1>8, <1>9 DEF u, f, r

LEMMA WriteFieldType ==
  ASSUME AccountsAssumption, TypeInv, NEW c \in Calls, WriteField(c)
  PROVE  TypeInv'
<1> DEFINE s == Tail(call[c].todo)
           r == [call[c] EXCEPT !.todo = s]
<1>1. call[c] \in Requests /\ RequestOK(call[c]) /\ call[c].pc = "update" /\ call[c] # Nil /\ call[c].todo # <<>>
  BY DEF WriteField, At, TypeInv, AccountsTyped
<1>2. call[c].user \in Users /\ acc' \in [Users -> Records]
  BY FieldWritten
<1>3. s \in {<<"otp">>, <<>>} /\ (call[c].todo = <<"otp">> => s = <<>>)
  <2>1. call[c].todo \in {SavedFields, <<"api", "otp">>, <<"otp">>}
    BY <1>1, RequestFields
  <2> QED BY <2>1, Tails
<1>4. Turn(c, r)
  BY <1>1, Turns
<1> HIDE DEF s
<1>5. r \in Requests
  <2>1. s \in {SavedFields, <<"api", "otp">>, <<"otp">>, <<>>}
    BY <1>3
  <2> QED BY <1>1, <2>1, AlteredTyped
<1>6. /\ r.op = call[c].op /\ r.pc = "update" /\ r.snap = call[c].snap /\ r.fresh = call[c].fresh /\ r.arg = call[c].arg
      /\ r.late = call[c].late /\ r.token = call[c].token /\ r.old = call[c].old /\ r.new = call[c].new
      /\ r.todo = s
  BY <1>1 DEF Requests
<1> HIDE DEF r
<1>7. KeyWork(r) /\ SaveWork(r) /\ CodeWork(r)
  <2>1. KeyWork(r)
    BY <1>1, <1>6 DEF RequestOK, KeyWork
  <2>2. SaveWork(r)
    <3>1. call[c].op = "save" /\ call[c].arg # "permissions" => s = <<>>
      BY <1>1, <1>3 DEF RequestOK, SaveWork
    <3> QED BY <1>1, <1>3, <1>6, <3>1 DEF RequestOK, SaveWork
  <2>3. CodeWork(r)
    BY <1>1, <1>3, <1>6 DEF RequestOK, CodeWork
  <2> QED BY <2>1, <2>2, <2>3
<1>8. RequestOK(r)
  BY <1>1, <1>6, <1>7 DEF RequestOK
<1>9. /\ call' \in [Calls -> Requests \cup {Nil}]
      /\ \A d \in Calls : call'[d] # Nil => RequestOK(call'[d])
  BY <1>4, <1>5, <1>8, CallsTyped
<1>10. clash' \subseteq Users
  BY <1>2 DEF WriteField, TypeInv
<1> QED BY <1>2, <1>9, <1>10 DEF WriteField, memory, TypeInv, AccountsTyped

LEMMA UpdatedType ==
  ASSUME AccountsAssumption, TypeInv, NEW c \in Calls, Updated(c)
  PROVE  TypeInv'
<1> DEFINE u == call[c].user
<1>1. call[c] \in Requests /\ RequestOK(call[c]) /\ call[c].pc = "update" /\ call[c] # Nil
  BY DEF Updated, At, TypeInv, AccountsTyped
<1>2. u \in Users
  BY <1>1, RequestFields
<1>3. /\ call' \in [Calls -> Requests \cup {Nil}]
      /\ \A d \in Calls : call'[d] # Nil => RequestOK(call'[d])
  <2>1. CASE Does(c, "login")
    BY <2>1, SessionType DEF Updated, Does
  <2>2. CASE ~Does(c, "login")
    BY <2>2, LeaveType DEF Updated
  <2> QED BY <2>1, <2>2
<1> HIDE DEF u
<1>4. CASE call[c].op = "save"
  <2>1. Lost(c) \subseteq Tokens
    <3>1. call[c].old \in Records
      BY <1>1, <1>4, RequestFields DEF RequestOK, SaveWork
    <3>2. call[c].old.keys \in [Names -> Tokens \cup {Nil}]
      BY <3>1, RecordFields
    <3> QED BY <3>2 DEF Lost, Range
  <2>2. revoked' = revoked \cup Lost(c) /\ barred' \subseteq barred \cup {u} /\ clash' \subseteq clash \cup {u} /\ device' = device
    BY <1>1, <1>4 DEF Updated, Does, u
  <2>3. revoked' \subseteq Tokens /\ ended \subseteq revoked' /\ barred' \subseteq Users /\ clash' \subseteq Users
    BY <1>2, <2>1, <2>2 DEF TypeInv, AccountsTyped
  <2> QED BY <1>3, <2>2, <2>3 DEF Updated, TypeInv, AccountsTyped
<1>5. CASE call[c].op # "save"
  <2>1. call[c].arg \in Codes
    <3>1. call[c].new \in Records /\ call[c].arg = call[c].new.secret
      BY <1>1, <1>5, RequestFields DEF RequestOK, CodeWork
    <3> QED BY <3>1, RecordFields
  <2>2. device' = [device EXCEPT ![u] = call[c].arg] /\ UNCHANGED <<revoked, barred, clash>>
    BY <1>1, <1>5 DEF Updated, Does, u
  <2>3. device' \in [Users -> Codes]
    BY <1>2, <2>1, <2>2 DEF TypeInv
  <2> QED BY <1>3, <2>2, <2>3 DEF Updated, TypeInv, AccountsTyped
<1> QED BY <1>4, <1>5

LEMMA PrintTokenType ==
  ASSUME AccountsAssumption, TypeInv, NEW c \in Calls, NEW t \in Tokens, PrintToken(c, t)
  PROVE  TypeInv'
<1>1. call[c].user \in Users
  BY RequestFields DEF PrintToken, At, TypeInv, AccountsTyped
<1>2. tok' \in [Tokens -> Marks \cup {Nil}] /\ second' \subseteq Tokens
  BY <1>1, MadeType DEF PrintToken
<1>3. /\ call' \in [Calls -> Requests \cup {Nil}]
      /\ \A d \in Calls : call'[d] # Nil => RequestOK(call'[d])
  BY LeaveType DEF PrintToken
<1> QED BY <1>2, <1>3 DEF PrintToken, history, TypeInv, AccountsTyped

LEMMA LogoutType ==
  ASSUME AccountsAssumption, TypeInv, NEW c \in Calls, Logout(c)
  PROVE  TypeInv'
<1>1. call[c].token \in Tokens
  BY RequestFields DEF Logout, At, Does, TypeInv, AccountsTyped, RequestOK
<1>2. revoked' \subseteq Tokens /\ ended' \subseteq revoked'
  BY <1>1 DEF Logout, TypeInv, AccountsTyped
<1>3. /\ call' \in [Calls -> Requests \cup {Nil}]
      /\ \A d \in Calls : call'[d] # Nil => RequestOK(call'[d])
  BY LeaveType DEF Logout
<1> QED BY <1>2, <1>3 DEF Logout, TypeInv, AccountsTyped

LEMMA GenerateType ==
  ASSUME AccountsAssumption, TypeInv, NEW c \in Calls, NEW s \in Secrets, Generate(c, s)
  PROVE  TypeInv'
<1>1. pending' \in [Users -> Codes]
  BY DEF Generate, TypeInv, AccountsTyped, Codes
<1>2. /\ call' \in [Calls -> Requests \cup {Nil}]
      /\ \A d \in Calls : call'[d] # Nil => RequestOK(call'[d])
  BY LeaveType DEF Generate
<1> QED BY <1>1, <1>2 DEF Generate, history, TypeInv, AccountsTyped

LEMMA ExpireType ==
  ASSUME AccountsAssumption, TypeInv, NEW t \in Tokens, Expire(t)
  PROVE  TypeInv' /\ \A s \in Tokens : tok'[s] = Nil <=> tok[s] = Nil
<1>1. tok[t] \in Marks /\ tok \in [Tokens -> Marks \cup {Nil}]
  BY DEF Expire, TypeInv, AccountsTyped
<1>2. [tok[t] EXCEPT !.live = FALSE] \in Marks
  BY <1>1 DEF Marks
<1>3. tok' = [tok EXCEPT ![t] = [tok[t] EXCEPT !.live = FALSE]]
  BY <1>1 DEF Expire
<1>4. Nil \notin Marks
  BY DEF AccountsAssumption
<1>5. tok' \in [Tokens -> Marks \cup {Nil}] /\ \A s \in Tokens : tok'[s] = Nil <=> tok[s] = Nil
  BY <1>1, <1>2, <1>3, <1>4
<1> QED BY <1>5 DEF Expire, history, TypeInv, AccountsTyped

LEMMA RestartType ==
  ASSUME AccountsAssumption, TypeInv, Restart
  PROVE  TypeInv'
<1>1. call' \in [Calls -> Requests \cup {Nil}] /\ \A d \in Calls : call'[d] = Nil
  BY DEF Restart
<1>2. \A c \in Calls : At(c, "update") => call[c].user \in Users
  BY RequestFields DEF At, TypeInv, AccountsTyped
<1>3. clash' \subseteq Users
  BY <1>2 DEF Restart, TypeInv
<1>4. ownerOf' \in [Tokens -> Users \cup {Nil}] /\ pending' \in [Users -> Codes]
  BY DEF Restart, Codes
<1> QED BY <1>1, <1>3, <1>4 DEF Restart, TypeInv, AccountsTyped

LEMMA InitType == ASSUME AccountsAssumption, Init PROVE TypeInv
<1>1. Blank \in Records
  BY DEF Blank, Records, Codes
<1>2. acc \in [Users -> Records] /\ call \in [Calls -> Requests \cup {Nil}] /\ ownerOf \in [Tokens -> Users \cup {Nil}]
      /\ pending \in [Users -> Codes] /\ device \in [Users -> Codes]
  BY <1>1 DEF Init, Codes
<1>3. tok \in [Tokens -> Marks \cup {Nil}]
  <2>1. \A t \in Tokens : tok[t] = IF \E u \in Users : LoggedIn[u] = t
                                   THEN [live |-> TRUE, owner |-> CHOOSE u \in Users : LoggedIn[u] = t] ELSE Nil
    BY DEF Init
  <2>2. \A t \in Tokens : (\E u \in Users : LoggedIn[u] = t) => (CHOOSE u \in Users : LoggedIn[u] = t) \in Users
    OBVIOUS
  <2>3. \A u \in Users : [live |-> TRUE, owner |-> u] \in Marks
    BY DEF Marks
  <2>4. \A t \in Tokens : tok[t] \in Marks \cup {Nil}
    <3> SUFFICES ASSUME NEW t \in Tokens PROVE tok[t] \in Marks \cup {Nil}
      OBVIOUS
    <3>1. CASE \E u \in Users : LoggedIn[u] = t
      <4> DEFINE w == CHOOSE u \in Users : LoggedIn[u] = t
      <4>1. w \in Users
        BY <2>2, <3>1
      <4>2. tok[t] = [live |-> TRUE, owner |-> w]
        BY <2>1, <3>1
      <4> HIDE DEF w
      <4> QED BY <2>3, <4>1, <4>2
    <3>2. CASE ~\E u \in Users : LoggedIn[u] = t
      BY <2>1, <3>2
    <3> QED BY <3>1, <3>2
  <2>5. tok = [t \in Tokens |-> tok[t]]
    BY DEF Init
  <2> QED BY <2>4, <2>5
<1>4. \A c \in Calls : call[c] = Nil
  BY DEF Init
<1>5. kept \in [Users -> [Names -> Tokens \cup {Nil}]]
  BY DEF Init
<1> QED BY <1>2, <1>3, <1>4, <1>5 DEF Init, TypeInv, AccountsTyped

\* The other steps change what is in hand, or nothing.
LEMMA NextType == ASSUME AccountsAssumption, TypeInv, [Next]_avars PROVE TypeInv'
<1>1. ASSUME NEW c \in Calls, Step(c) PROVE TypeInv'
  <2>1. ASSUME NEW op \in cast, NEW t \in Tokens, NEW u \in Users,
               NEW arg \in CASE op \in {"create", "minimal", "delete"} -> Names
                             [] op = "verify" -> Codes
                             [] OTHER -> {Nil}, Enter(c, op, t, u, arg)
        PROVE TypeInv'
    <3>1. arg \in Names \cup Codes /\ (op \in KeyOps => arg \in Names)
      BY <2>1 DEF KeyOps, Codes
    <3> QED BY <2>1, <3>1, EnterType
  <2>2. ASSUME NEW u \in Users, NEW code \in Codes,
               \/ EnterByPassword(c, "generate", u, Nil) \/ EnterByPassword(c, "verify", u, code)
               \/ Login(c, u, code)
        PROVE TypeInv'
    <3>1. Nil \in Codes
      BY DEF Codes
    <3> QED BY <2>2, <3>1, LoginType
  <2>3. CASE Finish(c) \/ RefuseKey(c) \/ Refuse(c)
    <3>1. Leave(c) /\ UNCHANGED <<acc, memory, history>>
      BY <2>3 DEF Finish, RefuseKey, Refuse
    <3> QED BY <3>1, LeaveType, StaysTyped DEF memory, history
  <2>4. CASE LoginPlain(c)
    BY <2>4, SessionType, StaysTyped DEF LoginPlain, At, Does, memory, history
  <2>5. CASE Logout(c) \/ DropKey(c) \/ ReadKeys(c) \/ WriteKeys(c) \/ AnswerKey(c)
    BY <2>5, LogoutType, DropKeyType, ReadKeysType, WriteKeysType, AnswerKeyType
  <2>6. CASE CodeRight(c) \/ ReadOld(c) \/ WriteField(c) \/ Updated(c)
    BY <2>6, CodeRightType, ReadOldType, WriteFieldType, UpdatedType
  <2>7. ASSUME NEW t \in Tokens, PrintToken(c, t) \/ MakeKey(c, t) PROVE TypeInv'
    BY <2>7, PrintTokenType, MakeKeyType
  <2>8. ASSUME NEW s \in Secrets, Generate(c, s) PROVE TypeInv'
    BY <2>8, GenerateType
  <2>9. ASSUME NEW u \in Users, NEW api \in BOOLEAN, Save(c, u, acc[u].secret # Nil, api, <<"api", "otp">>)
        PROVE TypeInv'
    <3>1. (acc[u].secret # Nil) \in BOOLEAN
      OBVIOUS
    <3> QED BY <2>9, <3>1, SaveType
  <2>10. ASSUME NEW u \in Users, NEW otp \in BOOLEAN, Save(c, u, otp, acc[u].api, <<"otp">>)
         PROVE TypeInv'
    <3>1. acc[u].api \in BOOLEAN
      BY RecordFields DEF TypeInv, AccountsTyped
    <3> QED BY <2>10, <3>1, SaveType
  <2> QED BY <1>1, <2>1, <2>2, <2>3, <2>4, <2>5, <2>6, <2>7, <2>8, <2>9, <2>10 DEF Step
<1>2. ASSUME NEW t \in Tokens, Expire(t) PROVE TypeInv'
  BY <1>2, ExpireType
<1>3. CASE Forget
  <2>1. ownerOf' \in [Tokens -> Users \cup {Nil}] /\ pending' \in [Users -> Codes] /\ second' \subseteq Tokens
    BY <1>3 DEF Forget, Codes
  <2> QED BY <1>3, <2>1 DEF Forget, history, TypeInv, AccountsTyped
<1>4. CASE Restart
  BY <1>4, RestartType
<1>5. CASE UNCHANGED avars
  BY <1>5 DEF avars, TypeInv, AccountsTyped
<1> QED BY <1>1, <1>2, <1>3, <1>4, <1>5 DEF Next

LEMMA TypeInvariance == Spec => []TypeInv
<1>1. Init => TypeInv
  BY InitType, AccountsAssumption
<1>2. TypeInv /\ [Next]_avars => TypeInv'
  BY NextType, AccountsAssumption
<1> QED BY <1>1, <1>2, PTL DEF Spec

(* The variables keep their types, whatever the instance.                      *)
THEOREM AccountsTypeCorrect == Spec => []AccountsTyped
<1>1. TypeInv => AccountsTyped
  BY DEF TypeInv
<1> QED BY <1>1, TypeInvariance, PTL

(* A token that was logged out or deleted is let in by no endpoint until the     *)
(* process ends, though extractUserFromExpiredToken has a way in of its own.      *)
THEOREM NotReadmittedAlways == Spec => []NotReadmitted
<1>1. TypeInv => NotReadmitted
  BY DEF TypeInv, RequestOK, NotReadmitted
<1> QED BY <1>1, TypeInvariance, PTL

-------------------------------------------------------------------------------
(* What steps do to the requests.                                              *)

Others(c) == \A d \in Calls \ {c} : call'[d] = call[d]

Gone(c) == call'[c] = Nil /\ Others(c)

\* A request is let in, or a profile is sent.
Arrives(c) ==
  /\ call[c] = Nil /\ Others(c)
  /\ call'[c].op # "save" /\ call'[c].pc = "in" /\ call'[c].fresh = Nil
  /\ call'[c].snap = acc[call'[c].user]

Sends(c) ==
  /\ call[c] = Nil /\ Others(c)
  /\ call'[c].op = "save" /\ call'[c].pc = "guard" /\ call'[c].fresh = Nil

\* A request goes on.
GoesOn(c) ==
  /\ call[c] # Nil /\ Others(c)
  /\ call'[c].op = call[c].op /\ call'[c].user = call[c].user /\ call'[c].arg = call[c].arg
  /\ call'[c].snap = call[c].snap

LEMMA TurnsTo ==
  ASSUME TypeInv, NEW c \in Calls, NEW r, Turn(c, r)
  PROVE  call'[c] = r /\ Others(c)
BY DEF TypeInv, AccountsTyped, Turn, Others

LEMMA Leaves == ASSUME TypeInv, NEW c \in Calls, Leave(c) PROVE Gone(c)
<1>1. Turn(c, Nil)
  BY DEF Leave, Turn
<1> QED BY <1>1, TurnsTo DEF Gone

LEMMA Arrivals ==
  ASSUME TypeInv, NEW c \in Calls
  PROVE  /\ \A op, t, u, arg : Enter(c, op, t, u, arg) => Arrives(c)
         /\ \A op, u, code : op # "save" /\ EnterByPassword(c, op, u, code) => Arrives(c)
         /\ \A u, code : Login(c, u, code) => Arrives(c)
<1>1. ASSUME NEW op, op # "save", NEW t, NEW u, NEW arg, call[c] = Nil, Turn(c, Request(op, t, u, arg))
      PROVE Arrives(c)
  <2>1. call'[c] = Request(op, t, u, arg) /\ Others(c)
    BY <1>1, TurnsTo
  <2> QED BY <1>1, <2>1 DEF Arrives, Request
<1>2. \A op, t, u, arg : Enter(c, op, t, u, arg) => call[c] = Nil /\ op # "save" /\ Turn(c, Request(op, t, u, arg))
  BY DEF Enter, Turn, Bearing
<1>3. \A op, u, code : EnterByPassword(c, op, u, code) => call[c] = Nil /\ Turn(c, Request(op, Nil, u, code))
  BY DEF EnterByPassword, Turn
<1>4. \A u, code : Login(c, u, code) => call[c] = Nil /\ Turn(c, Request("login", Nil, u, code))
  BY DEF Login, Turn
<1>5. \A op, t, u, arg : Enter(c, op, t, u, arg) => Arrives(c)
  BY <1>1, <1>2
<1>6. \A op, u, code : op # "save" /\ EnterByPassword(c, op, u, code) => Arrives(c)
  BY <1>1, <1>3
<1>7. \A u, code : Login(c, u, code) => Arrives(c)
  BY <1>1, <1>4
<1> QED BY <1>5, <1>6, <1>7

LEMMA SaveSends ==
  ASSUME TypeInv, NEW c \in Calls, NEW u, NEW otp, NEW api, NEW fields, Save(c, u, otp, api, fields)
  PROVE  Sends(c) /\ call'[c].todo = fields
<1> DEFINE q == Request("save", Nil, u, IF "api" \in Range(fields) THEN "permissions" ELSE Nil)
           x == [Blank EXCEPT !.otp = otp, !.api = api]
           r == [q EXCEPT !.pc = "guard", !.snap = Nil, !.todo = fields, !.new = x]
<1>1. Turn(c, r) /\ call[c] = Nil
  BY DEF Save, Turn
<1>2. r.op = "save" /\ r.pc = "guard" /\ r.fresh = Nil /\ r.todo = fields
  BY DEF Request
<1> HIDE DEF r
<1> QED BY <1>1, <1>2, TurnsTo DEF Sends

LEMMA Goings ==
  ASSUME TypeInv, NEW c \in Calls
  PROVE  /\ \A t : MakeKey(c, t) => GoesOn(c) /\ call[c].pc = "in" /\ call'[c].pc = "read" /\ call'[c].fresh = t
         /\ DropKey(c) => GoesOn(c) /\ call[c].pc = "in" /\ call'[c].pc = "read" /\ call'[c].fresh = call[c].fresh
         /\ ReadKeys(c) => /\ GoesOn(c) /\ call[c].pc = "read" /\ call'[c].pc = "write"
                           /\ call'[c].fresh = call[c].fresh /\ call'[c].mine = acc[call[c].user]
         /\ CodeRight(c) => /\ GoesOn(c) /\ call[c].pc = "in" /\ call'[c].pc = "update"
                            /\ call'[c].fresh = call[c].fresh /\ call'[c].todo = SavedFields
         /\ ReadOld(c) => \/ Gone(c)
                          \/ /\ GoesOn(c) /\ call[c].pc = "guard" /\ call'[c].pc = "update" /\ Allowed(c)
                             /\ call'[c].fresh = call[c].fresh /\ call'[c].todo = call[c].todo
                             /\ call'[c].new = call[c].new /\ call'[c].old = acc[call[c].user]
         /\ WriteField(c) => /\ GoesOn(c) /\ call[c].pc = "update" /\ call'[c].pc = "update"
                             /\ call'[c].fresh = call[c].fresh /\ call'[c].todo = Tail(call[c].todo)
                             /\ call'[c].new = call[c].new /\ call'[c].old = call[c].old
<1>1. call[c] # Nil => call[c] \in Requests
  BY DEF TypeInv, AccountsTyped
<1>2. ASSUME NEW t, MakeKey(c, t)
      PROVE  GoesOn(c) /\ call[c].pc = "in" /\ call'[c].pc = "read" /\ call'[c].fresh = t
  <2>1. call[c] # Nil /\ call[c].pc = "in"
    BY <1>2 DEF MakeKey, At
  <2> DEFINE r == [call[c] EXCEPT !.pc = "read", !.fresh = t]
  <2>2. Turn(c, r)
    BY <1>2, <2>1, Turns
  <2> HIDE DEF r
  <2>3. call'[c] = r /\ Others(c)
    BY <2>2, TurnsTo
  <2> QED BY <1>1, <2>1, <2>3 DEF GoesOn, Requests, r
<1>3. ASSUME DropKey(c)
      PROVE  GoesOn(c) /\ call[c].pc = "in" /\ call'[c].pc = "read" /\ call'[c].fresh = call[c].fresh
  <2>1. call[c] # Nil /\ call[c].pc = "in"
    BY <1>3 DEF DropKey, At
  <2>2. call'[c] = [call[c] EXCEPT !.pc = "read"] /\ Others(c)
    BY <1>3, <2>1, Turns, TurnsTo DEF DropKey
  <2> QED BY <1>1, <2>1, <2>2 DEF GoesOn, Requests
<1>4. ASSUME ReadKeys(c)
      PROVE  /\ GoesOn(c) /\ call[c].pc = "read" /\ call'[c].pc = "write"
             /\ call'[c].fresh = call[c].fresh /\ call'[c].mine = acc[call[c].user]
  <2>1. call[c] # Nil /\ call[c].pc = "read"
    BY <1>4 DEF ReadKeys, At
  <2> DEFINE r == [call[c] EXCEPT !.pc = "write", !.mine = acc[call[c].user]]
  <2>2. Turn(c, r)
    BY <1>4, <2>1, Turns
  <2> HIDE DEF r
  <2>3. call'[c] = r /\ Others(c)
    BY <2>2, TurnsTo
  <2> QED BY <1>1, <2>1, <2>3 DEF GoesOn, Requests, r
<1>5. ASSUME CodeRight(c)
      PROVE  /\ GoesOn(c) /\ call[c].pc = "in" /\ call'[c].pc = "update"
             /\ call'[c].fresh = call[c].fresh /\ call'[c].todo = SavedFields
  <2>1. call[c] # Nil /\ call[c].pc = "in"
    BY <1>5 DEF CodeRight, At
  <2> DEFINE r == [call[c] EXCEPT !.pc = "update", !.todo = SavedFields,
                              !.new = [call[c].snap EXCEPT !.secret = Confirmed(c), !.otp = TRUE]]
  <2>2. Turn(c, r)
    BY <1>5, <2>1, Turns
  <2> HIDE DEF r
  <2>3. call'[c] = r /\ Others(c)
    BY <2>2, TurnsTo
  <2> QED BY <1>1, <2>1, <2>3 DEF GoesOn, Requests, r
<1>6. ASSUME ReadOld(c), Allowed(c)
      PROVE  /\ GoesOn(c) /\ call[c].pc = "guard" /\ call'[c].pc = "update"
             /\ call'[c].fresh = call[c].fresh /\ call'[c].todo = call[c].todo
             /\ call'[c].new = call[c].new /\ call'[c].old = acc[call[c].user]
  <2>1. call[c] # Nil /\ call[c].pc = "guard"
    BY <1>6 DEF ReadOld, At
  <2>2. Turn(c, [call[c] EXCEPT !.pc = "update", !.old = acc[call[c].user]])
    BY <1>6, <2>1 DEF ReadOld, Turn, TypeInv, AccountsTyped
  <2>3. call'[c] = [call[c] EXCEPT !.pc = "update", !.old = acc[call[c].user]] /\ Others(c)
    BY <2>2, TurnsTo
  <2> QED BY <1>1, <2>1, <2>3 DEF GoesOn, Requests
<1>7. ReadOld(c) /\ ~Allowed(c) => Gone(c)
  BY Leaves DEF ReadOld
<1>8. ASSUME WriteField(c)
      PROVE  /\ GoesOn(c) /\ call[c].pc = "update" /\ call'[c].pc = "update"
             /\ call'[c].fresh = call[c].fresh /\ call'[c].todo = Tail(call[c].todo)
             /\ call'[c].new = call[c].new /\ call'[c].old = call[c].old
  <2>1. call[c] # Nil /\ call[c].pc = "update"
    BY <1>8 DEF WriteField, At
  <2> DEFINE r == [call[c] EXCEPT !.todo = Tail(@)]
  <2>2. Turn(c, r)
    BY <1>8, <2>1, Turns
  <2> HIDE DEF r
  <2>3. call'[c] = r /\ Others(c)
    BY <2>2, TurnsTo
  <2> QED BY <1>1, <2>1, <2>3 DEF GoesOn, Requests, r
<1> QED BY <1>2, <1>3, <1>4, <1>5, <1>6, <1>7, <1>8

LEMMA Moved ==
  ASSUME TypeInv, NEW c \in Calls, call[c] # Nil, NEW p, Go(c, p)
  PROVE  GoesOn(c) /\ call'[c].pc = p /\ call'[c].fresh = call[c].fresh
<1>1. call[c] \in Requests
  BY DEF TypeInv, AccountsTyped
<1>2. call'[c] = [call[c] EXCEPT !.pc = p] /\ Others(c)
  BY Turns, TurnsTo
<1> QED BY <1>1, <1>2 DEF GoesOn, Requests

-------------------------------------------------------------------------------
(* Keys.  What requests carry comes from the record, or they carried it before.     *)

Onward(c) ==
  /\ GoesOn(c) /\ call'[c].fresh = call[c].fresh
  /\ call'[c].pc = "read" => call[c].pc = "in"
  /\ call'[c].pc = "write" => call[c].pc = "read" /\ call'[c].mine = acc[call[c].user]

Carried(d) ==
  LET q == call[d] r == call'[d] IN
  r # Nil =>
    /\ \A t \in Tokens : Copied(r, t) => Listed(r.user, t) \/ (q # Nil /\ q.user = r.user /\ Copied(q, t))
    /\ r.fresh # Nil => /\ q # Nil /\ q.user = r.user /\ q.fresh = r.fresh
                        /\ r.pc \in {"read", "write"} => q.pc \in {"read", "write"}

Known(d) ==
  LET q == call[d] r == call'[d] IN
  r # Nil =>
    /\ r.pc = "write" => \/ r.mine.keys = acc[r.user].keys
                         \/ q # Nil /\ q.user = r.user /\ q.pc = "write" /\ q.mine.keys = r.mine.keys
    /\ r.pc = "answer" /\ r.op = "delete" =>
         /\ q # Nil /\ q.user = r.user /\ q.pc = "answer" /\ q.op = "delete"
         /\ q.snap.keys[q.arg] = r.snap.keys[r.arg]

LEMMA OthersKnown ==
  ASSUME NEW c, NEW d \in Calls, d # c, Others(c)
  PROVE  Carried(d) /\ Known(d)
BY DEF Others, Carried, Known

LEMMA CarriedBy ==
  ASSUME TypeInv, TypeInv', NEW c \in Calls, Gone(c) \/ Arrives(c) \/ Sends(c) \/ Onward(c)
  PROVE  \A d \in Calls : Carried(d)
<1>1. Others(c)
  BY DEF Gone, Arrives, Sends, Onward, GoesOn
<1>2. Carried(c)
  <2>1. CASE Gone(c)
    BY <2>1 DEF Gone, Carried
  <2>2. CASE Arrives(c)
    BY <2>2 DEF Arrives, Carried, Copied, Listed
  <2>3. CASE Sends(c)
    BY <2>3 DEF Sends, Carried, Copied
  <2>4. CASE Onward(c)
    <3>1. call[c] # Nil /\ RequestOK(call[c])
      BY <2>4 DEF Onward, GoesOn, TypeInv
    <3>2. \A t \in Tokens : Copied(call'[c], t) => Listed(call'[c].user, t) \/ Copied(call[c], t)
      BY <2>4, <3>1 DEF Onward, GoesOn, Copied, Listed
    <3>3. call'[c].fresh # Nil /\ call'[c].pc \in {"read", "write"} => call[c].pc \in {"read", "write"}
      BY <2>4, <3>1 DEF Onward, GoesOn, RequestOK, KeyWork
    <3> QED BY <2>4, <3>1, <3>2, <3>3 DEF Onward, GoesOn, Carried
  <2> QED BY <2>1, <2>2, <2>3, <2>4
<1> QED BY <1>1, <1>2, OthersKnown

LEMMA KnownBy ==
  ASSUME NEW c \in Calls, Gone(c) \/ Arrives(c) \/ Sends(c) \/ (Onward(c) /\ call'[c].pc # "answer")
  PROVE  \A d \in Calls : Known(d)
<1>1. Others(c)
  BY DEF Gone, Arrives, Sends, Onward, GoesOn
<1>2. Known(c)
  BY DEF Gone, Arrives, Sends, Onward, GoesOn, Known
<1> QED BY <1>1, <1>2, OthersKnown

\* A token is in the record: it was, or a request had it in hand.
Given(u, t) ==
  \/ Listed(u, t)
  \/ \E d \in Calls : /\ call[d] # Nil /\ call[d].user = u
                      /\ \/ Copied(call[d], t)
                         \/ call[d].fresh = t /\ (call'[d] = Nil \/ call'[d].pc \notin {"read", "write"})

LEMMA ApartStep ==
  ASSUME AccountsAssumption, TypeInv, TypeInv', KeysApart, FreshOK,
         \A u \in Users, t \in Tokens : Listed(u, t)' => Given(u, t),
         \A d \in Calls : Carried(d),
         \A t \in Tokens : tok[t] # Nil => tok'[t] # Nil,
         \A t \in dropped' :
           \/ t \in dropped
           \/ /\ \E u \in Users : Holds(u, t)
              /\ \A c \in Calls : call[c] # Nil /\ call[c].pc \in {"read", "write"} => call[c].fresh # t
  PROVE  KeysApart' /\ FreshOK'
<1>1. \A d \in Calls : call'[d] # Nil => call'[d].user \in Users /\ call'[d].fresh \in Tokens \cup {Nil}
  BY RequestFields DEF TypeInv, AccountsTyped
<1>2. Nil \notin Tokens
  BY DEF AccountsAssumption
<1>3. ASSUME NEW u \in Users, NEW t \in Tokens, Holds(u, t)' PROVE Holds(u, t)
  <2>1. CASE Listed(u, t)'
    BY <2>1 DEF Given, Holds, Carries
  <2>2. CASE ~Listed(u, t)'
    <3>1. PICK c \in Calls : call'[c] # Nil /\ call'[c].user = u /\ (Copied(call'[c], t) \/ call'[c].fresh = t)
      BY <1>3, <2>2 DEF Holds, Carries, Copied
    <3>2. Carried(c)
      OBVIOUS
    <3> QED BY <1>2, <3>1, <3>2 DEF Carried, Holds, Carries
  <2> QED BY <2>1, <2>2
<1>4. KeysApart'
  <2>1. \A u, w \in Users, t \in Tokens : Holds(u, t)' /\ Holds(w, t)' => u = w
    BY <1>3 DEF KeysApart
  <2>2. \A u \in Users, t \in Tokens : Holds(u, t)' => tok'[t] # Nil
    BY <1>3 DEF KeysApart
  <2>3. dropped' \subseteq Tokens
    BY DEF TypeInv
  <2>4. \A t \in dropped' : tok'[t] # Nil
    BY <2>3 DEF KeysApart
  <2> QED BY <2>1, <2>2, <2>4 DEF KeysApart
<1>5. ASSUME NEW c \in Calls, NEW f \in Tokens, call'[c] # Nil, call'[c].pc \in {"read", "write"}, call'[c].fresh = f
      PROVE  /\ \A u \in Users : ~Listed(u, f)'
             /\ \A d \in Calls : call'[d] # Nil => ~Copied(call'[d], f) /\ (d # c => call'[d].fresh # f)
             /\ f \notin dropped'
  <2>1. Carried(c)
    OBVIOUS
  <2>2. call[c] # Nil /\ call[c].fresh = f /\ call[c].pc \in {"read", "write"} /\ f # Nil
    BY <1>2, <1>5, <2>1 DEF Carried
  <2>3. /\ \A u \in Users : ~Listed(u, f)
        /\ \A d \in Calls : call[d] # Nil => ~Copied(call[d], f) /\ (d # c => call[d].fresh # f)
        /\ f \notin dropped
    BY <2>2 DEF FreshOK
  <2>4. \A u \in Users : ~Listed(u, f)'
    <3> SUFFICES ASSUME NEW u \in Users PROVE ~Given(u, f)
      BY <2>2
    <3> QED BY <1>5, <2>3 DEF Given
  <2>5. \A d \in Calls : call'[d] # Nil => ~Copied(call'[d], f) /\ (d # c => call'[d].fresh # f)
    <3> SUFFICES ASSUME NEW d \in Calls, call'[d] # Nil PROVE ~Copied(call'[d], f) /\ (d # c => call'[d].fresh # f)
      OBVIOUS
    <3>1. Carried(d)
      OBVIOUS
    <3> QED BY <1>1, <2>2, <2>3, <3>1 DEF Carried
  <2>6. f \notin dropped'
    BY <2>2, <2>3
  <2> QED BY <2>4, <2>5, <2>6
<1>6. FreshOK'
  <2> SUFFICES ASSUME NEW c \in Calls, call'[c] # Nil, call'[c].pc \in {"read", "write"}, call'[c].fresh # Nil
               PROVE  /\ \A u \in Users : ~(\E n \in Names : acc'[u].keys[n] = call'[c].fresh)
                      /\ \A d \in Calls : call'[d] # Nil => /\ ~Copied(call'[d], call'[c].fresh)
                                                            /\ d # c => call'[d].fresh # call'[c].fresh
                      /\ call'[c].fresh \notin dropped'
    BY DEF FreshOK, Copied, Listed
  <2>1. PICK f \in Tokens : call'[c].fresh = f
    BY <1>1
  <2>2. \A u \in Users : ~(\E n \in Names : acc'[u].keys[n] = f)
    BY <1>5, <2>1 DEF Listed
  <2> QED BY <1>5, <2>1, <2>2
<1> QED BY <1>4, <1>6

\* The list of a user whose record does not change.
LEMMA ListStep ==
  ASSUME NEW w \in Users, ListOK(w), acc'[w].keys = acc[w].keys,
         kept'[w] = kept[w] \/ \A n \in Names : kept'[w][n] # Nil => acc[w].keys[n] = kept'[w][n],
         \A t \in dropped' : t \in dropped \/ ~Listed(w, t),
         \A d \in Calls : call'[d] # Nil /\ call'[d].user = w => Known(d)
  PROVE  ListOK(w)'
<1>1. \A t : Listed(w, t)' <=> Listed(w, t)
  BY DEF Listed
<1>2. \A m, n \in Names : acc'[w].keys[m] = acc'[w].keys[n] /\ acc'[w].keys[n] # Nil => m = n
  BY DEF ListOK
<1>3. \A n \in Names : kept'[w][n] # Nil => acc'[w].keys[n] = kept'[w][n]
  BY DEF ListOK
<1>4. \A t \in dropped' : ~Listed(w, t)'
  BY <1>1 DEF ListOK
<1>5. ASSUME NEW c \in Calls, call'[c] # Nil, call'[c].user = w
      PROVE  /\ call'[c].pc = "write" => call'[c].mine.keys = acc'[w].keys
             /\ call'[c].pc = "answer" /\ call'[c].op = "delete" =>
                  ~\E n \in Names : acc'[w].keys[n] = call'[c].snap.keys[call'[c].arg]
  BY <1>5 DEF ListOK, Listed, Known
<1> QED BY <1>2, <1>3, <1>4, <1>5 DEF ListOK, Listed

\* Steps that leave keys alone.
LEMMA KeysStep ==
  ASSUME AccountsAssumption, TypeInv, TypeInv', KeysInv, \A u \in Users : acc'[u].keys = acc[u].keys,
         UNCHANGED <<kept, dropped>>, clash \subseteq clash',
         \A t \in Tokens : tok[t] # Nil => tok'[t] # Nil,
         \A d \in Calls : Carried(d) /\ Known(d)
  PROVE  KeysInv'
<1>1. KeysApart' /\ FreshOK'
  <2>1. \A u \in Users, t \in Tokens : Listed(u, t)' => Given(u, t)
    BY DEF Listed, Given
  <2> QED BY <2>1, ApartStep DEF KeysInv
<1>2. \A u \in Users \ clash' : ListOK(u)'
  BY ListStep DEF KeysInv
<1> QED BY <1>1, <1>2 DEF KeysInv

LEMMA MadeStep ==
  ASSUME AccountsAssumption, TypeInv, TypeInv', NEW t \in Tokens, NEW kind, NEW u \in Users, Made(t, kind, u)
  PROVE  \A s \in Tokens : (tok'[s] # Nil <=> tok[s] # Nil \/ s = t)
<1>1. [live |-> TRUE, owner |-> IF kind = "minimal" THEN Nil ELSE u] \in Marks
  BY DEF Marks
<1>2. tok \in [Tokens -> Marks \cup {Nil}] /\ Nil \notin Marks
  BY DEF TypeInv, AccountsTyped, AccountsAssumption
<1> QED BY <1>1, <1>2 DEF Made

LEMMA MakeKeyKeys ==
  ASSUME AccountsAssumption, ~SameSecond, TypeInv, TypeInv', KeysInv, NEW c \in Calls, NEW t \in Tokens, MakeKey(c, t)
  PROVE  KeysInv'
<1>1. GoesOn(c) /\ call[c].pc = "in" /\ call'[c].pc = "read" /\ call'[c].fresh = t /\ call[c] # Nil
  BY Goings DEF GoesOn
<1>2. call[c].user \in Users /\ Nil \notin Tokens
  BY <1>1, RequestFields DEF TypeInv, AccountsTyped, AccountsAssumption
<1>3. tok[t] = Nil /\ \A s \in Tokens : (tok'[s] # Nil <=> tok[s] # Nil \/ s = t)
  BY <1>2, MadeStep DEF MakeKey, Fresh
<1>4. UNCHANGED <<acc, kept, dropped, clash>>
  BY DEF MakeKey, history
<1>5. /\ t \notin dropped
      /\ \A u \in Users : ~Listed(u, t)
      /\ \A d \in Calls : call[d] # Nil => ~Carries(call[d], t)
  <2>1. \A u \in Users : ~Holds(u, t)
    BY <1>3 DEF KeysInv, KeysApart
  <2>2. \A d \in Calls : call[d] # Nil => call[d].user \in Users
    BY RequestFields DEF TypeInv, AccountsTyped
  <2> QED BY <1>3, <2>1, <2>2 DEF KeysInv, KeysApart, Holds
<1>6. /\ \A d \in Calls \ {c} : call'[d] = call[d]
      /\ \A s \in Tokens : Copied(call'[c], s) => Copied(call[c], s)
  BY <1>1 DEF GoesOn, Others, Copied
<1>7. \A u \in Users, s \in Tokens : Holds(u, s)' => Holds(u, s) \/ (u = call[c].user /\ s = t)
  <2> SUFFICES ASSUME NEW u \in Users, NEW s \in Tokens, Holds(u, s)', ~Listed(u, s)
               PROVE  Holds(u, s) \/ (u = call[c].user /\ s = t)
    BY DEF Holds
  <2>1. PICK d \in Calls : call'[d] # Nil /\ call'[d].user = u /\ (Copied(call'[d], s) \/ call'[d].fresh = s)
    BY <1>4 DEF Holds, Listed, Carries, Copied
  <2> QED BY <1>1, <1>6, <2>1 DEF Holds, Carries, GoesOn
<1>8. KeysApart'
  <2>1. \A u, w \in Users, s \in Tokens : Holds(u, s)' /\ Holds(w, s)' => u = w
    <3>1. \A u \in Users : ~Holds(u, t)
      BY <1>3 DEF KeysInv, KeysApart
    <3> QED BY <1>7, <3>1 DEF KeysInv, KeysApart
  <2>2. \A u \in Users, s \in Tokens : Holds(u, s)' => tok'[s] # Nil
    BY <1>3, <1>7 DEF KeysInv, KeysApart
  <2>3. \A s \in dropped' : tok'[s] # Nil
    BY <1>3, <1>4 DEF KeysInv, KeysApart, TypeInv
  <2> QED BY <2>1, <2>2, <2>3 DEF KeysApart
<1>9. FreshOK'
  <2> SUFFICES ASSUME NEW a \in Calls, call'[a] # Nil, call'[a].pc \in {"read", "write"}, call'[a].fresh # Nil
               PROVE  /\ \A u \in Users : ~(\E n \in Names : acc[u].keys[n] = call'[a].fresh)
                      /\ \A d \in Calls : call'[d] # Nil => /\ ~Copied(call'[d], call'[a].fresh)
                                                            /\ d # a => call'[d].fresh # call'[a].fresh
                      /\ call'[a].fresh \notin dropped
    BY <1>4 DEF FreshOK, Copied, Listed
  <2>1. CASE a = c
    <3>1. \A d \in Calls : call'[d] # Nil => ~Copied(call'[d], t) /\ (d # c => call'[d].fresh # t)
      BY <1>1, <1>5, <1>6 DEF Carries, GoesOn
    <3> QED BY <1>1, <1>5, <2>1, <3>1 DEF Listed
  <2>2. CASE a # c
    <3>1. call'[a] = call[a]
      BY <1>6, <2>2
    <3>2. call[a].fresh \in Tokens /\ call[a].fresh # t
      BY <1>2, <1>5, <2>2, <3>1, RequestFields DEF TypeInv, AccountsTyped, Carries
    <3>3. /\ \A u \in Users : ~Listed(u, call[a].fresh)
          /\ \A d \in Calls : call[d] # Nil => /\ ~Copied(call[d], call[a].fresh)
                                               /\ d # a => call[d].fresh # call[a].fresh
          /\ call[a].fresh \notin dropped
      BY <3>1 DEF KeysInv, FreshOK
    <3>4. \A d \in Calls : call'[d] # Nil => /\ ~Copied(call'[d], call[a].fresh)
                                             /\ d # a => call'[d].fresh # call[a].fresh
      BY <1>1, <1>6, <3>2, <3>3
    <3> QED BY <3>1, <3>3, <3>4 DEF Listed
  <2> QED BY <2>1, <2>2
<1>10. \A u \in Users \ clash' : ListOK(u)'
  <2>1. \A d \in Calls : Known(d)
    BY <1>1, <1>6 DEF Known
  <2> QED BY <1>4, <2>1, ListStep DEF KeysInv
<1> QED BY <1>8, <1>9, <1>10 DEF KeysInv

LEMMA WriteKeysKeys ==
  ASSUME AccountsAssumption, TypeInv, TypeInv', KeysInv, NEW c \in Calls, WriteKeys(c)
  PROVE  KeysInv'
<1> DEFINE a == call[c].arg f == call[c].fresh
<1>0. PICK u : u = call[c].user
  OBVIOUS
<1>1. call[c] \in Requests /\ RequestOK(call[c]) /\ call[c].pc = "write" /\ call[c] # Nil
  BY DEF WriteKeys, At, TypeInv, AccountsTyped
<1>2. /\ u \in Users /\ a \in Names /\ f \in Tokens \cup {Nil} /\ call[c].mine \in Records /\ call[c].op \in KeyOps
      /\ call[c].mine.keys \in [Names -> Tokens \cup {Nil}] /\ Nil \notin Tokens
  BY <1>0, <1>1, RequestFields, RecordFields DEF RequestOK, KeyWork, AccountsAssumption
<1>3. UNCHANGED <<tok, dropped>>
  BY DEF WriteKeys, memory
<1>4. CASE Leave(c) /\ UNCHANGED <<acc, kept, clash>>
  <2>1. \A d \in Calls : Carried(d) /\ Known(d)
    BY <1>4, Leaves, CarriedBy, KnownBy
  <2> QED BY <1>3, <1>4, <2>1, KeysStep
<1>5. CASE /\ Go(c, "answer")
           /\ acc' = [acc EXCEPT ![u].keys = [call[c].mine.keys EXCEPT ![a] = f]]
           /\ clash' = IF Overtaken(c) THEN clash \cup {u} ELSE clash
           /\ kept' = IF Does(c, "delete") THEN [kept EXCEPT ![u][a] = Nil] ELSE kept
  <2>1. GoesOn(c) /\ call'[c].pc = "answer" /\ call'[c].fresh = f
    BY <1>1, <1>5, Moved
  <2> HIDE DEF a, f
  <2>2. /\ acc'[u].keys[a] = f
        /\ \A n \in Names \ {a} : acc'[u].keys[n] = call[c].mine.keys[n]
        /\ \A w \in Users \ {u} : acc'[w] = acc[w]
    <3>1. acc \in [Users -> Records] /\ acc[u] \in Records
      BY <1>2 DEF TypeInv, AccountsTyped
    <3>2. acc'[u].keys = [call[c].mine.keys EXCEPT ![a] = f] /\ \A w \in Users \ {u} : acc'[w] = acc[w]
      BY <1>2, <1>5, <3>1 DEF Records
    <3> QED BY <1>2, <3>2
  <2>3. \A w \in Users, t \in Tokens : Listed(w, t)' => Given(w, t)
    <3> SUFFICES ASSUME NEW w \in Users, NEW t \in Tokens, NEW n \in Names, acc'[w].keys[n] = t
                 PROVE  Given(w, t)
      BY DEF Listed
    <3>1. CASE w # u
      BY <2>2, <3>1 DEF Given, Listed
    <3>2. CASE w = u /\ n # a
      BY <1>0, <1>1, <2>2, <3>2 DEF Given, Copied
    <3>3. CASE w = u /\ n = a
      BY <1>0, <1>1, <2>1, <2>2, <3>3 DEF Given, f
    <3> QED BY <3>1, <3>2, <3>3
  <2>4. \A d \in Calls : Carried(d)
    BY <2>1, CarriedBy DEF Onward, f
  <2>5. KeysApart' /\ FreshOK'
    BY <1>3, <2>3, <2>4, ApartStep DEF KeysInv
  <2>6. \A d \in Calls \ {c} : call'[d] = call[d] /\ Known(d)
    BY <2>1, OthersKnown DEF GoesOn, Others
  <2>7. ASSUME NEW w \in Users \ clash', w # u PROVE ListOK(w)'
    <3>1. kept'[w] = kept[w]
      BY <1>2, <1>5, <2>7 DEF TypeInv
    <3>2. ListOK(w) /\ acc'[w].keys = acc[w].keys
      BY <1>5, <2>2, <2>7 DEF KeysInv
    <3>3. \A d \in Calls : call'[d] # Nil /\ call'[d].user = w => Known(d)
      BY <1>0, <2>1, <2>6, <2>7 DEF GoesOn
    <3> QED BY <1>3, <3>1, <3>2, <3>3, ListStep
  <2>8. ASSUME u \notin clash' PROVE ListOK(u)'
    <3>1. ~Overtaken(c) /\ u \notin clash
      BY <1>5, <2>8
    <3>2. ListOK(u)
      BY <1>2, <3>1 DEF KeysInv
    <3>3. /\ \A d \in Calls \ {c} : call[d] # Nil /\ call[d].user = u => call[d].pc # "write"
          /\ call[c].snap.keys[a] = acc[u].keys[a]
      BY <1>0, <3>1 DEF Overtaken, At, a
    <3>4. call[c].mine.keys = acc[u].keys
      BY <1>0, <1>1, <3>2 DEF ListOK
    <3>5. \A n \in Names : acc'[u].keys[n] = IF n = a THEN f ELSE acc[u].keys[n]
      BY <1>2, <2>2, <3>4
    <3>6. f # Nil => /\ ~Listed(u, f) /\ f \notin dropped
                     /\ \A d \in Calls : call[d] # Nil => ~Copied(call[d], f)
      BY <1>1, <1>2 DEF KeysInv, FreshOK, f
    <3>7. \A m, n \in Names : acc'[u].keys[m] = acc'[u].keys[n] /\ acc'[u].keys[n] # Nil => m = n
      BY <3>2, <3>5, <3>6 DEF ListOK, Listed
    <3>8. ASSUME NEW n \in Names, kept'[u][n] # Nil PROVE acc'[u].keys[n] = kept'[u][n]
      <4>1. CASE call[c].op = "delete"
        <5>1. kept'[u][n] = IF n = a THEN Nil ELSE kept[u][n]
          BY <1>1, <1>2, <1>5, <4>1 DEF Does, TypeInv
        <5> QED BY <3>2, <3>5, <3>8, <5>1 DEF ListOK
      <4>2. CASE call[c].op # "delete"
        <5>1. kept' = kept /\ call[c].snap.keys[a] = Nil
          BY <1>1, <1>5, <4>2 DEF Does, RequestOK, KeyWork, a
        <5> QED BY <3>2, <3>3, <3>5, <3>8, <5>1 DEF ListOK
      <4> QED BY <4>1, <4>2
    <3>9. \A t \in dropped' : ~\E n \in Names : acc'[u].keys[n] = t
      <4>1. dropped' = dropped /\ Nil \notin dropped
        BY <1>2, <1>3 DEF TypeInv
      <4> QED BY <3>2, <3>5, <3>6, <4>1 DEF ListOK, Listed
    <3>10. ASSUME NEW d \in Calls, call'[d] # Nil, call'[d].user = u
           PROVE  /\ call'[d].pc = "write" => call'[d].mine.keys = acc'[u].keys
                  /\ call'[d].pc = "answer" /\ call'[d].op = "delete" =>
                       ~\E n \in Names : acc'[u].keys[n] = call'[d].snap.keys[call'[d].arg]
      <4>1. CASE d # c
        <5>1. call'[d] = call[d] /\ call[d].pc # "write"
          BY <2>6, <3>3, <3>10, <4>1
        <5>2. ASSUME call[d].pc = "answer", call[d].op = "delete"
              PROVE  ~\E n \in Names : acc'[u].keys[n] = call[d].snap.keys[call[d].arg]
          <6> DEFINE k == call[d].snap.keys[call[d].arg]
          <6>1. call[d] # Nil /\ RequestOK(call[d])
            BY <3>10, <5>1 DEF TypeInv
          <6>2. k # Nil /\ call[d].arg \in Names /\ ~Listed(u, k)
            BY <3>2, <3>10, <5>1, <5>2, <6>1 DEF RequestOK, KeyWork, ListOK
          <6>3. Copied(call[d], k)
            BY <5>2, <6>2 DEF Copied
          <6> HIDE DEF k
          <6>4. f # k
            BY <3>6, <6>1, <6>2, <6>3
          <6>5. ~\E n \in Names : acc'[u].keys[n] = k
            BY <3>5, <6>2, <6>4 DEF Listed
          <6> QED BY <6>5 DEF k
        <5> QED BY <5>1, <5>2
      <4>2. CASE d = c
        <5>1. ASSUME call[c].op = "delete" PROVE ~\E n \in Names : acc'[u].keys[n] = call[c].snap.keys[a]
          <6>1. f = Nil /\ call[c].snap.keys[a] # Nil
            BY <1>1, <5>1 DEF RequestOK, KeyWork, f, a
          <6> QED BY <1>2, <3>2, <3>3, <3>5, <6>1 DEF ListOK
        <5> QED BY <2>1, <4>2, <5>1 DEF GoesOn, a
      <4> QED BY <4>1, <4>2
    <3> QED BY <3>7, <3>8, <3>9, <3>10 DEF ListOK, Listed
  <2> QED BY <2>5, <2>7, <2>8 DEF KeysInv
<1> QED BY <1>0, <1>4, <1>5 DEF WriteKeys

LEMMA AnswerKeyKeys ==
  ASSUME AccountsAssumption, TypeInv, TypeInv', KeysInv, NEW c \in Calls, AnswerKey(c)
  PROVE  KeysInv'
<1> DEFINE u == call[c].user a == call[c].arg k == call[c].snap.keys[a]
<1>1. call[c] \in Requests /\ RequestOK(call[c]) /\ call[c].pc = "answer" /\ call[c] # Nil
  BY DEF AnswerKey, At, TypeInv, AccountsTyped
<1>2. u \in Users /\ a \in Names /\ call[c].op \in KeyOps /\ call[c].op # "save" /\ call[c].snap \in Records
  BY <1>1, RequestFields DEF RequestOK, KeyWork, KeyOps
<1>3. \A d \in Calls : Carried(d) /\ Known(d)
  BY Leaves, CarriedBy, KnownBy DEF AnswerKey
<1>4. UNCHANGED <<acc, tok>>
  BY DEF AnswerKey
<1>5. \A w \in Users, t \in Tokens : Listed(w, t)' => Given(w, t)
  BY <1>4 DEF Listed, Given
<1> HIDE DEF u, a, k
<1>6. CASE call[c].op = "delete"
  <2>1. dropped' = dropped \cup {k} /\ UNCHANGED <<kept, clash>>
    BY <1>1, <1>6 DEF AnswerKey, Does, u, a, k
  <2>2. k \in Tokens /\ Copied(call[c], k)
    BY <1>1, <1>2, <1>6, RecordFields DEF RequestOK, KeyWork, Copied, a, k
  <2>3. Holds(u, k)
    BY <1>1, <2>2 DEF Holds, Carries, u
  <2>4. \A d \in Calls : call[d] # Nil /\ call[d].pc \in {"read", "write"} => call[d].fresh # k
    BY <1>1, <2>2 DEF KeysInv, FreshOK, AccountsAssumption
  <2>5. KeysApart' /\ FreshOK'
    BY <1>2, <1>3, <1>4, <1>5, <2>1, <2>3, <2>4, ApartStep DEF KeysInv
  <2>6. ASSUME NEW w \in Users \ clash' PROVE ListOK(w)'
    <3>1. ListOK(w) /\ acc'[w].keys = acc[w].keys /\ kept'[w] = kept[w]
      BY <1>4, <2>1, <2>6 DEF KeysInv
    <3>2. ~Listed(w, k)
      <4>1. CASE w = u
        BY <1>1, <1>6, <3>1, <4>1 DEF ListOK, u, a, k
      <4>2. CASE w # u
        BY <1>2, <2>2, <2>3, <4>2 DEF KeysInv, KeysApart, Holds
      <4> QED BY <4>1, <4>2
    <3> QED BY <1>3, <2>1, <3>1, <3>2, ListStep
  <2> QED BY <2>5, <2>6 DEF KeysInv
<1>7. CASE call[c].op # "delete"
  <2>1. /\ kept' = [kept EXCEPT ![u][a] = call[c].fresh] /\ dropped' = dropped
        /\ clash' = IF acc[u].keys[a] # call[c].fresh THEN clash \cup {u} ELSE clash
    BY <1>1, <1>7 DEF AnswerKey, Does, u, a
  <2>2. KeysApart' /\ FreshOK'
    BY <1>3, <1>4, <1>5, <2>1, ApartStep DEF KeysInv
  <2>3. ASSUME NEW w \in Users \ clash' PROVE ListOK(w)'
    <3>1. ListOK(w) /\ acc'[w].keys = acc[w].keys
      BY <1>4, <2>1, <2>3 DEF KeysInv
    <3>2. \A n \in Names : kept'[w][n] # Nil => acc[w].keys[n] = kept'[w][n]
      <4>1. CASE w = u
        <5>1. acc[u].keys[a] = call[c].fresh
          BY <2>1, <2>3, <4>1
        <5>2. \A n \in Names : kept'[u][n] = IF n = a THEN call[c].fresh ELSE kept[u][n]
          BY <1>2, <2>1 DEF TypeInv
        <5> QED BY <3>1, <4>1, <5>1, <5>2 DEF ListOK
      <4>2. CASE w # u
        <5>1. kept'[w] = kept[w]
          BY <2>1, <4>2 DEF TypeInv
        <5> QED BY <3>1, <5>1 DEF ListOK
      <4> QED BY <4>1, <4>2
    <3> QED BY <1>3, <2>1, <3>1, <3>2, ListStep
  <2> QED BY <2>2, <2>3 DEF KeysInv
<1> QED BY <1>6, <1>7

LEMMA NextKeys ==
  ASSUME AccountsAssumption, ~SameSecond, TypeInv, TypeInv', KeysInv, [Next]_avars
  PROVE  KeysInv'
<1>1. ASSUME NEW c \in Calls, Step(c) PROVE KeysInv'
  <2>1. ASSUME acc' = acc, tok' = tok, kept' = kept, dropped' = dropped, clash' = clash,
               \/ Gone(c) \/ Arrives(c) \/ Sends(c)
               \/ Onward(c) /\ call'[c].pc # "answer"
        PROVE  KeysInv'
    <3>1. \A d \in Calls : Carried(d) /\ Known(d)
      BY <2>1, CarriedBy, KnownBy
    <3> QED BY <2>1, <3>1, KeysStep
  <2>2. ASSUME NEW op, NEW t, NEW u, NEW arg, Enter(c, op, t, u, arg) PROVE KeysInv'
    BY <2>1, <2>2, Arrivals DEF Enter, history
  <2>3. ASSUME NEW u, NEW code, EnterByPassword(c, "generate", u, Nil) \/ EnterByPassword(c, "verify", u, code)
        PROVE KeysInv'
    BY <2>1, <2>3, Arrivals DEF EnterByPassword, memory, history
  <2>4. ASSUME NEW u, NEW code, Login(c, u, code) PROVE KeysInv'
    BY <2>1, <2>4, Arrivals DEF Login, memory, history
  <2>5. CASE Finish(c) \/ Logout(c) \/ RefuseKey(c) \/ Refuse(c) \/ \E s \in Secrets : Generate(c, s)
    <3>1. Gone(c)
      BY <2>5, Leaves DEF Finish, Logout, RefuseKey, Refuse, Generate
    <3>2. UNCHANGED <<acc, tok, kept, dropped, clash>>
      BY <2>5 DEF Finish, Logout, RefuseKey, Refuse, Generate, memory, history
    <3> QED BY <2>1, <3>1, <3>2
  <2>6. ASSUME NEW t \in Tokens, PrintToken(c, t) PROVE KeysInv'
    <3>1. call[c].user \in Users
      BY <2>6, RequestFields DEF PrintToken, At, TypeInv, AccountsTyped
    <3>2. \A s \in Tokens : tok[s] # Nil => tok'[s] # Nil
      BY <2>6, <3>1, MadeStep DEF PrintToken
    <3>3. Gone(c) /\ UNCHANGED <<acc, kept, dropped, clash>>
      BY <2>6, Leaves DEF PrintToken, history
    <3>4. \A d \in Calls : Carried(d) /\ Known(d)
      BY <3>3, CarriedBy, KnownBy
    <3> QED BY <3>2, <3>3, <3>4, KeysStep
  <2>7. ASSUME NEW t \in Tokens, MakeKey(c, t) PROVE KeysInv'
    BY <2>7, MakeKeyKeys
  <2>8. CASE DropKey(c) \/ ReadKeys(c) \/ CodeRight(c)
    <3>1. Onward(c) /\ call'[c].pc # "answer"
      BY <2>8, Goings DEF Onward
    <3>2. UNCHANGED <<acc, tok, kept, dropped, clash>>
      BY <2>8 DEF DropKey, ReadKeys, CodeRight, memory, history
    <3> QED BY <2>1, <3>1, <3>2
  <2>9. CASE ReadOld(c)
    <3>1. Gone(c) \/ (Onward(c) /\ call'[c].pc # "answer")
      BY <2>9, Goings DEF Onward
    <3> QED BY <2>1, <2>9, <3>1 DEF ReadOld, memory, history
  <2>10. CASE WriteKeys(c) \/ AnswerKey(c)
    BY <2>10, WriteKeysKeys, AnswerKeyKeys
  <2>11. CASE LoginPlain(c)
    <3>1. Onward(c) /\ call'[c].pc # "answer"
      BY <2>11, Moved DEF LoginPlain, At, Onward
    <3> QED BY <2>1, <2>11, <3>1 DEF LoginPlain, memory, history
  <2>12. ASSUME NEW u, NEW otp, NEW api, NEW fields, Save(c, u, otp, api, fields) PROVE KeysInv'
    BY <2>1, <2>12, SaveSends DEF Save, memory, history
  <2>13. CASE WriteField(c)
    <3>1. Onward(c) /\ call'[c].pc # "answer"
      BY <2>13, Goings DEF Onward
    <3>2. \A d \in Calls : Carried(d) /\ Known(d)
      BY <3>1, CarriedBy, KnownBy
    <3>3. \A u \in Users : acc'[u].keys = acc[u].keys
      BY <2>13, FieldWritten
    <3>4. UNCHANGED <<tok, kept, dropped>> /\ clash \subseteq clash'
      BY <2>13 DEF WriteField, memory
    <3> QED BY <3>2, <3>3, <3>4, KeysStep
  <2>14. CASE Updated(c)
    <3>1. Gone(c) \/ (Onward(c) /\ call'[c].pc # "answer")
      BY <2>14, Leaves, Moved DEF Updated, At, Onward
    <3>2. \A d \in Calls : Carried(d) /\ Known(d)
      BY <3>1, CarriedBy, KnownBy
    <3>3. UNCHANGED <<acc, tok, kept, dropped>> /\ clash \subseteq clash'
      BY <2>14 DEF Updated
    <3> QED BY <3>2, <3>3, KeysStep
  <2> QED BY <1>1, <2>2, <2>3, <2>4, <2>5, <2>6, <2>7, <2>8, <2>9, <2>10, <2>11, <2>12, <2>13, <2>14 DEF Step
<1>2. ASSUME call' = call, acc' = acc, kept' = kept, dropped' = dropped, clash' = clash,
             \A t \in Tokens : tok[t] # Nil => tok'[t] # Nil
      PROVE  KeysInv'
  <2>1. \A d \in Calls : Carried(d) /\ Known(d)
    BY <1>2 DEF Carried, Known
  <2> QED BY <1>2, <2>1, KeysStep
<1>3. ASSUME NEW t \in Tokens, Expire(t) PROVE KeysInv'
  BY <1>2, <1>3, ExpireType DEF Expire, history
<1>4. CASE Forget
  BY <1>2, <1>4 DEF Forget, history
<1>5. CASE Restart
  <2>1. \A d \in Calls : Carried(d) /\ Known(d)
    BY <1>5 DEF Restart, Carried, Known
  <2>2. UNCHANGED <<acc, tok, kept, dropped>> /\ clash \subseteq clash'
    BY <1>5 DEF Restart
  <2> QED BY <2>1, <2>2, KeysStep
<1>6. CASE UNCHANGED avars
  BY <1>2, <1>6 DEF avars
<1> QED BY <1>1, <1>3, <1>4, <1>5, <1>6 DEF Next

LEMMA InitKeys == ASSUME AccountsAssumption, Init PROVE KeysInv
<1>1. /\ \A u \in Users, n \in Names : acc[u].keys[n] = Nil /\ kept[u][n] = Nil
      /\ \A c \in Calls : call[c] = Nil
      /\ dropped = {}
  BY DEF Init, Blank
<1>2. Nil \notin Tokens
  BY DEF AccountsAssumption
<1>3. \A u \in Users, t \in Tokens : ~Holds(u, t)
  BY <1>1, <1>2 DEF Holds, Listed
<1> QED BY <1>1, <1>3 DEF KeysInv, KeysApart, FreshOK, ListOK

-------------------------------------------------------------------------------
(* The permission to have keys.                                               *)

\* Steps that neither write the permission nor answer a save.
ApiKept(c) ==
  /\ Others(c)
  /\ call[c] # Nil => ~WroteApi(call[c]) \/ (GoesOn(c) /\ call'[c] # Nil /\ WroteApi(call'[c]) /\ call'[c].new = call[c].new)
  /\ call'[c] # Nil /\ WroteApi(call'[c]) => call[c] # Nil /\ WroteApi(call[c])

LEMMA BarredUser ==
  ASSUME NEW c \in Calls, ApiKept(c), NEW w \in Users, BarredOK(w),
         acc'[w].api = acc[w].api, w \in barred' => w \in barred,
         \/ acc'[w].keys = acc[w].keys /\ revoked \subseteq revoked'
         \/ acc[w].api
  PROVE  BarredOK(w)'
<1>1. ASSUME NEW d \in Calls, call'[d] # Nil, call'[d].user = w, WroteApi(call'[d])
      PROVE  acc'[w].api = call'[d].new.api
  <2>1. call[d] # Nil /\ call[d].user = w /\ WroteApi(call[d]) /\ call'[d].new = call[d].new
    BY <1>1 DEF ApiKept, Others, GoesOn
  <2> QED BY <2>1 DEF BarredOK
<1>2. ASSUME NEW d \in Calls, call[d] # Nil, call[d].user = w, WroteApi(call[d])
      PROVE  call'[d] # Nil /\ call'[d].user = w /\ WroteApi(call'[d]) /\ call'[d].new = call[d].new
  <2>1. CASE d # c
    BY <1>2, <2>1 DEF ApiKept, Others
  <2>2. CASE d = c
    BY <1>2, <2>2 DEF ApiKept, GoesOn
  <2> QED BY <2>1, <2>2
<1>3. ASSUME w \in barred'
      PROVE  \/ \E d \in Calls : call'[d] # Nil /\ call'[d].user = w /\ WroteApi(call'[d]) /\ call'[d].new.api
             \/ ~acc'[w].api /\ \A n \in Names : acc'[w].keys[n] # Nil => acc'[w].keys[n] \in revoked'
  <2>1. CASE \E d \in Calls : call[d] # Nil /\ call[d].user = w /\ WroteApi(call[d]) /\ call[d].new.api
    BY <1>2, <2>1
  <2>2. CASE ~acc[w].api /\ \A n \in Names : acc[w].keys[n] # Nil => acc[w].keys[n] \in revoked
    BY <2>2
  <2> QED BY <1>3, <2>1, <2>2 DEF BarredOK
<1> QED BY <1>1, <1>3 DEF BarredOK, WroteApi

LEMMA ApiSteps ==
  ASSUME NEW c \in Calls,
         \/ call[c] # Nil /\ call[c].pc # "update" /\ Gone(c)
         \/ Arrives(c) \/ Sends(c)
         \/ GoesOn(c) /\ ~WroteApi(call[c]) /\ ~WroteApi(call'[c])
  PROVE  ApiKept(c)
BY DEF Gone, Arrives, Sends, GoesOn, ApiKept, WroteApi

\* Steps that change nothing of the permission.
LEMMA BarredStep ==
  ASSUME BarredInv, NEW c \in Calls, ApiKept(c), acc' = acc, revoked \subseteq revoked', UNCHANGED barred,
         clash \subseteq clash'
  PROVE  BarredInv'
<1> SUFFICES ASSUME NEW w \in Users \ clash' PROVE BarredOK(w)'
  BY DEF BarredInv
<1>1. BarredOK(w)
  BY DEF BarredInv
<1> QED BY <1>1, BarredUser

LEMMA WriteKeysBarred ==
  ASSUME AccountsAssumption, TypeInv, BarredInv, NEW c \in Calls, WriteKeys(c)
  PROVE  BarredInv'
<1>0. PICK u : u = call[c].user
  OBVIOUS
<1>1. call[c] # Nil /\ call[c].pc = "write" /\ u \in Users
  BY <1>0, RequestFields DEF WriteKeys, At, TypeInv, AccountsTyped
<1>2. UNCHANGED <<revoked, barred>>
  BY DEF WriteKeys, memory
<1>3. CASE Leave(c) /\ UNCHANGED <<acc, kept, clash>>
  <2>1. ApiKept(c)
    BY <1>1, <1>3, Leaves, ApiSteps
  <2> QED BY <1>2, <1>3, <2>1, BarredStep
<1>4. CASE /\ Go(c, "answer")
           /\ acc' = [acc EXCEPT ![u].keys = [call[c].mine.keys EXCEPT ![call[c].arg] = call[c].fresh]]
           /\ clash' = IF Overtaken(c) THEN clash \cup {u} ELSE clash
  <2>1. ApiKept(c)
    BY <1>1, <1>4, Moved, ApiSteps DEF WroteApi
  <2>2. /\ acc'[u].api = acc[u].api
        /\ \A w \in Users \ {u} : acc'[w] = acc[w]
    <3>1. acc \in [Users -> Records] /\ acc[u] \in Records
      BY <1>1 DEF TypeInv, AccountsTyped
    <3> QED BY <1>1, <1>4, <3>1 DEF Records
  <2> SUFFICES ASSUME NEW w \in Users \ clash' PROVE BarredOK(w)'
    BY DEF BarredInv
  <2>3. BarredOK(w) /\ acc'[w].api = acc[w].api
    BY <1>4, <2>2 DEF BarredInv
  <2>4. acc'[w].keys = acc[w].keys \/ acc[w].api
    <3>1. CASE w # u
      BY <2>2, <3>1
    <3>2. CASE w = u
      BY <1>0, <1>4, <3>2 DEF Overtaken
    <3> QED BY <3>1, <3>2
  <2> QED BY <1>2, <2>1, <2>3, <2>4, BarredUser
<1> QED BY <1>0, <1>3, <1>4 DEF WriteKeys

LEMMA WriteFieldBarred ==
  ASSUME AccountsAssumption, TypeInv, BarredInv, NEW c \in Calls, WriteField(c)
  PROVE  BarredInv'
<1>0. PICK u : u = call[c].user
  OBVIOUS
<1>1. call[c] \in Requests /\ RequestOK(call[c]) /\ call[c].pc = "update" /\ call[c] # Nil /\ call[c].todo # <<>>
  BY DEF WriteField, At, TypeInv, AccountsTyped
<1>2. /\ u \in Users
      /\ \A w \in Users \ {u} : acc'[w] = acc[w]
      /\ acc'[u].keys = acc[u].keys
      /\ acc'[u].api = IF call[c].todo = <<"api", "otp">> THEN call[c].new.api ELSE acc[u].api
  BY <1>0, FieldWritten
<1>3. /\ GoesOn(c) /\ call'[c].pc = "update" /\ call'[c].todo = Tail(call[c].todo) /\ call'[c].new = call[c].new
      /\ UNCHANGED <<revoked, barred>> /\ clash \subseteq clash'
  BY Goings DEF WriteField, memory
<1>4. call'[c].todo # <<"api", "otp">>
  <2>1. call[c].todo \in {SavedFields, <<"api", "otp">>, <<"otp">>}
    BY <1>1, RequestFields
  <2> QED BY <1>3, <2>1, Tails
<1>5. call[c].todo = <<"api", "otp">> => call[c].op = "save" /\ call[c].arg = "permissions"
  BY <1>1, Tails DEF RequestOK, SaveWork, CodeWork
<1>6. call'[c] # Nil
  <2>1. [call[c] EXCEPT !.todo = Tail(call[c].todo)] \in Requests
    <3>1. Tail(call[c].todo) \in {SavedFields, <<"api", "otp">>, <<"otp">>, <<>>}
      <4>1. call[c].todo \in {SavedFields, <<"api", "otp">>, <<"otp">>}
        BY <1>1, RequestFields
      <4> QED BY <4>1, Tails
    <3> QED BY <1>1, <3>1, AlteredTyped
  <2>2. call'[c] = [call[c] EXCEPT !.todo = Tail(call[c].todo)]
    BY <1>1, Turns, TurnsTo
  <2> QED BY <2>1, <2>2 DEF AccountsAssumption
<1>7. CASE call[c].todo # <<"api", "otp">>
  <2>1. ApiKept(c)
    BY <1>3, <1>4, <1>6, <1>7, <1>1 DEF ApiKept, GoesOn, WroteApi
  <2> SUFFICES ASSUME NEW w \in Users \ clash' PROVE BarredOK(w)'
    BY DEF BarredInv
  <2>2. BarredOK(w) /\ acc'[w].api = acc[w].api /\ acc'[w].keys = acc[w].keys
    BY <1>2, <1>3, <1>7 DEF BarredInv
  <2> QED BY <1>3, <2>1, <2>2, BarredUser
<1>8. CASE call[c].todo = <<"api", "otp">>
  <2> SUFFICES ASSUME NEW w \in Users \ clash' PROVE BarredOK(w)'
    BY DEF BarredInv
  <2>1. BarredOK(w)
    BY <1>3 DEF BarredInv
  <2>2. CASE w # u
    <3>1. \A d \in Calls : /\ d # c => call'[d] = call[d]
                           /\ d = c => call[d].user # w /\ call'[d].user # w
      BY <1>0, <1>3, <2>2 DEF GoesOn, Others
    <3>2. acc'[w] = acc[w] /\ barred' = barred /\ revoked' = revoked
      BY <1>2, <1>3, <2>2
    <3>3. ASSUME NEW d \in Calls, call'[d] # Nil, call'[d].user = w, WroteApi(call'[d])
          PROVE  acc'[w].api = call'[d].new.api
      BY <2>1, <3>1, <3>2, <3>3 DEF BarredOK
    <3>4. ASSUME w \in barred'
          PROVE  \/ \E d \in Calls : call'[d] # Nil /\ call'[d].user = w /\ WroteApi(call'[d]) /\ call'[d].new.api
                 \/ ~acc'[w].api /\ \A n \in Names : acc'[w].keys[n] # Nil => acc'[w].keys[n] \in revoked'
      BY <2>1, <3>1, <3>2, <3>4 DEF BarredOK
    <3> QED BY <3>3, <3>4 DEF BarredOK, WroteApi
  <2>3. CASE w = u
    <3>1. \A d \in Calls \ {c} : call[d] # Nil /\ call[d].user = u => call[d].pc # "update"
      BY <1>0, <2>3 DEF WriteField, At
    <3>2. WroteApi(call'[c]) /\ call'[c].user = u /\ acc'[u].api = call'[c].new.api /\ ~WroteApi(call[c])
      BY <1>0, <1>2, <1>3, <1>4, <1>5, <1>8 DEF WroteApi, GoesOn
    <3>3. ASSUME NEW d \in Calls, call'[d] # Nil, call'[d].user = u, WroteApi(call'[d])
          PROVE  acc'[u].api = call'[d].new.api
      BY <1>3, <3>1, <3>2, <3>3 DEF GoesOn, Others, WroteApi
    <3>4. ASSUME u \in barred'
          PROVE  \/ \E d \in Calls : call'[d] # Nil /\ call'[d].user = u /\ WroteApi(call'[d]) /\ call'[d].new.api
                 \/ ~acc'[u].api /\ \A n \in Names : acc'[u].keys[n] # Nil => acc'[u].keys[n] \in revoked'
      <4>1. ~\E d \in Calls : call[d] # Nil /\ call[d].user = u /\ WroteApi(call[d])
        BY <3>1, <3>2 DEF WroteApi
      <4>2. \A n \in Names : acc[u].keys[n] # Nil => acc[u].keys[n] \in revoked
        BY <1>3, <2>1, <2>3, <3>4, <4>1 DEF BarredOK
      <4>3. call'[c].new.api \in BOOLEAN
        <5>1. call[c].new \in Records
          BY <1>1, <1>5, <1>8, RequestFields DEF RequestOK, SaveWork
        <5> QED BY <1>3, <5>1, RecordFields
      <4> QED BY <1>2, <1>3, <1>6, <3>2, <4>2, <4>3
    <3> QED BY <2>3, <3>3, <3>4 DEF BarredOK, WroteApi
  <2> QED BY <2>2, <2>3
<1> QED BY <1>7, <1>8

LEMMA UpdatedBarred ==
  ASSUME AccountsAssumption, TypeInv, BarredInv, NEW c \in Calls, Updated(c)
  PROVE  BarredInv'
<1>0. PICK u : u = call[c].user
  OBVIOUS
<1>1. call[c] \in Requests /\ RequestOK(call[c]) /\ call[c].pc = "update" /\ call[c] # Nil /\ call[c].todo = <<>>
  BY DEF Updated, At, TypeInv, AccountsTyped
<1>2. u \in Users
  BY <1>0, <1>1, RequestFields
<1>3. acc' = acc
  BY DEF Updated
<1>4. Others(c) /\ (call'[c] = Nil \/ ~WroteApi(call'[c]))
  BY <1>1, Leaves, Moved DEF Updated, Gone, GoesOn, WroteApi
<1>5. call[c].op = "save" /\ call[c].arg = "permissions" <=> WroteApi(call[c])
  BY <1>1, Tails DEF WroteApi
<1>6. clash \subseteq clash' /\ revoked \subseteq revoked' /\ \A w \in Users \ {u} : w \in barred' => w \in barred
  BY <1>0 DEF Updated
<1> SUFFICES ASSUME NEW w \in Users \ clash' PROVE BarredOK(w)'
  BY DEF BarredInv
<1>7. BarredOK(w)
  BY <1>6 DEF BarredInv
<1>8. ASSUME NEW d \in Calls, call'[d] # Nil, call'[d].user = w, WroteApi(call'[d])
      PROVE  acc'[w].api = call'[d].new.api
  BY <1>3, <1>4, <1>7, <1>8 DEF BarredOK, Others
<1>9. ASSUME w \in barred'
      PROVE  \/ \E d \in Calls : call'[d] # Nil /\ call'[d].user = w /\ WroteApi(call'[d]) /\ call'[d].new.api
             \/ ~acc'[w].api /\ \A n \in Names : acc'[w].keys[n] # Nil => acc'[w].keys[n] \in revoked'
  <2>1. \A d \in Calls : /\ d # c => call'[d] = call[d]
                         /\ d = c => call[d].user = u
    BY <1>0, <1>4 DEF Others
  <2>2. CASE w # u \/ ~WroteApi(call[c])
    <3>1. w \in barred
      <4>1. CASE w # u
        BY <1>6, <1>9, <4>1
      <4>2. CASE ~WroteApi(call[c])
        BY <1>1, <1>5, <1>9, <4>2 DEF Updated, Does
      <4> QED BY <2>2, <4>1, <4>2
    <3> QED BY <1>3, <1>6, <1>7, <2>1, <2>2, <3>1 DEF BarredOK
  <2>3. CASE w = u /\ WroteApi(call[c])
    <3>1. acc[u].api = call[c].new.api
      BY <1>0, <1>1, <1>2, <1>7, <2>3 DEF BarredOK
    <3>2. /\ revoked' = revoked \cup Lost(c)
          /\ barred' = IF Withdraws(c) THEN barred \cup {u} ELSE IF call[c].new.api THEN barred \ {u} ELSE barred
          /\ acc[u].keys = call[c].old.keys
      BY <1>0, <1>1, <1>5, <2>3 DEF Updated, Does
    <3>3. ~call[c].new.api
      BY <1>9, <2>3, <3>2 DEF Withdraws
    <3>4. CASE Withdraws(c)
      <4>1. call[c].old.keys \in [Names -> Tokens \cup {Nil}]
        <5>1. call[c].old \in Records
          BY <1>1, <1>5, <2>3, RequestFields DEF RequestOK, SaveWork
        <5> QED BY <5>1, RecordFields
      <4>2. \A n \in Names : acc[u].keys[n] # Nil => acc[u].keys[n] \in Lost(c)
        BY <3>2, <3>4, <4>1 DEF Lost, Range
      <4> QED BY <1>3, <2>3, <3>1, <3>2, <3>3, <4>2
    <3>5. CASE ~Withdraws(c)
      <4>1. w \in barred
        BY <1>9, <3>2, <3>3, <3>5
      <4> QED BY <1>3, <1>6, <1>7, <2>1, <3>3, <4>1 DEF BarredOK
    <3> QED BY <3>4, <3>5
  <2> QED BY <2>2, <2>3
<1> QED BY <1>8, <1>9 DEF BarredOK, WroteApi

LEMMA NextBarred ==
  ASSUME AccountsAssumption, TypeInv, BarredInv, [Next]_avars
  PROVE  BarredInv'
<1>1. ASSUME NEW c \in Calls, Step(c) PROVE BarredInv'
  <2>1. ASSUME acc' = acc, revoked \subseteq revoked', barred' = barred, clash \subseteq clash', ApiKept(c)
        PROVE  BarredInv'
    BY <2>1, BarredStep
  <2>2. ASSUME NEW op, NEW t, NEW u, NEW arg, Enter(c, op, t, u, arg) PROVE BarredInv'
    BY <2>1, <2>2, Arrivals, ApiSteps DEF Enter, history
  <2>3. ASSUME NEW u, NEW code, EnterByPassword(c, "generate", u, Nil) \/ EnterByPassword(c, "verify", u, code)
        PROVE BarredInv'
    BY <2>1, <2>3, Arrivals, ApiSteps DEF EnterByPassword, memory, history
  <2>4. ASSUME NEW u, NEW code, Login(c, u, code) PROVE BarredInv'
    BY <2>1, <2>4, Arrivals, ApiSteps DEF Login, memory, history
  <2>5. CASE Finish(c) \/ Logout(c) \/ RefuseKey(c) \/ AnswerKey(c) \/ Refuse(c) \/ \E s \in Secrets : Generate(c, s)
    <3>1. Gone(c) /\ call[c] # Nil /\ call[c].pc # "update"
      BY <2>5, Leaves DEF Finish, Logout, RefuseKey, AnswerKey, Refuse, Generate, At
    <3>2. UNCHANGED <<acc, barred>> /\ revoked \subseteq revoked' /\ clash \subseteq clash'
      BY <2>5 DEF Finish, Logout, RefuseKey, AnswerKey, Refuse, Generate, memory, history
    <3> QED BY <2>1, <3>1, <3>2, ApiSteps
  <2>6. ASSUME NEW t \in Tokens, PrintToken(c, t) PROVE BarredInv'
    <3>1. Gone(c) /\ call[c] # Nil /\ call[c].pc # "update"
      BY <2>6, Leaves DEF PrintToken, At
    <3>2. UNCHANGED <<acc, revoked, barred, clash>>
      BY <2>6 DEF PrintToken, history
    <3> QED BY <2>1, <3>1, <3>2, ApiSteps
  <2>7. ASSUME NEW t \in Tokens, MakeKey(c, t) PROVE BarredInv'
    <3>1. GoesOn(c) /\ call[c].pc = "in" /\ call'[c].pc = "read"
      BY <2>7, Goings
    <3>2. UNCHANGED <<acc, revoked, barred, clash>>
      BY <2>7 DEF MakeKey, history
    <3> QED BY <2>1, <3>1, <3>2, ApiSteps DEF WroteApi
  <2>8. CASE DropKey(c) \/ ReadKeys(c)
    <3>1. GoesOn(c) /\ ~WroteApi(call[c]) /\ ~WroteApi(call'[c])
      BY <2>8, Goings DEF WroteApi
    <3>2. UNCHANGED <<acc, revoked, barred, clash>>
      BY <2>8 DEF DropKey, ReadKeys, memory, history
    <3> QED BY <2>1, <3>1, <3>2, ApiSteps
  <2>9. CASE CodeRight(c)
    <3>1. GoesOn(c) /\ call[c].pc = "in" /\ call[c].op # "save"
      BY <2>9, Goings DEF CodeRight, Does
    <3> QED BY <2>1, <2>9, <3>1, ApiSteps DEF WroteApi, GoesOn, CodeRight, memory, history
  <2>10. CASE ReadOld(c)
    <3>1. call[c] # Nil /\ RequestOK(call[c]) /\ call[c].pc = "guard" /\ call[c].op = "save"
      BY <2>10 DEF ReadOld, At, TypeInv, RequestOK
    <3>2. call[c].arg = "permissions" => call[c].todo = <<"api", "otp">>
      BY <3>1 DEF RequestOK, SaveWork
    <3>3. Gone(c) \/ (GoesOn(c) /\ ~WroteApi(call[c]) /\ ~WroteApi(call'[c]))
      BY <2>10, <3>1, <3>2, Goings DEF WroteApi, GoesOn
    <3> QED BY <2>1, <2>10, <3>1, <3>3, ApiSteps DEF ReadOld, memory, history
  <2>11. CASE LoginPlain(c)
    <3>1. GoesOn(c) /\ call[c].pc = "in" /\ call'[c].pc = "session"
      BY <2>11, Moved DEF LoginPlain, At
    <3> QED BY <2>1, <2>11, <3>1, ApiSteps DEF WroteApi, LoginPlain, memory, history
  <2>12. ASSUME NEW u, NEW otp, NEW api, NEW fields, Save(c, u, otp, api, fields) PROVE BarredInv'
    BY <2>1, <2>12, SaveSends, ApiSteps DEF Save, memory, history
  <2>13. CASE WriteKeys(c) \/ WriteField(c) \/ Updated(c)
    BY <2>13, WriteKeysBarred, WriteFieldBarred, UpdatedBarred
  <2> QED BY <1>1, <2>2, <2>3, <2>4, <2>5, <2>6, <2>7, <2>8, <2>9, <2>10, <2>11, <2>12, <2>13 DEF Step
<1>2. ASSUME UNCHANGED <<call, acc, revoked, barred, clash>> PROVE BarredInv'
  BY <1>2 DEF BarredInv, BarredOK
<1>3. ASSUME NEW t \in Tokens, Expire(t) PROVE BarredInv'
  BY <1>2, <1>3 DEF Expire, history
<1>4. CASE Forget
  BY <1>2, <1>4 DEF Forget, history
<1>5. CASE Restart
  BY <1>5 DEF Restart, BarredInv, BarredOK
<1>6. CASE UNCHANGED avars
  BY <1>2, <1>6 DEF avars
<1> QED BY <1>1, <1>3, <1>4, <1>5, <1>6 DEF Next

LEMMA InitBarred == ASSUME Init PROVE BarredInv
BY DEF Init, BarredInv, BarredOK

-------------------------------------------------------------------------------
(* One-time passwords.                                                        *)

\* Steps that neither write a secret nor confirm it.
CodeKept(c) ==
  /\ Others(c)
  /\ call[c] # Nil => \/ ~WroteCode(call[c])
                      \/ GoesOn(c) /\ call'[c] # Nil /\ WroteCode(call'[c]) /\ call'[c].new = call[c].new
  /\ call'[c] # Nil /\ WroteCode(call'[c]) => call[c] # Nil /\ WroteCode(call[c])

\* A save that got past Update's check has the flag, if it must.
Forced(r) == r.pc = "update" /\ r.op = "save" => r.new.otp

LEMMA CodesUser ==
  ASSUME NEW c \in Calls, CodeKept(c), NEW w \in Users, CodesOK(w),
         acc'[w].secret = acc[w].secret, device'[w] = device[w], UNCHANGED enforced
  PROVE  CodesOK(w)'
<1>1. ASSUME NEW d \in Calls, call'[d] # Nil, call'[d].user = w, WroteCode(call'[d])
      PROVE  acc'[w].secret = call'[d].new.secret
  <2>1. call[d] # Nil /\ call[d].user = w /\ WroteCode(call[d]) /\ call'[d].new = call[d].new
    BY <1>1 DEF CodeKept, Others, GoesOn
  <2> QED BY <2>1 DEF CodesOK
<1>2. Agreed(w) => Agreed(w)'
  BY DEF Agreed
<1>3. ASSUME NEW d \in Calls, call[d] # Nil, call[d].user = w, WroteCode(call[d])
      PROVE  call'[d] # Nil /\ call'[d].user = w /\ WroteCode(call'[d])
  <2>1. CASE d # c
    BY <1>3, <2>1 DEF CodeKept, Others
  <2>2. CASE d = c
    BY <1>3, <2>2 DEF CodeKept, GoesOn
  <2> QED BY <2>1, <2>2
<1>4. Agreed(w)' \/ \E d \in Calls : call'[d] # Nil /\ call'[d].user = w /\ WroteCode(call'[d])
  BY <1>2, <1>3 DEF CodesOK
<1> QED BY <1>1, <1>4 DEF CodesOK, WroteCode

LEMMA CodeSteps ==
  ASSUME NEW c \in Calls,
         \/ call[c] # Nil /\ ~WroteCode(call[c]) /\ Gone(c)
         \/ Arrives(c) \/ Sends(c)
         \/ GoesOn(c) /\ ~WroteCode(call[c]) /\ ~WroteCode(call'[c])
  PROVE  CodeKept(c)
BY DEF Gone, Arrives, Sends, GoesOn, CodeKept, WroteCode

LEMMA ForcedStep ==
  ASSUME CodesInv, NEW c \in Calls, Others(c), UNCHANGED enforced,
         enforced /\ call'[c] # Nil => Forced(call'[c])
  PROVE  enforced' => \A d \in Calls : At(d, "update")' /\ Does(d, "save")' => call'[d].new.otp
BY DEF CodesInv, Others, Forced, At, Does

\* Steps that change nothing of the secret.
LEMMA CodesStep ==
  ASSUME CodesInv, NEW c \in Calls, CodeKept(c), \A u \in Users : acc'[u].secret = acc[u].secret,
         UNCHANGED <<device, enforced>>, clash \subseteq clash', enforced /\ call'[c] # Nil => Forced(call'[c])
  PROVE  CodesInv'
<1>1. \A u \in Users \ clash' : CodesOK(u)'
  BY CodesUser DEF CodesInv
<1>2. enforced' => \A d \in Calls : At(d, "update")' /\ Does(d, "save")' => call'[d].new.otp
  BY ForcedStep DEF CodeKept
<1> QED BY <1>1, <1>2 DEF CodesInv, At, Does

LEMMA WriteFieldCodes ==
  ASSUME AccountsAssumption, TypeInv, CodesInv, NEW c \in Calls, WriteField(c)
  PROVE  CodesInv'
<1>0. PICK u : u = call[c].user
  OBVIOUS
<1>1. call[c] \in Requests /\ RequestOK(call[c]) /\ call[c].pc = "update" /\ call[c] # Nil /\ call[c].todo # <<>>
  BY DEF WriteField, At, TypeInv, AccountsTyped
<1>2. /\ u \in Users /\ call[c].new \in Records
      /\ \A w \in Users \ {u} : acc'[w] = acc[w]
      /\ acc'[u].secret = IF call[c].todo = SavedFields THEN call[c].new.secret
                          ELSE IF Head(call[c].todo) = "otp" /\ ~call[c].new.otp THEN Nil ELSE acc[u].secret
  BY <1>0, FieldWritten
<1>3. /\ GoesOn(c) /\ call'[c].pc = "update" /\ call'[c].todo = Tail(call[c].todo) /\ call'[c].new = call[c].new
      /\ UNCHANGED <<device, enforced>> /\ clash \subseteq clash'
  BY Goings DEF WriteField, memory, deployment
<1>4. call'[c].todo # SavedFields
  <2>1. call[c].todo \in {SavedFields, <<"api", "otp">>, <<"otp">>}
    BY <1>1, RequestFields
  <2> QED BY <1>3, <2>1, Tails
<1>5. call'[c] # Nil
  <2>1. [call[c] EXCEPT !.todo = Tail(call[c].todo)] \in Requests
    <3>1. Tail(call[c].todo) \in {SavedFields, <<"api", "otp">>, <<"otp">>, <<>>}
      <4>1. call[c].todo \in {SavedFields, <<"api", "otp">>, <<"otp">>}
        BY <1>1, RequestFields
      <4> QED BY <4>1, Tails
    <3> QED BY <1>1, <3>1, AlteredTyped
  <2>2. call'[c] = [call[c] EXCEPT !.todo = Tail(call[c].todo)]
    BY <1>1, Turns, TurnsTo
  <2> QED BY <2>1, <2>2 DEF AccountsAssumption
<1>6. enforced /\ call[c].op = "save" => call[c].new.otp
  BY <1>1 DEF CodesInv, At, Does
<1>7. enforced' => \A d \in Calls : At(d, "update")' /\ Does(d, "save")' => call'[d].new.otp
  BY <1>3, <1>6, ForcedStep DEF Forced, GoesOn
<1>8. ASSUME NEW w \in Users \ clash', w # u PROVE CodesOK(w)'
  <2>1. CodesOK(w) /\ acc'[w] = acc[w] /\ device' = device /\ enforced' = enforced
    BY <1>2, <1>3, <1>8 DEF CodesInv
  <2>2. \A d \in Calls : /\ d # c => call'[d] = call[d]
                         /\ d = c => call[d].user # w /\ call'[d].user # w
    BY <1>0, <1>3, <1>8 DEF GoesOn, Others
  <2>3. ASSUME NEW d \in Calls, call'[d] # Nil, call'[d].user = w, WroteCode(call'[d])
        PROVE  acc'[w].secret = call'[d].new.secret
    BY <2>1, <2>2, <2>3 DEF CodesOK
  <2>4. Agreed(w)' \/ \E d \in Calls : call'[d] # Nil /\ call'[d].user = w /\ WroteCode(call'[d])
    BY <2>1, <2>2 DEF CodesOK, Agreed
  <2> QED BY <2>3, <2>4 DEF CodesOK, WroteCode
<1>9. ASSUME u \notin clash' PROVE CodesOK(u)'
  <2>1. CodesOK(u)
    BY <1>2, <1>3, <1>9 DEF CodesInv
  <2>2. \A d \in Calls \ {c} : call[d] # Nil /\ call[d].user = u => call[d].pc # "update"
    BY <1>0, <1>9 DEF WriteField, At
  <2>3. \A d \in Calls \ {c} : call'[d] # Nil /\ call'[d].user = u => ~WroteCode(call'[d])
    BY <1>3, <2>2 DEF GoesOn, Others, WroteCode
  <2>4. CASE call[c].op = "save"
    <3>1. ~WroteCode(call'[c]) /\ ~WroteCode(call[c]) /\ call[c].todo # SavedFields
      BY <1>1, <1>3, <2>4, Tails DEF WroteCode, GoesOn, RequestOK, SaveWork
    <3>2. Agreed(u)
      BY <2>1, <2>2, <3>1 DEF CodesOK, WroteCode
    <3>3. Agreed(u)'
      <4>1. CASE acc'[u].secret = acc[u].secret
        BY <1>3, <3>2, <4>1 DEF Agreed
      <4>2. CASE acc'[u].secret = Nil /\ ~call[c].new.otp
        BY <1>3, <1>6, <2>4, <4>2 DEF Agreed
      <4> QED BY <1>2, <3>1, <4>1, <4>2
    <3> QED BY <2>3, <3>1, <3>3 DEF CodesOK, WroteCode
  <2>5. CASE call[c].op # "save"
    <3>1. WroteCode(call'[c]) /\ call'[c].user = u
      BY <1>0, <1>3, <1>4, <2>5 DEF WroteCode, GoesOn
    <3>2. acc'[u].secret = call'[c].new.secret
      <4>1. CASE call[c].todo = SavedFields
        BY <1>2, <1>3, <4>1
      <4>2. CASE call[c].todo # SavedFields
        <5>1. call[c].new.otp
          BY <1>1, <2>5 DEF RequestOK, CodeWork
        <5>2. WroteCode(call[c])
          BY <1>1, <2>5, <4>2 DEF WroteCode
        <5> QED BY <1>0, <1>1, <1>2, <1>3, <2>1, <4>2, <5>1, <5>2 DEF CodesOK
      <4> QED BY <4>1, <4>2
    <3>3. ASSUME NEW d \in Calls, call'[d] # Nil, call'[d].user = u, WroteCode(call'[d])
          PROVE  acc'[u].secret = call'[d].new.secret
      BY <2>3, <3>2, <3>3
    <3> QED BY <1>5, <3>1, <3>3 DEF CodesOK, WroteCode
  <2> QED BY <2>4, <2>5
<1> QED BY <1>7, <1>8, <1>9 DEF CodesInv, At, Does

LEMMA UpdatedCodes ==
  ASSUME AccountsAssumption, TypeInv, CodesInv, NEW c \in Calls, Updated(c)
  PROVE  CodesInv'
<1>0. PICK u : u = call[c].user
  OBVIOUS
<1>1. call[c] \in Requests /\ RequestOK(call[c]) /\ call[c].pc = "update" /\ call[c] # Nil /\ call[c].todo = <<>>
  BY DEF Updated, At, TypeInv, AccountsTyped
<1>2. u \in Users
  BY <1>0, <1>1, RequestFields
<1>3. UNCHANGED <<acc, enforced>> /\ clash \subseteq clash'
  BY DEF Updated, deployment
<1>4. Others(c) /\ (call'[c] = Nil \/ call'[c].pc = "session")
  BY <1>1, Leaves, Moved DEF Updated, Gone, GoesOn
<1>5. enforced' => \A d \in Calls : At(d, "update")' /\ Does(d, "save")' => call'[d].new.otp
  BY <1>3, <1>4, ForcedStep DEF Forced
<1> SUFFICES ASSUME NEW w \in Users \ clash' PROVE CodesOK(w)'
  BY <1>5 DEF CodesInv, At, Does
<1>6. CodesOK(w)
  BY <1>3 DEF CodesInv
<1>7. ASSUME NEW d \in Calls, call'[d] # Nil, call'[d].user = w, WroteCode(call'[d])
      PROVE  acc'[w].secret = call'[d].new.secret
  BY <1>3, <1>4, <1>6, <1>7 DEF CodesOK, Others, WroteCode
<1>8. Agreed(w)' \/ \E d \in Calls : call'[d] # Nil /\ call'[d].user = w /\ WroteCode(call'[d])
  <2>1. \A d \in Calls : /\ d # c => call'[d] = call[d]
                         /\ d = c => call[d].user = u
    BY <1>0, <1>4 DEF Others
  <2>2. CASE w = u /\ call[c].op # "save"
    <3>1. WroteCode(call[c])
      BY <1>1, <2>2, Tails DEF WroteCode
    <3>2. acc[u].secret = call[c].new.secret /\ call[c].new.secret = call[c].arg /\ call[c].arg # Nil
      BY <1>0, <1>1, <1>6, <2>2, <3>1 DEF CodesOK, RequestOK, CodeWork
    <3>3. device'[u] = call[c].arg
      BY <1>0, <1>1, <1>2, <2>2 DEF Updated, Does, TypeInv
    <3> QED BY <1>3, <2>2, <3>2, <3>3 DEF Agreed
  <2>3. CASE w # u \/ call[c].op = "save"
    <3>1. device'[w] = device[w]
      BY <1>0, <1>1, <1>2, <2>3 DEF Updated, Does, TypeInv
    <3>2. \A d \in Calls : call[d] # Nil /\ call[d].user = w /\ WroteCode(call[d]) => d # c
      BY <2>1, <2>3 DEF WroteCode
    <3> QED BY <1>3, <1>6, <2>1, <3>1, <3>2 DEF CodesOK, Agreed
  <2> QED BY <2>2, <2>3
<1> QED BY <1>7, <1>8 DEF CodesOK, WroteCode

LEMMA NextCodes ==
  ASSUME AccountsAssumption, TypeInv, CodesInv, [Next]_avars
  PROVE  CodesInv'
<1>1. ASSUME NEW c \in Calls, Step(c) PROVE CodesInv'
  <2>1. ASSUME acc' = acc, device' = device, enforced' = enforced, clash \subseteq clash',
               CodeKept(c), enforced /\ call'[c] # Nil => Forced(call'[c])
        PROVE  CodesInv'
    BY <2>1, CodesStep
  <2>2. ASSUME NEW op, NEW t, NEW u, NEW arg, Enter(c, op, t, u, arg) PROVE CodesInv'
    BY <2>1, <2>2, Arrivals, CodeSteps DEF Enter, history, deployment, Arrives, Forced
  <2>3. ASSUME NEW u, NEW code, EnterByPassword(c, "generate", u, Nil) \/ EnterByPassword(c, "verify", u, code)
        PROVE CodesInv'
    BY <2>1, <2>3, Arrivals, CodeSteps DEF EnterByPassword, history, deployment, Arrives, Forced
  <2>4. ASSUME NEW u, NEW code, Login(c, u, code) PROVE CodesInv'
    BY <2>1, <2>4, Arrivals, CodeSteps DEF Login, history, deployment, Arrives, Forced
  <2>5. CASE Finish(c) \/ Logout(c) \/ RefuseKey(c) \/ AnswerKey(c) \/ Refuse(c) \/ \E s \in Secrets : Generate(c, s)
    <3>1. Gone(c) /\ call[c] # Nil /\ call[c].pc # "update"
      BY <2>5, Leaves DEF Finish, Logout, RefuseKey, AnswerKey, Refuse, Generate, At
    <3>2. UNCHANGED <<acc, device, enforced>> /\ clash \subseteq clash'
      BY <2>5 DEF Finish, Logout, RefuseKey, AnswerKey, Refuse, Generate, history, deployment
    <3> QED BY <2>1, <3>1, <3>2, CodeSteps DEF WroteCode, Gone
  <2>6. ASSUME NEW t \in Tokens, PrintToken(c, t) PROVE CodesInv'
    <3>1. Gone(c) /\ call[c] # Nil /\ call[c].pc # "update"
      BY <2>6, Leaves DEF PrintToken, At
    <3>2. UNCHANGED <<acc, device, enforced, clash>>
      BY <2>6 DEF PrintToken, history, deployment
    <3> QED BY <2>1, <3>1, <3>2, CodeSteps DEF WroteCode, Gone
  <2>7. ASSUME NEW t \in Tokens, MakeKey(c, t) PROVE CodesInv'
    <3>1. GoesOn(c) /\ call[c].pc = "in" /\ call'[c].pc = "read"
      BY <2>7, Goings
    <3>2. UNCHANGED <<acc, device, enforced, clash>>
      BY <2>7 DEF MakeKey, history, deployment
    <3> QED BY <2>1, <3>1, <3>2, CodeSteps DEF WroteCode, Forced
  <2>8. CASE DropKey(c) \/ ReadKeys(c)
    <3>1. GoesOn(c) /\ ~WroteCode(call[c]) /\ ~WroteCode(call'[c]) /\ call'[c].pc # "update"
      BY <2>8, Goings DEF WroteCode
    <3>2. UNCHANGED <<acc, device, enforced, clash>>
      BY <2>8 DEF DropKey, ReadKeys, history, deployment
    <3> QED BY <2>1, <3>1, <3>2, CodeSteps DEF Forced
  <2>9. CASE CodeRight(c)
    <3>1. GoesOn(c) /\ call[c].pc = "in" /\ call[c].op # "save" /\ call'[c].todo = SavedFields
      BY <2>9, Goings DEF CodeRight, Does
    <3>2. UNCHANGED <<acc, device, enforced, clash>>
      BY <2>9 DEF CodeRight, history, deployment
    <3> QED BY <2>1, <3>1, <3>2, CodeSteps DEF WroteCode, GoesOn, Forced
  <2>10. CASE ReadOld(c)
    <3>1. call[c] # Nil /\ call[c].pc = "guard" /\ call[c].op = "save"
      BY <2>10 DEF ReadOld, At, TypeInv, RequestOK
    <3>2. UNCHANGED <<acc, device, enforced, clash>>
      BY <2>10 DEF ReadOld, history, deployment
    <3>3. CASE Gone(c)
      BY <2>1, <3>1, <3>2, <3>3, CodeSteps DEF WroteCode, Gone
    <3>4. CASE GoesOn(c) /\ Allowed(c) /\ call'[c].new = call[c].new
      <4>1. enforced => Forced(call'[c])
        BY <3>4 DEF Allowed, Forced
      <4>2. CodeKept(c)
        BY <3>1, <3>4, CodeSteps DEF WroteCode, GoesOn
      <4> QED BY <2>1, <3>2, <4>1, <4>2
    <3> QED BY <2>10, <3>3, <3>4, Goings
  <2>11. CASE LoginPlain(c)
    <3>1. GoesOn(c) /\ call[c].pc = "in" /\ call'[c].pc = "session"
      BY <2>11, Moved DEF LoginPlain, At
    <3> QED BY <2>1, <2>11, <3>1, CodeSteps DEF WroteCode, LoginPlain, history, deployment, Forced
  <2>12. ASSUME NEW u, NEW otp, NEW api, NEW fields, Save(c, u, otp, api, fields) PROVE CodesInv'
    BY <2>1, <2>12, SaveSends, CodeSteps DEF Save, history, deployment, Sends, Forced
  <2>13. CASE WriteKeys(c)
    <3>1. call[c] # Nil /\ call[c].pc = "write" /\ call[c].user \in Users
      BY <2>13, RequestFields DEF WriteKeys, At, TypeInv, AccountsTyped
    <3>2. UNCHANGED <<device, enforced>> /\ clash \subseteq clash'
      BY <2>13 DEF WriteKeys, deployment
    <3>3. Gone(c) \/ (GoesOn(c) /\ call'[c].pc = "answer")
      BY <2>13, <3>1, Leaves, Moved DEF WriteKeys
    <3>4. CodeKept(c) /\ (call'[c] # Nil => Forced(call'[c]))
      BY <3>1, <3>3, CodeSteps DEF WroteCode, Forced, Gone
    <3>5. \A u \in Users : acc'[u].secret = acc[u].secret
      <4>1. acc \in [Users -> Records]
        BY DEF TypeInv, AccountsTyped
      <4> QED BY <2>13, <3>1, <4>1 DEF WriteKeys, Records
    <3> QED BY <3>2, <3>4, <3>5, CodesStep
  <2>14. CASE WriteField(c) \/ Updated(c)
    BY <2>14, WriteFieldCodes, UpdatedCodes
  <2> QED BY <1>1, <2>2, <2>3, <2>4, <2>5, <2>6, <2>7, <2>8, <2>9, <2>10, <2>11, <2>12, <2>13, <2>14 DEF Step
<1>2. ASSUME UNCHANGED <<call, acc, device, enforced, clash>> PROVE CodesInv'
  BY <1>2 DEF CodesInv, CodesOK, Agreed, At, Does
<1>3. ASSUME NEW t \in Tokens, Expire(t) PROVE CodesInv'
  BY <1>2, <1>3 DEF Expire, history, deployment
<1>4. CASE Forget
  BY <1>2, <1>4 DEF Forget, history, deployment
<1>5. CASE Restart
  <2>1. \A d \in Calls : call'[d] = Nil
    BY <1>5 DEF Restart
  <2>2. ASSUME NEW w \in Users \ clash' PROVE CodesOK(w)'
    <3>1. ~\E d \in Calls : call[d] # Nil /\ call[d].user = w /\ WroteCode(call[d])
      BY <1>5, <2>2 DEF Restart, At, WroteCode
    <3>2. CodesOK(w) /\ UNCHANGED <<acc, device, enforced>>
      BY <1>5, <2>2 DEF Restart, deployment, CodesInv
    <3> QED BY <2>1, <3>1, <3>2 DEF CodesOK, Agreed
  <2> QED BY <2>1, <2>2 DEF CodesInv, At, Does
<1>6. CASE UNCHANGED avars
  BY <1>2, <1>6 DEF avars
<1> QED BY <1>1, <1>3, <1>4, <1>5, <1>6 DEF Next

LEMMA InitCodes == ASSUME Init PROVE CodesInv
<1>1. /\ \A u \in Users : acc[u].secret = Nil /\ device[u] = Nil
      /\ \A c \in Calls : call[c] = Nil
  BY DEF Init, Blank
<1> QED BY <1>1 DEF CodesInv, CodesOK, Agreed, At, Does

-------------------------------------------------------------------------------
(* What users are told.                                                       *)

(* For any number of users, names and requests: when a user has lost the permission *)
(* to have keys, all that is listed is revoked, though userPutHandler revokes the     *)
(* keys it read before it wrote, unless two requests write one record at once.        *)
THEOREM KeysBarredAlways == Spec => []KeysBarred
<1> DEFINE Inv == TypeInv /\ BarredInv
<1>1. Init => Inv
  BY InitType, InitBarred, AccountsAssumption
<1>2. Inv /\ [Next]_avars => Inv'
  BY NextType, NextBarred, AccountsAssumption
<1>3. Inv => KeysBarred
  <2> SUFFICES ASSUME Inv, NEW u \in barred \ clash, Quiet(u), NEW k \in Range(acc[u].keys), k # Nil
               PROVE  k \in revoked
    BY DEF KeysBarred
  <2>1. u \in Users /\ BarredOK(u)
    BY DEF TypeInv, BarredInv
  <2>2. ~\E c \in Calls : call[c] # Nil /\ call[c].user = u /\ WroteApi(call[c])
    BY DEF Quiet, WroteApi
  <2>3. acc[u].keys \in [Names -> Tokens \cup {Nil}]
    BY <2>1, RecordFields DEF TypeInv, AccountsTyped
  <2>4. PICK n \in Names : k = acc[u].keys[n]
    BY <2>3 DEF Range
  <2> QED BY <2>1, <2>2, <2>4 DEF BarredOK
<1> HIDE DEF Inv
<1> QED BY <1>1, <1>2, <1>3, PTL DEF Spec

(* For any number of users, names and requests: a key a user was given is in the   *)
(* list, a deleted one is not and does not come back, and all that is listed is      *)
(* revoked once the permission is gone, unless two requests write one record at     *)
(* once (AddApiKey, DeleteApiKey and Update read and write in separate               *)
(* transactions) or two minimal keys are one token, being made in one second.        *)
THEOREM KeysCountAlways == ASSUME ~SameSecond PROVE Spec => []KeysCount
<1> DEFINE Inv == TypeInv /\ KeysInv
<1>1. Init => Inv
  BY InitType, InitKeys, AccountsAssumption
<1>2. Inv /\ [Next]_avars => Inv'
  <2> SUFFICES ASSUME Inv, [Next]_avars PROVE Inv'
    OBVIOUS
  <2>1. TypeInv'
    BY NextType, AccountsAssumption
  <2> QED BY <2>1, NextKeys, AccountsAssumption
<1>3. Inv => KeysAsTold
  BY DEF KeysInv, ListOK, Listed, KeysAsTold, Range, TypeInv, AccountsTyped, Records
<1>4. KeysAsTold /\ KeysBarred => KeysCount
  BY DEF KeysCount
<1> HIDE DEF Inv
<1> QED BY <1>1, <1>2, <1>3, <1>4, KeysBarredAlways, PTL DEF Spec

(* For any number of users, secrets and requests: the secret in the record is the    *)
(* one in the user's app, though VerifyTotpCode's changes are written field by       *)
(* field and other secrets may be pending, and where one-time passwords are        *)
(* enforced no save from an old page removes it, unless two requests write one       *)
(* record at once or a restart comes between two fields.                           *)
THEOREM CodesCountAlways == Spec => []CodesCount
<1> DEFINE Inv == TypeInv /\ CodesInv
<1>1. Init => Inv
  BY InitType, InitCodes, AccountsAssumption
<1>2. Inv /\ [Next]_avars => Inv'
  BY NextType, NextCodes, AccountsAssumption
<1>3. Inv => CodesCount
  BY DEF CodesInv, CodesOK, Agreed, WroteCode, CodesCount, CodesMatch, OtpKept, Quiet
<1> HIDE DEF Inv
<1> QED BY <1>1, <1>2, <1>3, PTL DEF Spec

-------------------------------------------------------------------------------
(* People and starts of the server (Startup), for any users, sources, directories and *)
(* configurations, whatever users and administrators do, and wherever a start ends.  *)

ScopeLists == [Sources -> B!ScopeRecs \cup {Nil}]

StartType ==
  /\ conf \in Configs /\ exists \in BOOLEAN /\ first \in BOOLEAN
  /\ run \in {"down", "setup", "start", "serve"}
  /\ users \in [People -> B!UserRecs \cup {Nil}]
  /\ given \in [People -> ScopeLists]
  /\ todo \subseteq People /\ homed \subseteq People

\* A new database is empty until it has its administrator.
NewOK ==
  /\ run # "down" => exists
  /\ ~exists => \A u \in People : users[u] = Nil
  /\ run = "setup" => \A u \in People : users[u] = Nil

\* People have what they were given, until a start looks at it.
GivenOK == run \in {"down", "serve"} => \A u \in People : users[u] # Nil => given[u] = users[u].scopes

\* The start: who is yet to come has what he had, and who was looked at has kept it.
Same(u) == \A s \in conf.sources : given[u][s] = users[u].scopes[s]
Kept(u) ==
  \A s \in conf.sources : IF given[u][s] # Nil THEN users[u].scopes[s] = given[u][s]
                          ELSE users[u].scopes[s] \in {Nil, B!DefaultScopes[s]}
StartOK ==
  run = "start" => \A u \in People : IF u \in todo THEN users[u] # Nil /\ Same(u) ELSE users[u] # Nil => Kept(u)

\* Whom the start has made the administrator again.
Resets == conf.login = "password" /\ conf.pass \notin Short \cup {Nil}
Restored(user) ==
  /\ "admin" \in user.perms
  /\ user.method = "other" \/ (user.method = "password" /\ user.pass = conf.pass)
AdminOK == run = "start" /\ Admin \notin todo /\ Resets /\ users[Admin] # Nil => Restored(users[Admin])

\* Who has signed in since the start is at home.
AtHome(user) == \A s \in conf.dirs \cap conf.sources : user.scopes[s] # Nil => user.scopes[s].own
HomesOK ==
  /\ run \in {"setup", "start"} => homed = {}
  /\ run = "serve" => \A u \in homed : users[u] # Nil /\ AtHome(users[u])

StartInv == StartType /\ NewOK /\ GivenOK /\ StartOK /\ AdminOK /\ HomesOK

LEMMA StartsKind == ASSUME StartInv PROVE B!StartsAreKind
<1>1. B!ScopesKept BY DEF StartInv, StartOK, Kept, B!ScopesKept, B!Ready
<1>2. B!AdminComesBack BY DEF StartInv, AdminOK, Resets, Restored, B!AdminComesBack, B!Ready
<1>3. B!HomesApart BY DEF StartInv, HomesOK, AtHome, B!HomesApart
<1> QED BY <1>1, <1>2, <1>3 DEF B!StartsAreKind

-------------------------------------------------------------------------------
(* What becomes of scopes when they are saved                                    *)

LEMMA ConfIs ==
  ASSUME B!StartupAssumption, StartType
  PROVE  /\ conf.sources \subseteq Sources /\ conf.dirs \subseteq Sources /\ conf.pass \in Passwords \cup {Nil}
         /\ B!Defaults \subseteq conf.sources
<1>1. conf \in [sources : SUBSET Sources, defaults : SUBSET Sources, dirs : SUBSET Sources, login : B!Logins,
                pass : Passwords \cup {Nil}]
  BY DEF StartType, B!StartupAssumption
<1> QED BY <1>1 DEF B!Defaults

LEMMA PlaceIs ==
  ASSUME NEW p \in Places \cup {"/", "/users"}
  PROVE  B!Place(p) \in B!ScopeRecs
BY DEF B!Place, B!ScopeRecs

LEMMA DefaultsIs ==
  ASSUME B!StartupAssumption, StartType
  PROVE  /\ B!DefaultScopes \in ScopeLists /\ B!NoScopes \in ScopeLists
         /\ \A s \in Sources : /\ B!NoScopes[s] = Nil
                               /\ B!DefaultScopes[s] = IF s \in B!Defaults THEN B!Place("/") ELSE Nil
<1>1. B!Place("/") \in B!ScopeRecs BY PlaceIs
<1> QED BY <1>1 DEF B!DefaultScopes, B!NoScopes, ScopeLists

LEMMA NoScopesIs ==
  ASSUME NEW f \in ScopeLists, \A s \in Sources : f[s] = Nil
  PROVE  f = B!NoScopes
BY DEF B!NoScopes, ScopeLists

LEMMA ConvertIs ==
  ASSUME B!StartupAssumption, StartType, NEW f \in ScopeLists
  PROVE  /\ B!Convert(f) \in ScopeLists
         /\ f = B!NoScopes => B!Convert(f) = B!DefaultScopes
         /\ f # B!NoScopes => \A s \in Sources : B!Convert(f)[s] = IF s \in conf.sources THEN f[s] ELSE Nil
<1>1. CASE f = B!NoScopes BY <1>1, DefaultsIs DEF B!Convert
<1>2. CASE f # B!NoScopes BY <1>2 DEF B!Convert, ScopeLists
<1> QED BY <1>1, <1>2

LEMMA DirsIs ==
  ASSUME B!StartupAssumption, NEW f \in ScopeLists, NEW b \in BOOLEAN
  PROVE  /\ B!MakeUserDirs(f, b) \in ScopeLists
         /\ b => B!MakeUserDirs(f, b) = f
         /\ \A s \in Sources : B!MakeUserDirs(f, b)[s] = Nil <=> f[s] = Nil
         /\ ~b => \A s \in conf.dirs \cap conf.sources \cap Sources :
                    B!MakeUserDirs(f, b)[s] # Nil => B!MakeUserDirs(f, b)[s].own
<1>1. Nil \notin B!ScopeRecs BY DEF B!StartupAssumption
<1>2. \A s \in Sources : f[s] # Nil => /\ [f[s] EXCEPT !.own = TRUE] \in B!ScopeRecs
                                       /\ [f[s] EXCEPT !.own = TRUE].own
  BY DEF ScopeLists, B!ScopeRecs
<1>3. PICK g : g = B!MakeUserDirs(f, b) OBVIOUS
<1>4. g = [s \in Sources |-> IF f[s] # Nil /\ s \in conf.dirs \cap conf.sources /\ ~b
                               THEN [f[s] EXCEPT !.own = TRUE] ELSE f[s]]
  BY <1>3 DEF B!MakeUserDirs
<1>5. g \in ScopeLists BY <1>2, <1>4 DEF ScopeLists
<1>6. b => g = f BY <1>4 DEF ScopeLists
<1>7. \A s \in Sources : g[s] = Nil <=> f[s] = Nil BY <1>1, <1>2, <1>4
<1>8. ~b => \A s \in conf.dirs \cap conf.sources \cap Sources : g[s] # Nil => g[s].own BY <1>2, <1>4
<1> QED BY <1>3, <1>5, <1>6, <1>7, <1>8

LEMMA UserIs ==
  ASSUME NEW user \in B!UserRecs
  PROVE  /\ user.scopes \in ScopeLists /\ user.perms \in SUBSET {"admin", "modify", "download", "delete"}
         /\ user.method \in {"password", "other", Nil}
BY DEF B!UserRecs, ScopeLists

LEMMA NotNil == ASSUME B!StartupAssumption PROVE Nil \notin B!UserRecs /\ Admin \in People
BY DEF B!StartupAssumption

Secrecy == Passwords \cup {Nil}
PermLists == SUBSET {"admin", "modify", "download", "delete"}
Ways == {"password", "other", Nil}

LEMMA NewUser ==
  ASSUME NEW p \in Secrecy, NEW perms \in PermLists, NEW way \in Ways, NEW f \in ScopeLists
  PROVE  /\ B!User(p, perms, way, f) \in B!UserRecs
         /\ B!User(p, perms, way, f).scopes = f /\ B!User(p, perms, way, f).method = way
         /\ B!User(p, perms, way, f).pass = p /\ B!User(p, perms, way, f).perms = perms
BY DEF B!User, B!UserRecs, ScopeLists, Secrecy, PermLists, Ways

LEMMA StoredIs ==
  ASSUME B!StartupAssumption, StartType, NEW user \in B!UserRecs, NEW b \in BOOLEAN
  PROVE  /\ B!Stored(user, b) \in B!UserRecs
         /\ B!Stored(user, b).scopes = B!MakeUserDirs(B!Convert(user.scopes), b)
         /\ B!Stored(user, b).method = user.method /\ B!Stored(user, b).pass = user.pass
         /\ B!Stored(user, b).perms = user.perms
<1>1. PICK f : f = B!MakeUserDirs(B!Convert(user.scopes), b) OBVIOUS
<1>2. f \in ScopeLists BY <1>1, UserIs, ConvertIs, DirsIs
<1>3. PICK new : new = [user EXCEPT !.scopes = f] OBVIOUS
<1>4. /\ new \in B!UserRecs /\ new.scopes = f /\ new.method = user.method /\ new.pass = user.pass
      /\ new.perms = user.perms
  BY <1>2, <1>3 DEF B!UserRecs, ScopeLists
<1>5. B!Stored(user, b) = new BY <1>1, <1>3 DEF B!Stored, B!UserRecs
<1> QED BY <1>1, <1>4, <1>5

LEMMA SomeIs == ASSUME B!StartupAssumption PROVE B!SomePassword \in Passwords \ Short
BY DEF B!StartupAssumption, B!SomePassword

LEMMA HashedIs == ASSUME NEW p \in Secrecy, NEW way PROVE B!Hashed(way, p) \in Secrecy
BY DEF B!Hashed, Secrecy

LEMMA FirstAdminIs ==
  ASSUME B!StartupAssumption, StartType
  PROVE  B!FirstAdmin \in B!UserRecs /\ B!FirstAdmin.method = "password"
<1>1. PICK p \in Passwords : p = IF conf.pass = Nil THEN B!SomePassword ELSE conf.pass
  BY ConfIs, SomeIs
<1>2. PICK f : f = [s \in Sources |-> IF s \in conf.sources THEN B!Place("/") ELSE Nil] OBVIOUS
<1>3. f \in ScopeLists BY <1>2, PlaceIs DEF ScopeLists
<1>4. B!AdminPerms \in PermLists BY DEF B!AdminPerms, PermLists
<1>5. PICK user : user = B!User(p, B!AdminPerms, "password", f) OBVIOUS
<1>6. user \in B!UserRecs /\ user.method = "password"
  <2>1. p \in Secrecy /\ "password" \in Ways BY DEF Secrecy, Ways
  <2> QED BY <1>3, <1>4, <1>5, <2>1, NewUser
<1>7. PICK one : one = [user EXCEPT !.first = TRUE] OBVIOUS
<1>8. one \in B!UserRecs /\ one.method = "password" BY <1>6, <1>7 DEF B!UserRecs
<1>9. B!FirstAdmin = B!Stored(one, TRUE) BY <1>1, <1>2, <1>5, <1>7 DEF B!FirstAdmin
<1> QED BY <1>8, <1>9, StoredIs

LEMMA StartInit == ASSUME B!StartupAssumption, B!Init PROVE StartInv
<1>1. conf \in Configs /\ run = "down" /\ first = FALSE /\ todo = {} /\ homed = {} /\ exists \in BOOLEAN
  BY DEF B!Init
<1>3. B!NoScopes \in ScopeLists BY DEF B!NoScopes, ScopeLists
<1>4. B!DefaultScopes \in ScopeLists
  <2>1. B!Place("/") \in B!ScopeRecs BY PlaceIs
  <2> QED BY <2>1 DEF B!DefaultScopes, ScopeLists
<1>5. PICK old : old = [B!User(B!SomePassword, {}, Nil, B!DefaultScopes) EXCEPT !.perm = {"admin"}] OBVIOUS
<1>6. old \in B!UserRecs /\ old.method = Nil
  <2>1. PICK user : user = B!User(B!SomePassword, {}, Nil, B!DefaultScopes) OBVIOUS
  <2>2. user \in B!UserRecs /\ user.method = Nil
    <3>1. PICK p \in Passwords : p = B!SomePassword BY SomeIs
    <3>2. p \in Secrecy /\ {} \in PermLists /\ Nil \in Ways BY DEF Secrecy, PermLists, Ways
    <3> QED BY <1>4, <2>1, <3>1, <3>2, NewUser
  <2> QED BY <1>5, <2>1, <2>2 DEF B!UserRecs
<1>7. /\ users \in [People -> B!UserRecs \cup {Nil}]
      /\ \A u \in People : users[u] \in {old, Nil}
      /\ ~exists => \A u \in People : users[u] = Nil
  <2>1. CASE exists = FALSE /\ users = [u \in People |-> Nil] BY <2>1
  <2>2. CASE exists = TRUE /\ users = [u \in People |-> IF u = Admin THEN old ELSE Nil] BY <1>6, <2>2
  <2> QED BY <1>5, <2>1, <2>2 DEF B!Init
<1>8. given = [u \in People |-> IF users[u] = Nil THEN B!NoScopes ELSE users[u].scopes] BY DEF B!Init
<1>9. given \in [People -> ScopeLists] BY <1>3, <1>7, <1>8, UserIs
<1>10. StartType BY <1>1, <1>7, <1>9 DEF StartType
<1>11. NewOK /\ GivenOK /\ StartOK /\ HomesOK BY <1>1, <1>7, <1>8 DEF NewOK, GivenOK, StartOK, HomesOK
<1>12. AdminOK BY <1>1 DEF AdminOK
<1> QED BY <1>10, <1>11, <1>12 DEF StartInv

-------------------------------------------------------------------------------
(* People come, go and change while the server is up                              *)

LEMMA RestrictIs ==
  ASSUME NEW f \in ScopeLists, NEW S
  PROVE  [s \in Sources |-> IF s \in S THEN f[s] ELSE Nil] \in ScopeLists
BY DEF ScopeLists

\* One user gets another record.
LEMMA OneUser ==
  ASSUME B!StartupAssumption, StartInv, run = "serve", NEW u \in People, NEW new \in B!UserRecs \cup {Nil},
         users' = [users EXCEPT ![u] = new], UNCHANGED <<conf, exists, run, first, todo>>,
         given' \in [People -> ScopeLists], \A w \in People \ {u} : given'[w] = given[w],
         new # Nil => given'[u] = new.scopes,
         homed' \subseteq homed \cup {u}, u \in homed' => new # Nil /\ AtHome(new)
  PROVE  StartInv'
<1>1. users'[u] = new /\ \A w \in People \ {u} : users'[w] = users[w] BY DEF StartInv, StartType
<1>2. StartType' BY DEF StartInv, StartType
<1>3. NewOK' BY DEF StartInv, NewOK
<1>4. GivenOK' BY <1>1 DEF StartInv, GivenOK
<1>5. StartOK' BY DEF StartOK
<1>6. AdminOK' BY DEF AdminOK
<1>7. HomesOK'
  <2>1. ASSUME NEW w \in homed' PROVE (users[w] # Nil /\ AtHome(users[w]))'
    <3>1. CASE w = u BY <1>1, <2>1, <3>1 DEF AtHome
    <3>2. CASE w # u
      <4>1. w \in homed /\ w \in People BY <2>1, <3>2 DEF StartInv, StartType
      <4>2. users[w] # Nil /\ AtHome(users[w]) BY <4>1 DEF StartInv, HomesOK
      <4> QED BY <1>1, <3>2, <4>1, <4>2 DEF AtHome
    <3> QED BY <3>1, <3>2
  <2> QED BY <2>1 DEF HomesOK
<1> QED BY <1>2, <1>3, <1>4, <1>5, <1>6, <1>7 DEF StartInv

LEMMA GiveIs ==
  ASSUME StartInv, NEW u \in People, NEW f \in ScopeLists, B!Give(u, f)
  PROVE  given' \in [People -> ScopeLists] /\ given'[u] = f /\ \A w \in People \ {u} : given'[w] = given[w]
BY DEF B!Give, StartInv, StartType

LEMMA RecIs ==
  ASSUME StartInv, NEW u \in People, users[u] # Nil
  PROVE  /\ users[u] \in B!UserRecs /\ users[u].scopes \in ScopeLists
         /\ run = "serve" => given[u] = users[u].scopes
<1>1. users[u] \in B!UserRecs BY DEF StartInv, StartType
<1> QED BY <1>1, UserIs DEF StartInv, GivenOK

\* What MakeUserDirs has given is a home.
LEMMA DirsAreHomes ==
  ASSUME B!StartupAssumption, StartInv, NEW f \in ScopeLists, NEW user, user.scopes = B!MakeUserDirs(f, FALSE)
  PROVE  AtHome(user)
<1>1. conf.dirs \cap conf.sources \subseteq Sources BY ConfIs DEF StartInv
<1>2. \A s \in conf.dirs \cap conf.sources \cap Sources :
        B!MakeUserDirs(f, FALSE)[s] # Nil => B!MakeUserDirs(f, FALSE)[s].own
  BY DirsIs
<1> QED BY <1>1, <1>2 DEF AtHome

LEMMA CreateStep ==
  ASSUME B!StartupAssumption, StartInv, NEW u \in People, NEW f \in B!Gifts, NEW way \in Ways,
         B!Create(u, way, B!UserPerms, f)
  PROVE  StartInv'
<1>1. f \in ScopeLists
  <2>1. B!NoScopes \in ScopeLists BY DefaultsIs DEF StartInv
  <2>2. \A p \in Places : B!Place(p) \in B!ScopeRecs BY PlaceIs
  <2> QED BY <2>1, <2>2 DEF B!Gifts, ScopeLists
<1>2. B!WithDefaults(f) \in ScopeLists BY <1>1, DefaultsIs DEF B!WithDefaults, StartInv
<1>3. B!UserPerms \in PermLists BY DEF B!UserPerms, PermLists
<1>4. PICK p \in Secrecy : p = B!Hashed(way, B!SomePassword)
  <2>1. B!SomePassword \in Secrecy BY SomeIs DEF Secrecy
  <2> QED BY <2>1, HashedIs
<1>5. PICK method \in Ways : method = IF way = Nil THEN "password" ELSE way BY DEF Ways
<1>6. PICK plain : plain = B!User(p, B!UserPerms, method, B!WithDefaults(f)) OBVIOUS
<1>7. plain \in B!UserRecs BY <1>2, <1>3, <1>6, NewUser
<1>8. PICK user : user = B!Stored(plain, FALSE) OBVIOUS
<1>9. user \in B!UserRecs BY <1>7, <1>8, StoredIs DEF StartInv
<1>10. PICK new : new = [user EXCEPT !.first = first /\ "admin" \in B!UserPerms] OBVIOUS
<1>11. new \in B!UserRecs /\ new.scopes = user.scopes /\ user.scopes \in ScopeLists
  <2>1. (first /\ "admin" \in B!UserPerms) \in BOOLEAN BY DEF StartInv, StartType
  <2> QED BY <1>9, <1>10, <2>1, UserIs DEF B!UserRecs
<1>12. /\ run = "serve" /\ users[u] = Nil /\ users' = [users EXCEPT ![u] = new] /\ B!Give(u, user.scopes)
       /\ UNCHANGED <<conf, exists, run, first, todo, homed>>
  BY <1>4, <1>5, <1>6, <1>8, <1>10 DEF B!Create, B!process
<1>13. u \notin homed BY <1>12 DEF StartInv, HomesOK
<1>14. given' \in [People -> ScopeLists] /\ given'[u] = user.scopes /\ \A w \in People \ {u} : given'[w] = given[w]
  BY <1>11, <1>12, GiveIs
<1> QED BY <1>11, <1>12, <1>13, <1>14, OneUser

LEMMA SignInStep ==
  ASSUME B!StartupAssumption, StartInv, NEW u \in People, B!SignIn(u)
  PROVE  StartInv'
<1>1. /\ run = "serve" /\ homed' = homed \cup {u} /\ UNCHANGED <<conf, exists, run, first, todo>>
  BY DEF B!SignIn, B!process
<1>2. ASSUME NEW new \in B!UserRecs, AtHome(new), users' = [users EXCEPT ![u] = new], B!Give(u, new.scopes)
      PROVE  StartInv'
  <2>1. new.scopes \in ScopeLists /\ new # Nil BY UserIs, NotNil
  <2>2. given' \in [People -> ScopeLists] /\ given'[u] = new.scopes /\ \A w \in People \ {u} : given'[w] = given[w]
    BY <1>2, <2>1, GiveIs
  <2> QED BY <1>1, <1>2, <2>1, <2>2, OneUser
<1>3. CASE users[u] = Nil
  <2>1. B!UserPerms \in PermLists BY DEF B!UserPerms, PermLists
  <2>2. B!DefaultScopes \in ScopeLists BY DefaultsIs DEF StartInv
  <2>3. PICK plain : plain = B!User(Nil, B!UserPerms, "other", B!DefaultScopes) OBVIOUS
  <2>4. plain \in B!UserRecs
    <3>1. Nil \in Secrecy /\ "other" \in Ways BY DEF Secrecy, Ways
    <3> QED BY <2>1, <2>2, <2>3, <3>1, NewUser
  <2>5. PICK new : new = B!Stored(plain, FALSE) OBVIOUS
  <2>6. new \in B!UserRecs /\ new.scopes = B!MakeUserDirs(B!Convert(plain.scopes), FALSE)
    BY <2>4, <2>5, StoredIs DEF StartInv
  <2>7. AtHome(new) BY <2>4, <2>6, UserIs, ConvertIs, DirsAreHomes DEF StartInv
  <2>8. users' = [users EXCEPT ![u] = new] /\ B!Give(u, new.scopes) BY <1>3, <2>3, <2>5 DEF B!SignIn
  <2> QED BY <1>2, <2>6, <2>7, <2>8
<1>4. CASE users[u] # Nil
  <2>1. PICK old : old = users[u].scopes OBVIOUS
  <2>2. users[u] \in B!UserRecs /\ old \in ScopeLists BY <1>4, <2>1, RecIs
  <2>3. PICK asked : asked = [s \in Sources |-> IF old[s] = Nil \/ old[s].own THEN old[s] ELSE B!Place("/users")]
    OBVIOUS
  <2>4. asked \in ScopeLists /\ \A s \in Sources : asked[s] = Nil <=> old[s] = Nil
    <3>1. B!Place("/users") \in B!ScopeRecs BY PlaceIs
    <3>2. B!Place("/users") # Nil BY <3>1 DEF B!StartupAssumption
    <3> QED BY <2>2, <2>3, <3>1, <3>2 DEF ScopeLists
  <2>5. PICK fixed : fixed = B!MakeUserDirs(asked, FALSE) OBVIOUS
  <2>6. B!CorrectScope(old) = fixed BY <2>3, <2>5 DEF B!CorrectScope
  <2>7. /\ fixed \in ScopeLists
        /\ \A s \in conf.dirs \cap conf.sources \cap Sources : fixed[s] # Nil => fixed[s].own
        /\ \A s \in Sources : fixed[s] = Nil <=> old[s] = Nil
    BY <2>4, <2>5, DirsIs
  <2>8. conf.dirs \cap conf.sources \subseteq Sources BY ConfIs DEF StartInv
  <2>9. PICK right : right = IF old = fixed THEN old ELSE B!Convert(fixed) OBVIOUS
  <2>10. right \in ScopeLists /\ \A s \in conf.dirs \cap conf.sources : right[s] # Nil => right[s].own
    <3>1. CASE old = fixed BY <2>7, <2>8, <2>9, <3>1
    <3>2. CASE old # fixed
      <4>1. fixed # B!NoScopes
        <5> SUFFICES ASSUME fixed = B!NoScopes PROVE FALSE OBVIOUS
        <5>1. \A s \in Sources : old[s] = Nil BY <2>7, DefaultsIs DEF StartInv
        <5>2. old = B!NoScopes BY <2>2, <5>1, NoScopesIs
        <5> QED BY <3>2, <5>2
      <4>2. /\ B!Convert(fixed) \in ScopeLists
            /\ \A s \in Sources : B!Convert(fixed)[s] = IF s \in conf.sources THEN fixed[s] ELSE Nil
        BY <2>7, <4>1, ConvertIs DEF StartInv
      <4> QED BY <2>7, <2>8, <2>9, <3>2, <4>2
    <3> QED BY <3>1, <3>2
  <2>11. PICK new : new = [users[u] EXCEPT !.method = "other", !.scopes = right] OBVIOUS
  <2>12. new \in B!UserRecs /\ new.scopes = right BY <2>2, <2>10, <2>11 DEF B!UserRecs, ScopeLists
  <2>13. AtHome(new) BY <2>10, <2>12 DEF AtHome
  <2>14. users' = [users EXCEPT ![u] = new] /\ B!Give(u, new.scopes)
    BY <1>4, <2>1, <2>6, <2>9, <2>11 DEF B!SignIn
  <2> QED BY <1>2, <2>12, <2>13, <2>14
<1> QED BY <1>3, <1>4

LEMMA SetScopesStep ==
  ASSUME B!StartupAssumption, StartInv, NEW u \in People, NEW f \in B!Gifts, B!SetScopes(u, f)
  PROVE  StartInv'
<1>1. f \in ScopeLists
  <2>1. B!NoScopes \in ScopeLists BY DefaultsIs DEF StartInv
  <2>2. \A p \in Places : B!Place(p) \in B!ScopeRecs BY PlaceIs
  <2> QED BY <2>1, <2>2 DEF B!Gifts, ScopeLists
<1>2. run = "serve" /\ users[u] # Nil BY DEF B!SetScopes
<1>3. users[u] \in B!UserRecs BY <1>2, RecIs
<1>4. PICK plain : plain = [users[u] EXCEPT !.scopes = f] OBVIOUS
<1>5. plain \in B!UserRecs BY <1>1, <1>3, <1>4 DEF B!UserRecs, ScopeLists
<1>6. PICK new : new = B!Stored(plain, TRUE) OBVIOUS
<1>7. new \in B!UserRecs /\ new.scopes \in ScopeLists
  BY <1>5, <1>6, StoredIs, UserIs DEF StartInv
<1>8. users' = [users EXCEPT ![u] = new]
  BY <1>4, <1>6 DEF B!SetScopes, StartInv, StartType
<1>9. users'[u] = new BY <1>8 DEF StartInv, StartType
<1>10. B!Give(u, new.scopes) /\ homed' = homed \ {u} /\ UNCHANGED <<conf, exists, run, first, todo>>
  BY <1>9 DEF B!SetScopes, B!process
<1>11. given' \in [People -> ScopeLists] /\ given'[u] = new.scopes /\ \A w \in People \ {u} : given'[w] = given[w]
  BY <1>7, <1>10, GiveIs
<1> QED BY <1>2, <1>3, <1>7, <1>8, <1>10, <1>11, OneUser

LEMMA SetProfileStep ==
  ASSUME B!StartupAssumption, StartInv, NEW u \in People, NEW way \in Ways, B!SetProfile(u, way)
  PROVE  StartInv'
<1>1. PICK f : f = [s \in Sources |-> IF s \in conf.sources THEN users[u].scopes[s] ELSE Nil] OBVIOUS
<1>2. run = "serve" /\ users[u] # Nil BY DEF B!SetProfile
<1>3. users[u] \in B!UserRecs BY <1>2, RecIs
<1>4. PICK plain : plain = [users[u] EXCEPT !.method = way, !.scopes = f] OBVIOUS
<1>5. plain \in B!UserRecs
  <2>1. f \in ScopeLists BY <1>1, <1>2, RecIs, RestrictIs
  <2> QED BY <1>3, <1>4, <2>1 DEF B!UserRecs, ScopeLists, Ways
<1>6. PICK new : new = B!Stored(plain, TRUE) OBVIOUS
<1>7. new \in B!UserRecs /\ new.scopes \in ScopeLists
  BY <1>5, <1>6, StoredIs, UserIs DEF StartInv
<1>8. users' = [users EXCEPT ![u] = new]
  BY <1>1, <1>4, <1>6 DEF B!SetProfile, StartInv, StartType
<1>9. users'[u] = new BY <1>8 DEF StartInv, StartType
<1>10. B!Give(u, new.scopes) /\ homed' = homed \ {u} /\ UNCHANGED <<conf, exists, run, first, todo>>
  BY <1>9 DEF B!SetProfile, B!process
<1>11. given' \in [People -> ScopeLists] /\ given'[u] = new.scopes /\ \A w \in People \ {u} : given'[w] = given[w]
  BY <1>7, <1>10, GiveIs
<1> QED BY <1>2, <1>3, <1>7, <1>8, <1>10, <1>11, OneUser

\* What leaves the scopes alone.
LEMMA SetStep ==
  ASSUME B!StartupAssumption, StartInv, NEW u \in People,
         (\E p \in {B!UserPerms, {"modify"}, {"admin", "modify"}} : B!SetPermissions(u, p))
           \/ (\E p \in Passwords : B!SetPassword(u, p))
  PROVE  StartInv'
<1>1. run = "serve" /\ users[u] # Nil /\ UNCHANGED <<conf, exists, run, first, todo, given, homed>>
  BY DEF B!SetPermissions, B!SetPassword, B!process, B!history
<1>2. users[u] \in B!UserRecs /\ given[u] = users[u].scopes BY <1>1, RecIs
<1>3. PICK new \in B!UserRecs :
        users' = [users EXCEPT ![u] = new] /\ new.scopes = users[u].scopes
  <2>1. ASSUME NEW p \in {B!UserPerms, {"modify"}, {"admin", "modify"}}, B!SetPermissions(u, p)
        PROVE  \E new \in B!UserRecs :
                 users' = [users EXCEPT ![u] = new] /\ new.scopes = users[u].scopes
    <3>1. PICK new : new = [users[u] EXCEPT !.perms = p] OBVIOUS
    <3>2. new \in B!UserRecs /\ new.scopes = users[u].scopes
      BY <1>2, <3>1 DEF B!UserRecs, B!UserPerms
    <3>3. users' = [users EXCEPT ![u] = new] BY <2>1, <3>1 DEF B!SetPermissions, StartInv, StartType
    <3> QED BY <3>2, <3>3
  <2>2. ASSUME NEW p \in Passwords, B!SetPassword(u, p)
        PROVE  \E new \in B!UserRecs :
                 users' = [users EXCEPT ![u] = new] /\ new.scopes = users[u].scopes
    <3>1. PICK new : new = [users[u] EXCEPT !.pass = p] OBVIOUS
    <3>2. new \in B!UserRecs /\ new.scopes = users[u].scopes
      BY <1>2, <3>1 DEF B!UserRecs
    <3>3. users' = [users EXCEPT ![u] = new] BY <2>2, <3>1 DEF B!SetPassword, StartInv, StartType
    <3> QED BY <3>2, <3>3
  <2> QED BY <2>1, <2>2
<1>4. u \in homed => AtHome(new) BY <1>1, <1>3 DEF StartInv, HomesOK, AtHome
<1>5. given' \in [People -> ScopeLists] BY <1>1 DEF StartInv, StartType
<1> QED BY <1>1, <1>2, <1>3, <1>4, <1>5, NotNil, OneUser

LEMMA DeleteUserStep ==
  ASSUME B!StartupAssumption, StartInv, NEW u \in People, B!Delete(u)
  PROVE  StartInv'
<1>1. /\ run = "serve" /\ users' = [users EXCEPT ![u] = Nil] /\ B!Give(u, B!NoScopes) /\ homed' = homed \ {u}
      /\ UNCHANGED <<conf, exists, run, first, todo>>
  BY DEF B!Delete, B!process
<1>2. B!NoScopes \in ScopeLists BY DefaultsIs DEF StartInv
<1>3. given' \in [People -> ScopeLists] /\ \A w \in People \ {u} : given'[w] = given[w] BY <1>1, <1>2, GiveIs
<1> QED BY <1>1, <1>3, OneUser

-------------------------------------------------------------------------------
(* The server stops and starts                                                   *)

LEMMA DownStep ==
  ASSUME B!StartupAssumption, StartInv,
         B!LoseDatabase \/ B!Serve \/ B!Stop \/ \E c \in Configs : B!Configure(c)
  PROVE  StartInv'
<1>1. ASSUME users' \in [People -> B!UserRecs \cup {Nil}], \A u \in People : users'[u] \in {users[u], Nil},
             conf' \in Configs, exists' \in BOOLEAN, run' \in {"down", "serve"}, todo' \subseteq People,
             UNCHANGED <<first, homed>>, given' \in [People -> ScopeLists],
             \A u \in People : users'[u] # Nil => given'[u] = users'[u].scopes,
             run' = "serve" => exists' /\ homed = {}, ~exists' => \A u \in People : users'[u] = Nil
      PROVE  StartInv'
  <2>1. StartType' BY <1>1 DEF StartInv, StartType
  <2>2. NewOK' /\ GivenOK' /\ StartOK' BY <1>1 DEF NewOK, GivenOK, StartOK
  <2>3. AdminOK' BY <1>1 DEF AdminOK
  <2>4. HomesOK' BY <1>1 DEF HomesOK
  <2> QED BY <2>1, <2>2, <2>3, <2>4 DEF StartInv
<1>2. users \in [People -> B!UserRecs \cup {Nil}] /\ given \in [People -> ScopeLists] /\ conf \in Configs
      /\ exists \in BOOLEAN /\ todo \subseteq People
  BY DEF StartInv, StartType
<1>3. CASE B!LoseDatabase
  <2>1. B!NoScopes \in ScopeLists BY DefaultsIs DEF StartInv
  <2>2. /\ run = "down" /\ exists' = FALSE /\ users' = [u \in People |-> Nil]
        /\ given' = [u \in People |-> B!NoScopes] /\ UNCHANGED <<conf, run, first, todo, homed>>
    BY <1>3 DEF B!LoseDatabase, B!process
  <2> QED BY <1>1, <1>2, <2>1, <2>2
<1>4. B!Left \in [People -> ScopeLists] /\ \A u \in People : users[u] # Nil => B!Left[u] = users[u].scopes
  <2>1. B!NoScopes \in ScopeLists BY DefaultsIs DEF StartInv
  <2>2. \A u \in People : users[u] # Nil => users[u].scopes \in ScopeLists BY RecIs
  <2> QED BY <2>1, <2>2 DEF B!Left
<1>5. CASE B!Serve
  <2>1. /\ run = "start" /\ run' = "serve" /\ given' = B!Left /\ todo = {}
        /\ UNCHANGED <<conf, exists, users, first, todo, homed>>
    BY <1>5 DEF B!Serve, B!Ready
  <2>2. exists /\ homed = {} BY <2>1 DEF StartInv, NewOK, HomesOK
  <2> QED BY <1>1, <1>2, <1>4, <2>1, <2>2
<1>6. CASE B!Stop
  <2>1. /\ run # "down" /\ run' = "down" /\ todo' = {} /\ UNCHANGED <<conf, exists, users, first, homed>>
        /\ given' = IF run = "serve" THEN given ELSE B!Left
    BY <1>6 DEF B!Stop
  <2>2. exists BY <2>1 DEF StartInv, NewOK
  <2>3. CASE run = "serve"
    <3>1. \A u \in People : users[u] # Nil => given[u] = users[u].scopes BY <2>3 DEF StartInv, GivenOK
    <3> QED BY <1>1, <1>2, <2>1, <2>2, <2>3, <3>1
  <2>4. CASE run # "serve" BY <1>1, <1>2, <1>4, <2>1, <2>2, <2>4
  <2> QED BY <2>3, <2>4
<1>7. ASSUME NEW c \in Configs, B!Configure(c) PROVE StartInv'
  <2>1. run = "down" /\ conf' = c /\ UNCHANGED <<exists, users, run, first, todo, given, homed>>
    BY <1>7 DEF B!Configure, B!process, B!history
  <2>2. \A u \in People : users[u] # Nil => given[u] = users[u].scopes BY <2>1 DEF StartInv, GivenOK
  <2>3. ~exists => \A u \in People : users[u] = Nil BY DEF StartInv, NewOK
  <2> QED BY <1>1, <1>2, <2>1, <2>2, <2>3
<1> QED BY <1>3, <1>5, <1>6, <1>7

LEMMA StartStep ==
  ASSUME B!StartupAssumption, StartInv, B!Start
  PROVE  StartInv'
<1>1. /\ run = "down" /\ exists' = TRUE /\ first' = ~exists /\ run' = IF exists THEN "start" ELSE "setup"
      /\ todo' = IF exists THEN {u \in People : users[u] # Nil} ELSE {}
      /\ homed' = {}
      /\ given' = [u \in People |-> [s \in Sources |-> IF s \in conf.sources THEN given[u][s] ELSE Nil]]
      /\ UNCHANGED <<conf, users>>
  BY DEF B!Start
<1>2. given' \in [People -> ScopeLists]
  <2>1. \A u \in People : given[u] \in ScopeLists BY DEF StartInv, StartType
  <2> QED BY <1>1, <2>1, RestrictIs
<1>3. StartType' BY <1>1, <1>2 DEF StartInv, StartType
<1>4. NewOK' BY <1>1 DEF StartInv, NewOK
<1>5. GivenOK' /\ HomesOK' BY <1>1 DEF GivenOK, HomesOK
<1>6. StartOK'
  <2>1. ASSUME NEW u \in People, users[u] # Nil PROVE Same(u)'
    <3>1. given[u] = users[u].scopes BY <1>1, <2>1 DEF StartInv, GivenOK
    <3>2. conf.sources \subseteq Sources BY ConfIs DEF StartInv
    <3> QED BY <1>1, <3>1, <3>2 DEF Same
  <2> QED BY <1>1, <2>1 DEF StartOK
<1>7. AdminOK'
  <2>1. run' = "start" => todo' = {u \in People : users[u] # Nil} BY <1>1
  <2> QED BY <1>1, <2>1, NotNil DEF AdminOK
<1> QED BY <1>3, <1>4, <1>5, <1>6, <1>7 DEF StartInv

LEMMA SetupStep ==
  ASSUME B!StartupAssumption, StartInv, B!QuickSetup
  PROVE  StartInv'
<1>1. /\ run = "setup" /\ run' \in {"start", "down"} /\ todo' = {u \in People : users'[u] # Nil}
      /\ UNCHANGED <<conf, exists, first, homed>>
  BY DEF B!QuickSetup
<1>2. exists /\ homed = {} /\ \A u \in People : users[u] = Nil BY <1>1 DEF StartInv, NewOK, HomesOK
<1>3. PICK new : new = B!FirstAdmin OBVIOUS
<1>4. new \in B!UserRecs /\ new.scopes \in ScopeLists BY <1>3, FirstAdminIs, UserIs DEF StartInv
<1>5. \/ UNCHANGED <<users, given>>
      \/ users' = [users EXCEPT ![Admin] = new] /\ given' = [given EXCEPT ![Admin] = new.scopes]
  BY <1>3 DEF B!QuickSetup
<1>6. StartType' BY <1>1, <1>4, <1>5, NotNil DEF StartInv, StartType
<1>7. \A u \in People : users'[u] # Nil => given'[u] = users'[u].scopes
  BY <1>2, <1>4, <1>5, NotNil DEF StartInv, StartType
<1>8. NewOK' BY <1>1, <1>2 DEF NewOK
<1>9. GivenOK' BY <1>7 DEF GivenOK
<1>10. HomesOK' BY <1>1, <1>2 DEF HomesOK
<1>11. StartOK' BY <1>1, <1>7 DEF StartOK, Same
<1>12. AdminOK' BY <1>1, NotNil DEF AdminOK
<1> QED BY <1>6, <1>8, <1>9, <1>10, <1>11, <1>12 DEF StartInv

\* What a start makes of one user.
LEMMA ValidateIs ==
  ASSUME B!StartupAssumption, StartInv, NEW u \in People, users[u] # Nil, B!Validate(u)
  PROVE  \E new \in B!UserRecs :
           /\ users' = [users EXCEPT ![u] = new]
           /\ \A s \in conf.sources :
                IF users[u].scopes[s] # Nil THEN new.scopes[s] = users[u].scopes[s]
                ELSE new.scopes[s] \in {Nil, B!DefaultScopes[s]}
           /\ u = Admin /\ Resets => Restored(new)
<1>1. users[u] \in B!UserRecs /\ users[u].scopes \in ScopeLists BY RecIs
<1>2. PICK user : user = users[u] OBVIOUS
<1>3. PICK scopes : scopes = B!UpdateUserScopes(user) OBVIOUS
<1>4. /\ scopes \in ScopeLists
      /\ \A s \in conf.sources : scopes[s] = IF user.scopes[s] # Nil THEN user.scopes[s] ELSE B!DefaultScopes[s]
  <2>1. B!Place("/") \in B!ScopeRecs BY PlaceIs
  <2>2. scopes = [s \in Sources |-> IF user.scopes[s] = Nil /\ s \in B!Defaults THEN B!Place("/") ELSE user.scopes[s]]
    BY <1>3 DEF B!UpdateUserScopes
  <2>3. scopes \in ScopeLists BY <1>1, <1>2, <2>1, <2>2 DEF ScopeLists
  <2>4. conf.sources \subseteq Sources BY ConfIs DEF StartInv
  <2>5. \A s \in Sources : B!DefaultScopes[s] = IF s \in B!Defaults THEN B!Place("/") ELSE Nil
    BY DefaultsIs DEF StartInv
  <2> QED BY <2>2, <2>3, <2>4, <2>5
<1>5. PICK p : p = B!UpdatePermissions(user) OBVIOUS
<1>6. p \in B!UserRecs /\ p.method = user.method
  <2>1. CASE user.version = 1 BY <1>1, <1>2, <1>5, <2>1 DEF B!UpdatePermissions
  <2>2. CASE user.version # 1
    <3>1. PICK perms : perms = user.perms \cup user.perm \cup {"download"} OBVIOUS
    <3>2. PICK more : more = IF "modify" \in perms THEN perms \cup {"delete"} ELSE perms OBVIOUS
    <3>3. more \in SUBSET {"admin", "modify", "download", "delete"} BY <1>1, <1>2, <3>1, <3>2 DEF B!UserRecs
    <3>4. p = [user EXCEPT !.perms = more, !.perm = {}, !.version = 1]
      BY <1>5, <2>2, <3>1, <3>2 DEF B!UpdatePermissions
    <3> QED BY <1>1, <1>2, <3>3, <3>4 DEF B!UserRecs
  <2> QED BY <2>1, <2>2
<1>7. PICK better : better = [p EXCEPT !.scopes = scopes, !.method = IF @ = Nil THEN "password" ELSE @,
                                      !.first = @ /\ first]
  OBVIOUS
<1>8. better \in B!UserRecs /\ better.scopes = scopes /\ better.method \in {"password", "other"}
  <2>1. PICK method : method = IF p.method = Nil THEN "password" ELSE p.method OBVIOUS
  <2>2. PICK f \in BOOLEAN : f = (p.first /\ first) OBVIOUS
  <2>3. better = [p EXCEPT !.scopes = scopes, !.method = method, !.first = f]
    BY <1>6, <1>7, <2>1, <2>2 DEF B!UserRecs
  <2>4. method \in {"password", "other"}
    BY <1>6, <2>1, UserIs
  <2> QED BY <1>4, <1>6, <2>3, <2>4 DEF B!UserRecs, ScopeLists
<1>9. PICK resets \in BOOLEAN : resets <=> (u = Admin /\ conf.pass # Nil /\ conf.login = "password") OBVIOUS
<1>10. PICK saved : saved = IF resets THEN [better EXCEPT !.perms = @ \cup {"admin"},
                                                         !.pass = B!Hashed(better.method, conf.pass)]
                            ELSE better
  OBVIOUS
<1>11. /\ saved \in B!UserRecs /\ saved.scopes = scopes
       /\ u = Admin /\ Resets => Restored(saved)
  <2>1. CASE ~resets BY <1>8, <1>9, <1>10, <2>1 DEF Resets
  <2>2. CASE resets
    <3>1. conf.pass \in Secrecy BY ConfIs DEF StartInv, Secrecy
    <3>2. PICK perms : perms = better.perms \cup {"admin"} OBVIOUS
    <3>3. PICK pass \in Secrecy : pass = B!Hashed(better.method, conf.pass) BY <3>1, HashedIs
    <3>4. saved = [better EXCEPT !.perms = perms, !.pass = pass]
      BY <1>8, <1>10, <2>2, <3>2, <3>3 DEF B!UserRecs
    <3>5. perms \in SUBSET {"admin", "modify", "download", "delete"} BY <1>8, <3>2, UserIs
    <3>6. /\ saved \in B!UserRecs /\ saved.scopes = scopes /\ "admin" \in saved.perms
          /\ saved.method = better.method /\ saved.pass = pass
      BY <1>8, <3>2, <3>3, <3>4, <3>5 DEF B!UserRecs, Secrecy
    <3>7. Restored(saved) BY <1>8, <3>3, <3>6 DEF Restored, B!Hashed
    <3> QED BY <3>6, <3>7
  <2> QED BY <2>1, <2>2
<1>12. CASE users' = [users EXCEPT ![u] = B!Stored(saved, TRUE)]
  <2>1. PICK new : new = B!Stored(saved, TRUE) OBVIOUS
  <2>2. /\ new \in B!UserRecs /\ new.scopes = B!Convert(scopes) /\ new.method = saved.method
        /\ new.pass = saved.pass /\ new.perms = saved.perms
    BY <1>4, <1>11, <2>1, StoredIs, ConvertIs, DirsIs DEF StartInv
  <2>3. \A s \in conf.sources :
          new.scopes[s] = IF user.scopes[s] # Nil THEN user.scopes[s] ELSE B!DefaultScopes[s]
    <3>1. conf.sources \subseteq Sources BY ConfIs DEF StartInv
    <3>2. CASE scopes = B!NoScopes
      <4>1. B!Convert(scopes) = B!DefaultScopes BY <1>4, <3>2, ConvertIs DEF StartInv
      <4>2. \A s \in conf.sources : user.scopes[s] = Nil
        BY <1>4, <3>1, <3>2, DefaultsIs DEF StartInv
      <4> QED BY <2>2, <4>1, <4>2
    <3>3. CASE scopes # B!NoScopes
      <4>1. \A s \in conf.sources : B!Convert(scopes)[s] = scopes[s] BY <1>4, <3>1, <3>3, ConvertIs DEF StartInv
      <4> QED BY <1>4, <2>2, <4>1
    <3> QED BY <3>2, <3>3
  <2>4. u = Admin /\ Resets => Restored(new) BY <1>11, <2>2 DEF Restored
  <2> QED BY <1>2, <1>12, <2>1, <2>2, <2>3, <2>4
<1>13. CASE UNCHANGED users /\ ~(u = Admin /\ Resets)
  <2>1. users' = [users EXCEPT ![u] = user] BY <1>2, <1>13 DEF StartInv, StartType
  <2> QED BY <1>1, <1>2, <1>13, <2>1
<1>14. \/ users' = [users EXCEPT ![u] = B!Stored(saved, TRUE)]
       \/ UNCHANGED users /\ ~(u = Admin /\ Resets)
  <2>1. PICK refused \in BOOLEAN : refused <=> (resets /\ better.method = "password" /\ conf.pass \in Short) OBVIOUS
  <2>2. \/ users' = IF refused THEN users ELSE [users EXCEPT ![u] = B!Stored(saved, TRUE)]
        \/ UNCHANGED users /\ ~resets
    BY <1>2, <1>3, <1>5, <1>7, <1>9, <1>10, <2>1 DEF B!Validate, B!ResetsAdmin
  <2>3. u = Admin /\ Resets => resets /\ ~refused BY <1>9, <2>1 DEF Resets
  <2> QED BY <2>2, <2>3
<1> QED BY <1>12, <1>13, <1>14

LEMMA ValidateStep ==
  ASSUME B!StartupAssumption, StartInv, NEW u \in People, B!Validate(u)
  PROVE  StartInv'
<1>1. run = "start" /\ u \in todo /\ todo' = todo \ {u} /\ UNCHANGED <<conf, exists, run, first, given, homed>>
  BY DEF B!Validate, B!history
<1>2. conf.sources \subseteq Sources BY ConfIs DEF StartInv
<1>3. users[u] # Nil /\ Same(u) BY <1>1 DEF StartInv, StartOK
<1>4. PICK new \in B!UserRecs :
           /\ users' = [users EXCEPT ![u] = new]
           /\ \A s \in conf.sources :
                IF users[u].scopes[s] # Nil THEN new.scopes[s] = users[u].scopes[s]
                ELSE new.scopes[s] \in {Nil, B!DefaultScopes[s]}
           /\ u = Admin /\ Resets => Restored(new)
  BY <1>3, ValidateIs
<1>5. users'[u] = new /\ \A w \in People \ {u} : users'[w] = users[w] BY <1>4 DEF StartInv, StartType
<1>6. B!DefaultScopes' = B!DefaultScopes
  BY <1>1 DEF B!DefaultScopes, B!Defaults, B!Place
<1>7. Kept(u)' BY <1>1, <1>3, <1>4, <1>5, <1>6 DEF Kept, Same
<1>8. \A w \in People \ {u} : (Same(w) => Same(w)') /\ (Kept(w) => Kept(w)')
  BY <1>1, <1>5, <1>6 DEF Same, Kept
<1>9. StartType' BY <1>1, <1>4 DEF StartInv, StartType
<1>10. NewOK' /\ GivenOK' /\ HomesOK' BY <1>1 DEF StartInv, NewOK, GivenOK, HomesOK
<1>11. StartOK'
  <2>1. ASSUME NEW w \in People
        PROVE (IF w \in todo THEN users[w] # Nil /\ Same(w) ELSE users[w] # Nil => Kept(w))'
    <3>1. CASE w = u BY <1>1, <1>7, <3>1
    <3>2. CASE w # u BY <1>1, <1>5, <1>8, <3>2 DEF StartInv, StartOK
    <3> QED BY <3>1, <3>2
  <2> QED BY <2>1 DEF StartOK
<1>12. AdminOK'
  <2>1. Resets' = Resets BY <1>1 DEF Resets
  <2>2. \A user : Restored(user)' <=> Restored(user) BY <1>1 DEF Restored
  <2>3. CASE u = Admin BY <1>1, <1>4, <1>5, <2>1, <2>2, <2>3 DEF AdminOK
  <2>4. CASE u # Admin BY <1>1, <1>5, <2>1, <2>2, <2>4, NotNil DEF StartInv, AdminOK
  <2> QED BY <2>3, <2>4
<1> QED BY <1>9, <1>10, <1>11, <1>12 DEF StartInv

\* The command line, while the server is down.
LEMMA SetUserStep ==
  ASSUME B!StartupAssumption, StartInv, NEW u \in People, NEW p \in Passwords, NEW a \in BOOLEAN, B!SetUser(u, p, a)
  PROVE  StartInv'
<1>1. run = "down" /\ exists' = TRUE /\ UNCHANGED <<conf, run, first, todo, homed>> BY DEF B!SetUser, B!process
<1>2. users \in [People -> B!UserRecs \cup {Nil}] /\ given \in [People -> ScopeLists] BY DEF StartInv, StartType
<1>3. PICK old : old = IF exists \/ conf.login = "others" THEN users ELSE [users EXCEPT ![Admin] = B!FirstAdmin] OBVIOUS
<1>4. /\ old \in [People -> B!UserRecs \cup {Nil}]
      /\ \A w \in People : users[w] # Nil => old[w] # Nil
  <2>1. B!FirstAdmin \in B!UserRecs /\ B!FirstAdmin.method = "password" BY FirstAdminIs DEF StartInv
  <2> QED BY <1>2, <1>3, <2>1, NotNil
<1>5. PICK new \in B!UserRecs : users' = [old EXCEPT ![u] = new] /\ new.method = "password"
  <2>1. PICK more : more = IF a THEN {"admin"} ELSE {} OBVIOUS
  <2>2. more \in SUBSET {"admin"} BY <2>1
  <2>3. CASE old[u] = Nil
    <3>1. B!UserPerms \cup more \in PermLists BY <2>2 DEF B!UserPerms, PermLists
    <3>2. B!DefaultScopes \in ScopeLists BY DefaultsIs DEF StartInv
    <3>3. PICK plain : plain = B!User(p, B!UserPerms \cup more, "password", B!DefaultScopes) OBVIOUS
    <3>4. plain \in B!UserRecs /\ plain.method = "password"
      <4>1. p \in Secrecy /\ "password" \in Ways BY DEF Secrecy, Ways
      <4> QED BY <3>1, <3>2, <3>3, <4>1, NewUser
    <3>5. users' = [old EXCEPT ![u] = B!Stored(plain, FALSE)]
      BY <1>3, <2>1, <2>3, <3>3 DEF B!SetUser
    <3>6. PICK new : new = B!Stored(plain, FALSE) OBVIOUS
    <3>7. FALSE \in BOOLEAN OBVIOUS
    <3>8. new \in B!UserRecs /\ new.method = "password" BY <3>4, <3>6, <3>7, StoredIs DEF StartInv
    <3> QED BY <3>5, <3>6, <3>8
  <2>4. CASE old[u] # Nil
    <3>1. old[u] \in B!UserRecs /\ old[u].method = "password"
      BY <1>3, <1>4, <2>4 DEF B!SetUser
    <3>2. PICK perms : perms = old[u].perms \cup more OBVIOUS
    <3>3. PICK plain : plain = [old[u] EXCEPT !.pass = p, !.perms = perms, !.version = 1] OBVIOUS
    <3>4. plain \in B!UserRecs /\ plain.method = "password"
      <4>1. perms \in SUBSET {"admin", "modify", "download", "delete"} BY <2>2, <3>1, <3>2, UserIs
      <4> QED BY <3>1, <3>3, <4>1 DEF B!UserRecs
    <3>5. plain = [old[u] EXCEPT !.pass = p, !.perms = @ \cup more, !.version = 1]
      BY <3>1, <3>2, <3>3 DEF B!UserRecs
    <3>6. users' = [old EXCEPT ![u] = B!Stored(plain, FALSE)]
      BY <1>3, <2>1, <2>4, <3>5 DEF B!SetUser
    <3>7. PICK new : new = B!Stored(plain, FALSE) OBVIOUS
    <3>8. FALSE \in BOOLEAN OBVIOUS
    <3>9. new \in B!UserRecs /\ new.method = "password" BY <3>4, <3>7, <3>8, StoredIs DEF StartInv
    <3> QED BY <3>6, <3>7, <3>9
  <2> QED BY <2>3, <2>4
<1>6. users' \in [People -> B!UserRecs \cup {Nil}] BY <1>4, <1>5
<1>7. given' = [w \in People |-> IF users'[w] # users[w] THEN users'[w].scopes ELSE given[w]] BY DEF B!SetUser
<1>8. \A w \in People : users'[w] = Nil => users[w] = Nil BY <1>4, <1>5, NotNil
<1>9. given' \in [People -> ScopeLists]
  <2>1. ASSUME NEW w \in People PROVE given'[w] \in ScopeLists
    <3>1. CASE users'[w] = users[w] BY <1>2, <1>7, <3>1
    <3>2. CASE users'[w] # users[w]
      <4>1. users'[w] \in B!UserRecs BY <1>6, <1>8, <3>2
      <4> QED BY <1>7, <3>2, <4>1, UserIs
    <3> QED BY <3>1, <3>2
  <2> QED BY <1>7, <2>1
<1>10. GivenOK' BY <1>1, <1>7 DEF StartInv, GivenOK
<1>11. StartType' BY <1>1, <1>6, <1>9 DEF StartInv, StartType
<1>12. NewOK' /\ StartOK' /\ HomesOK' BY <1>1 DEF NewOK, StartOK, HomesOK
<1>13. AdminOK' BY <1>1 DEF AdminOK
<1> QED BY <1>10, <1>11, <1>12, <1>13 DEF StartInv

LEMMA StartupStep ==
  ASSUME B!StartupAssumption, StartInv, [B!Next]_B!vars
  PROVE  StartInv'
<1>1. CASE UNCHANGED B!vars
  <2>1. UNCHANGED <<conf, exists, users, run, first, todo, given, homed>> BY <1>1 DEF B!vars
  <2>2. StartType' BY <2>1 DEF StartInv, StartType
  <2>3. NewOK' /\ GivenOK' BY <2>1 DEF StartInv, NewOK, GivenOK
  <2>4. AdminOK' BY <2>1 DEF StartInv, AdminOK, Resets, Restored
  <2>5. HomesOK' BY <2>1 DEF StartInv, HomesOK, AtHome
  <2>6. StartOK'
    <3>1. B!DefaultScopes' = B!DefaultScopes BY <2>1 DEF B!DefaultScopes, B!Defaults, B!Place
    <3> QED BY <2>1, <3>1 DEF StartInv, StartOK, Same, Kept
  <2> QED BY <2>2, <2>3, <2>4, <2>5, <2>6 DEF StartInv
<1>2. ASSUME NEW u \in People, B!Validate(u) \/ B!SignIn(u) \/ B!Delete(u) PROVE StartInv'
  BY <1>2, ValidateStep, SignInStep, DeleteUserStep
<1>3. ASSUME NEW u \in People, NEW f \in B!Gifts, B!SetScopes(u, f) \/ B!Create(u, "password", B!UserPerms, f)
      PROVE  StartInv'
  <2>1. "password" \in Ways BY DEF Ways
  <2> QED BY <1>3, <2>1, SetScopesStep, CreateStep
<1>4. ASSUME NEW u \in People, NEW way \in {"other", Nil}, B!Create(u, way, B!UserPerms, B!NoScopes)
      PROVE  StartInv'
  <2>1. way \in Ways /\ B!NoScopes \in B!Gifts BY DEF Ways, B!Gifts
  <2> QED BY <1>4, <2>1, CreateStep
<1>5. ASSUME NEW u \in People, NEW way \in {"password", "other"}, B!SetProfile(u, way) PROVE StartInv'
  <2>1. way \in Ways BY DEF Ways
  <2> QED BY <1>5, <2>1, SetProfileStep
<1>6. ASSUME NEW u \in People, NEW p \in Passwords, NEW a \in BOOLEAN, B!SetUser(u, p, a) PROVE StartInv'
  BY <1>6, SetUserStep
<1>7. ASSUME NEW u \in People,
             (\E p \in {B!UserPerms, {"modify"}, {"admin", "modify"}} : B!SetPermissions(u, p))
               \/ (\E p \in Passwords : B!SetPassword(u, p))
      PROVE  StartInv'
  BY <1>7, SetStep
<1>8. CASE B!LoseDatabase \/ B!Serve \/ B!Stop \/ \E c \in Configs : B!Configure(c) BY <1>8, DownStep
<1> QED BY <1>1, <1>2, <1>3, <1>6, <1>7, <1>8, <1>4, <1>5, StartStep, SetupStep DEF B!Next

(* A start of the server, complete or cut short and repeated, leaves users where they   *)
(* were in every source that stays, with what they lacked only where it is a default;   *)
(* makes the administrator's account an administrator's again, with the configured       *)
(* password unless it logs in by another way; and who has signed in since is in a        *)
(* directory of their own where sources make them (validateUserInfo, quickSetup,        *)
(* Users.Save, CreateUser, userPutHandler, loginWithChainFsUser).                       *)
THEOREM StartsAreKindAlways == ASSUME B!StartupAssumption PROVE SignInSpec => []StartsAreKind
<1>1. SignInInit => (part = "startup" => StartInv) BY StartInit DEF SignInInit
<1>2. (part = "startup" => StartInv) /\ [SignInNext]_<<part, avars, startupVars>> => (part = "startup" => StartInv)'
  <2> SUFFICES ASSUME part = "startup" => StartInv, [SignInNext]_<<part, avars, startupVars>>, part' = "startup"
               PROVE  StartInv'
    OBVIOUS
  <2>1. part = "startup" /\ [B!Next]_B!vars BY DEF SignInNext, startupVars, B!vars
  <2> QED BY <2>1, StartupStep
<1>3. (part = "startup" => StartInv) => StartsAreKind BY StartsKind DEF StartsAreKind
<1> QED BY <1>1, <1>2, <1>3, PTL DEF SignInSpec
=============================================================================
