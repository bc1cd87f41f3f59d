------------------------------- MODULE Accounts -------------------------------
(***************************************************************************)
(* Sessions, API keys, one-time passwords and the profile of a user           *)
(* (backend/http/auth.go, middleware.go, api.go, totp.go, users.go;           *)
(* backend/auth; backend/database/users, storage/bolt/users.go).              *)
(*                                                                          *)
(* A user is a record of BoltDB.  A request works on the copy it read when it  *)
(* was let in; Update writes fields of the copy, each in a transaction of its  *)
(* own.  Which tokens are revoked, which minimal key is whose, and one-time     *)
(* secrets that wait for their first code live in memory only.                *)
(***************************************************************************)
EXTENDS Integers, Sequences, FiniteSets, Functions

CONSTANTS
  Nil,
  Users,
  Tokens,     \* JSON web tokens: sessions and API keys
  Names,      \* names of API keys
  Secrets,    \* one-time password secrets
  Calls,      \* request slots
  LoggedIn,    \* the token each user is logged in with at first
  Casts,      \* bound: <<operations that meet in one behaviour, EnforcedOtp, TotpSecret is set>>
  SameSecond  \* whether two minimal keys may be made in one second

Codes == Secrets \cup {Nil} \* a code is known by the secret it was made from; Nil is a wrong one

Bearing == {"use", "open", "renew", "logout", "create", "minimal", "delete", "generate", "verify"}

\* What VerifyTotpCode saves; the nonce, which only encrypted secrets have, is left out.
SavedFields == <<"secret", "otp">>

\* What is kept of a user, of a token and of a request.
Records == [api : BOOLEAN, keys : [Names -> Tokens \cup {Nil}], secret : Codes, otp : BOOLEAN]
Marks == [live : BOOLEAN, owner : Users \cup {Nil}]
Requests ==
  [op : Bearing \cup {"login", "save"}, token : Tokens \cup {Nil}, user : Users,
   arg : Names \cup Codes \cup {"permissions"},
   pc : {"in", "read", "write", "answer", "update", "guard", "session"},
   snap : Records \cup {Nil}, mine : Records \cup {Nil}, old : Records \cup {Nil},
   new : Records \cup {Nil}, fresh : Tokens \cup {Nil},
   todo : {SavedFields, <<"api", "otp">>, <<"otp">>, <<>>}, late : BOOLEAN]

ASSUME AccountsAssumption ==
  /\ Nil \notin Tokens \cup Users \cup Secrets \cup Records \cup Marks \cup Requests
  /\ Nil # "permissions"
  /\ LoggedIn \in [Users -> Tokens]

VARIABLES
  enforced, \* EnforcedOtp
  sealed,   \* TotpSecret is set: secrets are encrypted
  cast,     \* the operations of this behaviour
  acc,      \* BoltDB: the users
  tok,      \* the tokens made so far: kind, owner named in it, whether still unexpired
  revoked,  \* revokedApiKeyList
  ownerOf,  \* ApiTokenUserCache: the user of a minimal key
  pending,  \* TotpCache: the secret a user was shown last
  second,   \* the minimal keys made in this second
  call,     \* the requests

  \* history
  kept,     \* per user and name, the key its user was told to have
  dropped,  \* keys whose user was told they are deleted
  ended,    \* tokens that were ended by logout or deletion since the start
  barred,   \* users who were told to have no API access since the start
  device,   \* the secret in the app of each user that was confirmed last
  clash     \* users whose record two requests changed at once, or one by halves

avars == <<enforced, sealed, cast, acc, tok, revoked, ownerOf, pending, second, call,
           kept, dropped, ended, barred, device, clash>>

Blank == [api |-> TRUE, keys |-> [n \in Names |-> Nil], secret |-> Nil, otp |-> FALSE]
Init ==
  /\ \E some \in Casts : cast = some[1] /\ enforced = some[2] /\ sealed = some[3]
  /\ acc = [u \in Users |-> Blank]
  /\ tok = [t \in Tokens |-> IF \E u \in Users : LoggedIn[u] = t
                             THEN [live |-> TRUE, owner |-> CHOOSE u \in Users : LoggedIn[u] = t] ELSE Nil]
  /\ revoked = {} /\ second = {}
  /\ ownerOf = [t \in Tokens |-> Nil]
  /\ pending = [u \in Users |-> Nil]
  /\ call = [c \in Calls |-> Nil]
  /\ kept = [u \in Users |-> [n \in Names |-> Nil]]
  /\ dropped = {} /\ ended = {} /\ barred = {} /\ clash = {}
  /\ device = [u \in Users |-> Nil]

deployment == <<enforced, sealed, cast>>
memory == <<tok, revoked, ownerOf, pending, second>>
history == <<kept, dropped, ended, barred, device, clash>>

At(c, pc) == call[c] # Nil /\ call[c].pc = pc
Does(c, op) == call[c] # Nil /\ call[c].op = op
Go(c, pc) == call' = [call EXCEPT ![c].pc = pc]
Leave(c) == call' = [call EXCEPT ![c] = Nil]

-------------------------------------------------------------------------------
(* Who is let in: withUserHelper, withOrWithoutUserHelper                      *)

Holders(t) == {u \in Users : \E n \in Names : acc[u].keys[n] = t}

\* getUserFromApiToken, for a token that names nobody.
Owners(t) == IF tok[t].owner # Nil THEN {tok[t].owner}
             ELSE IF ownerOf[t] # Nil THEN {ownerOf[t]}
             ELSE Holders(t)

\* The token is ours, has not expired and was not revoked.
Passes(t) == tok[t] # Nil /\ tok[t].live /\ t \notin revoked

\* Mutant: before the revocation check was added to extractUserFromExpiredToken.
FallbackUnchecked(t) == tok[t] # Nil /\ tok[t].live /\ tok[t].owner # Nil

\* extractUserFromExpiredToken, after withUserHelper has refused.
Fallback(t) == Passes(t) /\ tok[t].owner # Nil

\* Endpoints that also serve visitors try the fallback.
LetsIn(op, t) == Passes(t) \/ (op \in {"open", "logout"} /\ Fallback(t))

Request(op, t, u, arg) ==
  [op |-> op, token |-> t, user |-> u, arg |-> arg, pc |-> "in", snap |-> acc[u], mine |-> Nil,
   old |-> Nil, new |-> Nil, fresh |-> Nil, todo |-> <<>>, late |-> t \in ended]

\* A request with token t is let in as user u, whose record it reads.
Enter(c, op, t, u, arg) ==
  /\ call[c] = Nil /\ op \in cast \cap Bearing
  /\ tok[t] # Nil /\ LetsIn(op, t) /\ u \in Owners(t)
  /\ call' = [call EXCEPT ![c] = Request(op, t, u, arg)]
  /\ ownerOf' = IF tok[t].owner = Nil THEN [ownerOf EXCEPT ![t] = u] ELSE ownerOf
  /\ UNCHANGED <<deployment, acc, tok, revoked, pending, second, history>>

\* userWithoutOTPhelper: name and password are enough for a user without a secret.  (With
\* one, this is Login and what follows it.)
EnterByPassword(c, op, u, code) ==
  /\ call[c] = Nil /\ op \in cast \cap {"generate", "verify"}
  /\ acc[u].secret = Nil
  /\ call' = [call EXCEPT ![c] = Request(op, Nil, u, code)]
  /\ UNCHANGED <<deployment, acc, memory, history>>

\* Any other handler, or one that refuses: nothing of an account changes.
Finish(c) ==
  /\ At(c, "in") /\ (Does(c, "use") \/ Does(c, "open"))
  /\ Leave(c)
  /\ UNCHANGED <<deployment, acc, memory, history>>

\* makeSignedTokenAPI: a token that is different from all others, unless it is a
\* minimal one, which says no more than when it was made and how long it lasts.
Fresh(t, kind) == tok[t] = Nil \/ (SameSecond /\ kind = "minimal" /\ t \in second)

Made(t, kind, u) ==
  /\ tok' = [tok EXCEPT ![t] = [live |-> TRUE, owner |-> IF kind = "minimal" THEN Nil ELSE u]]
  /\ second' = IF kind = "minimal" THEN second \cup {t} ELSE second

\* printToken, for renew and at the end of a login.
PrintToken(c, t) ==
  /\ (At(c, "in") /\ Does(c, "renew")) \/ At(c, "session")
  /\ Fresh(t, "web") /\ Made(t, "web", call[c].user)
  /\ Leave(c)
  /\ UNCHANGED <<deployment, acc, revoked, ownerOf, pending, history>>

\* Mutant: only the cookies are cleared.
LogoutCookiesOnly(c) ==
  /\ At(c, "in") /\ Does(c, "logout")
  /\ ended' = ended \cup {call[c].token}
  /\ Leave(c)
  /\ UNCHANGED <<deployment, acc, memory, kept, dropped, barred, device, clash>>

\* logoutHandler: the answer leaves when the handler, its deferred call included, is done.
Logout(c) ==
  /\ At(c, "in") /\ Does(c, "logout")
  /\ revoked' = revoked \cup {call[c].token}
  /\ ended' = ended \cup {call[c].token}
  /\ Leave(c)
  /\ UNCHANGED <<deployment, acc, tok, ownerOf, pending, second, kept, dropped, barred, device, clash>>

-------------------------------------------------------------------------------
(* API keys                                                                    *)

\* createApiKeyHandler and makeSignedTokenAPI: the name is looked up in the copy.
MakeKey(c, t) ==
  /\ At(c, "in") /\ (Does(c, "create") \/ Does(c, "minimal"))
  /\ call[c].snap.api /\ call[c].snap.keys[call[c].arg] = Nil
  /\ Fresh(t, call[c].op) /\ Made(t, call[c].op, call[c].user)
  /\ call' = [call EXCEPT ![c].pc = "read", ![c].fresh = t]
  /\ UNCHANGED <<deployment, acc, revoked, ownerOf, pending, history>>

\* deleteApiKeyHandler
DropKey(c) ==
  /\ At(c, "in") /\ Does(c, "delete")
  /\ call[c].snap.api /\ call[c].snap.keys[call[c].arg] # Nil
  /\ Go(c, "read")
  /\ UNCHANGED <<deployment, acc, memory, history>>

\* No permission, a name that is taken, a key that is not there.
RefuseKey(c) ==
  /\ At(c, "in") /\ call[c].op \in {"create", "minimal", "delete"}
  /\ ~call[c].snap.api \/ (call[c].snap.keys[call[c].arg] = Nil) = Does(c, "delete")
  /\ Leave(c)
  /\ UNCHANGED <<deployment, acc, memory, history>>

\* Mutant: the copy of the request is good enough.
ReadKeysNot(c) ==
  /\ At(c, "read")
  /\ call' = [call EXCEPT ![c].pc = "write", ![c].mine = call[c].snap]
  /\ UNCHANGED <<deployment, acc, memory, history>>

\* AddApiKey, DeleteApiKey: the record is read again.
ReadKeys(c) ==
  /\ At(c, "read")
  /\ call' = [call EXCEPT ![c].pc = "write", ![c].mine = acc[call[c].user]]
  /\ UNCHANGED <<deployment, acc, memory, history>>

\* Another request has read the keys and not yet written them, or what this one was let
\* in for is no longer so.
Overtaken(c) ==
  LET u == call[c].user n == call[c].arg IN
    \/ \E d \in Calls \ {c} : At(d, "write") /\ call[d].user = u
    \/ call[c].snap.keys[n] # acc[u].keys[n]
    \/ ~acc[u].api

\* ... and written with all its keys (Update); for a user who must use one-time
\* passwords and does not, Update fails.
WriteKeys(c) ==
  LET u == call[c].user IN
  /\ At(c, "write")
  /\ IF enforced /\ ~call[c].mine.otp
     THEN Leave(c) /\ UNCHANGED <<acc, kept, clash>>
     ELSE /\ acc' = [acc EXCEPT ![u].keys = [call[c].mine.keys EXCEPT ![call[c].arg] = call[c].fresh]]
          /\ clash' = IF Overtaken(c) THEN clash \cup {u} ELSE clash
          /\ kept' = IF Does(c, "delete") THEN [kept EXCEPT ![u][call[c].arg] = Nil] ELSE kept
          /\ Go(c, "answer")
  /\ UNCHANGED <<deployment, memory, dropped, ended, barred, device>>

\* The caller is told; a deleted key is revoked first.
AnswerKey(c) ==
  LET u == call[c].user n == call[c].arg IN
  /\ At(c, "answer")
  /\ IF Does(c, "delete")
     THEN /\ revoked' = revoked \cup {call[c].snap.keys[n]}
          /\ ended' = ended \cup {call[c].snap.keys[n]}
          /\ dropped' = dropped \cup {call[c].snap.keys[n]}
          /\ UNCHANGED <<kept, clash>>
     ELSE /\ kept' = [kept EXCEPT ![u][n] = call[c].fresh]
          /\ clash' = IF acc[u].keys[n] # call[c].fresh THEN clash \cup {u} ELSE clash
          /\ UNCHANGED <<revoked, ended, dropped>>
  /\ Leave(c)
  /\ UNCHANGED <<deployment, acc, tok, ownerOf, pending, second, barred, device>>

-------------------------------------------------------------------------------
(* One-time passwords                                                          *)

\* GenerateOtpForUser, for a caller with a token, or with name and password.
Generate(c, s) ==
  /\ At(c, "in") /\ Does(c, "generate")
  /\ pending' = [pending EXCEPT ![call[c].user] = s]
  /\ Leave(c)
  /\ UNCHANGED <<deployment, acc, tok, revoked, ownerOf, second, history>>

\* VerifyTotpCode: the secret shown last counts, as long as it is remembered.
Wanted(c) == IF pending[call[c].user] # Nil THEN pending[call[c].user] ELSE call[c].snap.secret

\* An encrypted secret is decrypted before the code is made of it; the user's app has
\* the text it was shown, which is the encrypted one.
Right(c) == Wanted(c) # Nil /\ call[c].arg = Wanted(c) /\ ~sealed

\* Mutant: a secret that was confirmed before stays.
ConfirmedBefore(c) == IF call[c].snap.secret # Nil THEN call[c].snap.secret ELSE Wanted(c)

\* The secret that is saved.
Confirmed(c) == Wanted(c)

\* The code is right: secret and flag are to be saved, for Verify and Login alike.
CodeRight(c) ==
  /\ At(c, "in") /\ (Does(c, "verify") \/ (Does(c, "login") /\ call[c].snap.secret # Nil))
  /\ Right(c)
  /\ call' = [call EXCEPT ![c].pc = "update", ![c].todo = SavedFields,
                          ![c].new = [call[c].snap EXCEPT !.secret = Confirmed(c), !.otp = TRUE]]
  /\ UNCHANGED <<deployment, acc, memory, history>>

\* A wrong code; or a user who must use one-time passwords has none yet.
Refuse(c) ==
  /\ At(c, "in") /\ call[c].op \in {"verify", "login"}
  /\ \/ ~Right(c) /\ (Does(c, "verify") \/ call[c].snap.secret # Nil)
     \/ Does(c, "login") /\ call[c].snap.secret = Nil /\ enforced
  /\ Leave(c)
  /\ UNCHANGED <<deployment, acc, memory, history>>

\* JSONAuth.Auth: the password is right; the record is read.
Login(c, u, code) ==
  /\ call[c] = Nil /\ "login" \in cast
  /\ call' = [call EXCEPT ![c] = Request("login", Nil, u, code)]
  /\ UNCHANGED <<deployment, acc, memory, history>>

\* No code is asked of this user.
LoginPlain(c) ==
  /\ At(c, "in") /\ Does(c, "login") /\ call[c].snap.secret = Nil /\ ~enforced
  /\ Go(c, "session")
  /\ UNCHANGED <<deployment, acc, memory, history>>

-------------------------------------------------------------------------------
(* The profile: userPutHandler and Update                                      *)

\* A user saves a profile, which may come from a page that was opened before the last
\* change; an administrator may change permissions with it.
Save(c, u, otp, api, fields) ==
  /\ call[c] = Nil
  /\ call' = [call EXCEPT ![c] =
       [Request("save", Nil, u, IF "api" \in Range(fields) THEN "permissions" ELSE Nil) EXCEPT
          !.pc = "guard", !.snap = Nil, !.todo = fields, !.new = [Blank EXCEPT !.otp = otp, !.api = api]]]
  /\ UNCHANGED <<deployment, acc, memory, history>>

\* Mutant: Update looks at the record, not at what is to be written.
AllowedByRecord(c) == ~enforced \/ acc[call[c].user].otp

\* EnforcedOtp: a user who has to use one-time passwords cannot be saved without.
Allowed(c) == ~enforced \/ call[c].new.otp

\* Update reads the record as it is.
ReadOld(c) ==
  /\ At(c, "guard")
  /\ IF Allowed(c)
     THEN call' = [call EXCEPT ![c].pc = "update", ![c].old = acc[call[c].user]]
     ELSE Leave(c)
  /\ UNCHANGED <<deployment, acc, memory, history>>

\* One field, one transaction.  Switching one-time passwords off clears the secret.
WriteField(c) ==
  LET u == call[c].user r == call[c].new f == Head(call[c].todo) IN
  /\ At(c, "update") /\ call[c].todo # <<>>
  /\ acc' = [acc EXCEPT ![u] = CASE f = "secret" -> [@ EXCEPT !.secret = r.secret]
                                 [] f = "otp" -> IF r.otp THEN [@ EXCEPT !.otp = TRUE]
                                                 ELSE [@ EXCEPT !.secret = Nil]
                                 [] f = "api" -> [@ EXCEPT !.api = r.api]]
  /\ call' = [call EXCEPT ![c].todo = Tail(@)]
  /\ clash' = IF \E d \in Calls \ {c} : At(d, "update") /\ call[d].user = u THEN clash \cup {u} ELSE clash
  /\ UNCHANGED <<deployment, memory, kept, dropped, ended, barred, device>>

\* A save that takes the permission to have keys away.
Withdraws(c) == call[c].arg = "permissions" /\ call[c].old.api /\ ~call[c].new.api

\* Mutant: the keys are those of the profile that was sent.
LostSent(c) == IF Withdraws(c) THEN Range(call[c].new.keys) \ {Nil} ELSE {}

\* The keys its user loses.
Lost(c) == IF Withdraws(c) THEN Range(call[c].old.keys) \ {Nil} ELSE {}

\* All fields are written; keys are revoked; the caller is told, or the login goes on.
Updated(c) ==
  LET u == call[c].user IN
  /\ At(c, "update") /\ call[c].todo = <<>>
  /\ IF Does(c, "save")
     THEN /\ revoked' = revoked \cup Lost(c)
          /\ barred' = IF call[c].arg # "permissions" THEN barred
                       ELSE IF Withdraws(c) THEN barred \cup {u}
                       ELSE IF call[c].new.api THEN barred \ {u} ELSE barred
          /\ clash' = IF acc[u].keys # call[c].old.keys THEN clash \cup {u} ELSE clash
          /\ UNCHANGED device
     ELSE /\ device' = [device EXCEPT ![u] = call[c].arg]
          /\ UNCHANGED <<revoked, barred, clash>>
  /\ IF Does(c, "login") THEN Go(c, "session") ELSE Leave(c)
  /\ UNCHANGED <<deployment, acc, tok, ownerOf, pending, second, kept, dropped, ended>>

-------------------------------------------------------------------------------
(* The environment                                                             *)

\* A token or a cached entry expires; a second goes by.
Expire(t) ==
  /\ "expire" \in cast /\ tok[t] # Nil /\ tok[t].live
  /\ tok' = [tok EXCEPT ![t].live = FALSE]
  /\ UNCHANGED <<deployment, acc, revoked, ownerOf, pending, second, call, history>>

Forget ==
  /\ ownerOf' = [t \in Tokens |-> Nil]
  /\ pending' = [u \in Users |-> Nil]
  /\ second' = {}
  /\ <<ownerOf', pending', second'>> # <<ownerOf, pending, second>>
  /\ UNCHANGED <<deployment, acc, tok, revoked, call, history>>

\* The process ends and starts again.  A save that was under way may be half done.
Restart ==
  /\ "restart" \in cast
  /\ revoked' = {} /\ second' = {}
  /\ ownerOf' = [t \in Tokens |-> Nil]
  /\ pending' = [u \in Users |-> Nil]
  /\ call' = [c \in Calls |-> Nil]
  /\ ended' = {} /\ barred' = {}
  /\ clash' = clash \cup {call[c].user : c \in {d \in Calls : At(d, "update")}}
  /\ UNCHANGED <<deployment, acc, tok, kept, dropped, device>>

Step(c) ==
  \/ \E op \in cast, t \in Tokens, u \in Users :
       \E arg \in CASE op \in {"create", "minimal", "delete"} -> Names
                    [] op = "verify" -> Codes
                    [] OTHER -> {Nil} : Enter(c, op, t, u, arg)
  \/ \E u \in Users, code \in Codes : EnterByPassword(c, "generate", u, Nil) \/ EnterByPassword(c, "verify", u, code)
  \/ Finish(c) \/ Logout(c)
  \/ \E t \in Tokens : PrintToken(c, t) \/ MakeKey(c, t)
  \/ DropKey(c) \/ RefuseKey(c) \/ ReadKeys(c) \/ WriteKeys(c) \/ AnswerKey(c)
  \/ \E s \in Secrets : Generate(c, s)
  \/ CodeRight(c) \/ Refuse(c) \/ LoginPlain(c)
  \/ \E u \in Users, code \in Codes : Login(c, u, code)
  \/ \E u \in Users, api \in BOOLEAN : "permit" \in cast /\ Save(c, u, acc[u].secret # Nil, api, <<"api", "otp">>)
  \/ \E u \in Users, otp \in BOOLEAN : "profile" \in cast /\ Save(c, u, otp, acc[u].api, <<"otp">>)
  \/ ReadOld(c) \/ WriteField(c) \/ Updated(c)

Next == (\E c \in Calls : Step(c)) \/ (\E t \in Tokens : Expire(t)) \/ Forget \/ Restart

Spec == Init /\ [][Next]_avars

-------------------------------------------------------------------------------
(* Properties.  A user is in clash when two requests changed the record at once: *)
(* what is known to be lost then is listed in the README.                      *)

\* No request is writing the record of u.
Quiet(u) == \A c \in Calls : call[c] # Nil /\ call[c].user = u => call[c].pc # "update"

(* The variables keep their types.                                            *)
AccountsTyped ==
  /\ acc \in [Users -> Records]
  /\ tok \in [Tokens -> Marks \cup {Nil}]
  /\ revoked \subseteq Tokens /\ ended \subseteq revoked /\ second \subseteq Tokens
  /\ ownerOf \in [Tokens -> Users \cup {Nil}] /\ pending \in [Users -> Codes]
  /\ call \in [Calls -> Requests \cup {Nil}]

(* A token that was logged out or deleted opens nothing any more, on no endpoint, *)
(* until the process ends (middleware.go:186).                                 *)
NotReadmitted == \A c \in Calls : call[c] # Nil => ~call[c].late

(* A key a user was given and has not asked to delete is in the list, so that it can be   *)
(* deleted and is revoked with the permission; a key that was deleted does not    *)
(* come back, not even after a restart.                                        *)
KeysAsTold ==
  \A u \in Users \ clash :
    /\ \A n \in Names : kept[u][n] # Nil => acc[u].keys[n] = kept[u][n]
    /\ Range(acc[u].keys) \cap dropped = {}

(* When a user has lost the permission to have keys, every key in the list is     *)
(* revoked, those that were made since the page was opened included.            *)
KeysBarred ==
  \A u \in barred \ clash : Quiet(u) => Range(acc[u].keys) \ {Nil} \subseteq revoked

(* The secret in the record is the one the app of the user has: nobody is locked   *)
(* out, though secret and flag are saved one by one and a secret that is not       *)
(* confirmed yet takes precedence over the one that is.                         *)
CodesMatch ==
  \A u \in Users \ clash : Quiet(u) /\ acc[u].secret # Nil => device[u] = acc[u].secret

(* Where one-time passwords are enforced, a user who has them keeps them, however   *)
(* old the page is that a profile is saved from.                                *)
OtpKept ==
  enforced => \A u \in Users \ clash : Quiet(u) /\ device[u] # Nil => acc[u].secret # Nil

(* A key a user was given stays in the list until it is deleted, a deleted one    *)
(* stays deleted, and all of the list is revoked when the user loses the           *)
(* permission to have keys: whatever is created and deleted meanwhile.           *)
KeysCount == KeysAsTold /\ KeysBarred

(* The secret in the record is the one in the user's app, and, where one-time      *)
(* passwords are enforced, it stays there: in whatever order pages are saved.     *)
CodesCount == CodesMatch /\ OtpKept
===============================================================================
