------------------------------- MODULE SsoLogin -------------------------------
(***************************************************************************)
(* Single sign-on from acorn.tools: a signed token that lives for a minute   *)
(* becomes a session, once (verifySsoToken, markSsoJtiUsed and               *)
(* chainfsSSOHandler of backend/http/chainfs.go).                            *)
(*                                                                          *)
(* The token is verified, and some time later its jti is put in ssoJtiStore: *)
(* in between, any other login may run and sweep the store.  Signatures are  *)
(* taken for granted: every token here was minted by acorn.tools.            *)
(***************************************************************************)
EXTENDS Naturals, FiniteSets

CONSTANTS
  Logins,   \* request slots of chainfsSSOHandler
  Tokens,   \* the tokens acorn.tools mints, each with a jti of its own
  Users,    \* Azure subs
  Nil,      \* "no value"
  TTL,      \* lifetime of a token
  Grace,    \* how long past its expiry the sweep keeps an entry
  Stall,    \* bound on the time between verifying a token and marking it
  MaxTime   \* bound on the clock

VARIABLES
  now,        \* the clock
  exp, sub,   \* expiry and user of every minted token
  used,       \* ssoJtiStore.used: the expiry of every token marked
  accounts,   \* the users in the database
  pc, tok,    \* per login: its place in the handler, and its token
  seen,       \* per login: when it verified the token
  made        \* history: sessions made of each token by this process

vars == <<now, exp, sub, used, accounts, pc, tok, seen, made>>

ASSUME SsoAssumption ==
  /\ TTL \in Nat /\ Grace \in Nat /\ Stall \in Nat /\ MaxTime \in Nat
  /\ Stall <= Grace
  /\ Nil \notin Nat /\ Nil \notin Tokens /\ Nil \notin Users

Init ==
  /\ now = 0
  /\ exp = [t \in Tokens |-> Nil] /\ sub = [t \in Tokens |-> Nil]
  /\ used = [t \in Tokens |-> Nil]
  /\ accounts \in SUBSET Users
  /\ pc = [l \in Logins |-> "idle"] /\ tok = [l \in Logins |-> Nil]
  /\ seen = [l \in Logins |-> 0]
  /\ made = [t \in Tokens |-> 0]

\* acorn.tools mints a token.
Mint(t, u) ==
  /\ exp[t] = Nil
  /\ exp' = [exp EXCEPT ![t] = now + TTL]
  /\ sub' = [sub EXCEPT ![t] = u]
  /\ UNCHANGED <<now, used, accounts, pc, tok, seen, made>>

Goto(l, place) == pc' = [pc EXCEPT ![l] = place]

-------------------------------------------------------------------------------
\* Mutant: verifySsoToken does not look at exp.
VerifyAnyAge(l, t) ==
  /\ pc[l] = "idle" /\ exp[t] # Nil
  /\ tok' = [tok EXCEPT ![l] = t] /\ seen' = [seen EXCEPT ![l] = now]
  /\ Goto(l, "mark")
  /\ UNCHANGED <<now, exp, sub, used, accounts, made>>

(* verifySsoToken succeeds; a token that fails it changes nothing.            *)
Verify(l, t) ==
  /\ pc[l] = "idle" /\ exp[t] # Nil /\ now < exp[t]
  /\ tok' = [tok EXCEPT ![l] = t] /\ seen' = [seen EXCEPT ![l] = now]
  /\ Goto(l, "mark")
  /\ UNCHANGED <<now, exp, sub, used, accounts, made>>

\* Mutant: the sweep drops every expired entry at once.
SweptAtExpiry == [t \in Tokens |-> IF used[t] # Nil /\ used[t] < now THEN Nil ELSE used[t]]

\* Mutant: no sweep.
SweptNever == used

\* The store without the entries that expired more than Grace ago.
Swept ==
  [t \in Tokens |-> IF used[t] # Nil /\ used[t] + Grace < now THEN Nil ELSE used[t]]

(* markSsoJtiUsed, under the mutex of the store: look up, sweep, insert.      *)
Mark(l) ==
  /\ pc[l] = "mark" /\ used[tok[l]] = Nil
  /\ used' = [Swept EXCEPT ![tok[l]] = exp[tok[l]]]
  /\ Goto(l, "check")
  /\ UNCHANGED <<now, exp, sub, accounts, tok, seen, made>>

\* The login ends without a session: back to the login page, or an error.
End(l) ==
  /\ Goto(l, "idle")
  /\ tok' = [tok EXCEPT ![l] = Nil]
  /\ UNCHANGED <<now, exp, sub, used, accounts, seen, made>>

\* The jti is in the store already.
Replay(l) == pc[l] = "mark" /\ used[tok[l]] # Nil /\ End(l)

(* CheckAcornToolsAccess: the user has a subscription, has none, or nobody    *)
(* can tell; the token is spent in all three cases.                           *)
CheckAccess(l) ==
  /\ pc[l] = "check"
  /\ \/ /\ Goto(l, IF sub[tok[l]] \in accounts THEN "update" ELSE "create")
        /\ UNCHANGED <<now, exp, sub, used, accounts, tok, seen, made>>
     \/ End(l)

(* storage.CreateUser for a user that was not there when the handler looked;  *)
(* the username is unique, so the second of two such logins fails.            *)
CreateUser(l) ==
  /\ pc[l] = "create" /\ sub[tok[l]] \notin accounts
  /\ accounts' = accounts \cup {sub[tok[l]]}
  /\ Goto(l, "session")
  /\ UNCHANGED <<now, exp, sub, used, tok, seen, made>>

CreateUserFails(l) == pc[l] = "create" /\ End(l)

(* store.Users.Update, which looks the user up by its id.  A user deleted and  *)
(* created again meanwhile has another id: that too is UpdateUserFails.        *)
UpdateUser(l) ==
  /\ pc[l] = "update" /\ sub[tok[l]] \in accounts
  /\ Goto(l, "session")
  /\ UNCHANGED <<now, exp, sub, used, accounts, tok, seen, made>>

UpdateUserFails(l) == pc[l] = "update" /\ End(l)

\* generateToken and the session cookie.
Session(l) ==
  /\ pc[l] = "session"
  /\ made' = [made EXCEPT ![tok[l]] = @ + 1]
  /\ Goto(l, "idle") /\ tok' = [tok EXCEPT ![l] = Nil]
  /\ UNCHANGED <<now, exp, sub, used, accounts, seen>>

-------------------------------------------------------------------------------
\* userDeleteHandler.
DeleteUser(u) ==
  /\ u \in accounts
  /\ accounts' = accounts \ {u}
  /\ UNCHANGED <<now, exp, sub, used, pc, tok, seen, made>>

(* Time passes, but no login waits longer than Stall to be marked.            *)
Tick ==
  /\ now < MaxTime
  /\ \A l \in Logins : pc[l] = "mark" => now < seen[l] + Stall
  /\ now' = now + 1
  /\ UNCHANGED <<exp, sub, used, accounts, pc, tok, seen, made>>

(* The container restarts: the store is empty again, the accounts are kept or *)
(* wiped with BoltDB, the tokens are still in the browsers.                   *)
Restart ==
  /\ used' = [t \in Tokens |-> Nil]
  /\ accounts' \in {accounts, {}}
  /\ pc' = [l \in Logins |-> "idle"] /\ tok' = [l \in Logins |-> Nil]
  /\ seen' = [l \in Logins |-> 0]
  /\ made' = [t \in Tokens |-> 0]
  /\ UNCHANGED <<now, exp, sub>>

Login(l) ==
  \/ \E t \in Tokens : Verify(l, t)
  \/ Mark(l) \/ Replay(l)
  \/ CheckAccess(l)
  \/ CreateUser(l) \/ CreateUserFails(l)
  \/ UpdateUser(l) \/ UpdateUserFails(l)
  \/ Session(l)

Next ==
  \/ \E t \in Tokens, u \in Users : Mint(t, u)
  \/ \E l \in Logins : Login(l)
  \/ \E u \in Users : DeleteUser(u)
  \/ Tick \/ Restart

Spec == Init /\ [][Next]_vars

-------------------------------------------------------------------------------
(* Properties *)

Places == {"idle", "mark", "check", "create", "update", "session"}

(* The variables keep their types, and a login holds a minted token.           *)
TypeOK ==
  /\ now \in Nat
  /\ exp \in [Tokens -> Nat \cup {Nil}]
  /\ sub \in [Tokens -> Users \cup {Nil}]
  /\ used \in [Tokens -> Nat \cup {Nil}]
  /\ accounts \subseteq Users
  /\ pc \in [Logins -> Places]
  /\ tok \in [Logins -> Tokens \cup {Nil}]
  /\ seen \in [Logins -> Nat]
  /\ made \in [Tokens -> Nat]
  /\ \A t \in Tokens : exp[t] # Nil => sub[t] \in Users
  /\ \A l \in Logins : pc[l] # "idle" => tok[l] \in Tokens /\ exp[tok[l]] # Nil

(* A token makes one session at most in the life of a process, whatever the    *)
(* sweep drops between a login's look at the expiry and its look at the store. *)
OneSessionPerToken == \A t \in Tokens : made[t] <= 1

(* What makes losing the store at a restart acceptable: no token is redeemed   *)
(* later than its lifetime (and the handler's own delay) after it was minted.  *)
NotAfterExpiry ==
  [][\A l \in Logins :
       pc[l] = "mark" /\ pc'[l] = "check" => now < exp[tok[l]] + Stall]_vars

(* The sweep keeps the store small: a redemption leaves no entry older than     *)
(* Grace in it.                                                                *)
StoreIsSwept ==
  [][\A l \in Logins, t \in Tokens :
       pc[l] = "mark" /\ pc'[l] = "check" /\ used'[t] # Nil => now <= used'[t] + Grace]_vars
===============================================================================
