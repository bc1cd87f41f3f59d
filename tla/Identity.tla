------------------------------- MODULE Identity -------------------------------
(***************************************************************************)
(* Logging in through an identity provider, and the cookies of it             *)
(* (backend/http/chainfs.go up to the SSO handler, oidc.go, the cookie and     *)
(* proxy parts of auth.go).                                                   *)
(*                                                                          *)
(* Every login goes through one browser: the tabs share its cookies, and a    *)
(* login that starts in one tab replaces what another tab left there.  The     *)
(* session cookie has two forms, which a browser keeps side by side.          *)
(***************************************************************************)
EXTENDS Integers

CONSTANTS
  Nil,
  People,    \* who may sign in; the sub of their tokens, and their username
  Tabs,
  Deployments, \* the sets of ways to log in that may be enabled together, of
             \* "chainfs", "oidc", "password", "proxy"
  Claimed,   \* those whose token has the admin claim or group
  Before     \* whether the browser may hold a cookie of an earlier release

VARIABLES
  on,     \* the ways to log in of this deployment
  jar,    \* the cookies of attempts: chainfs_state_nonce with chainfs_pkce_verifier,
          \* chainfs_silent, oidc_state_nonce.  A nonce is the tab whose attempt set it: the
          \* next attempt of that kind in the tab sets it anew, so the tab tells them apart
  sess,   \* filebrowser_quantum_jwt, in both its forms
  first,  \* the form the browser sends first, which is the one it has had for longer
  b2c,    \* who has a session with the provider
  db,     \* users: how they log in, whether they are administrators
  flow,   \* per tab, its login

  \* history
  out,    \* signed out, and not in again
  latest  \* whether the last session cookie was set by setSessionCookie

ivars == <<on, jar, sess, first, b2c, db, flow, out, latest>>

Forms == {"host", "legacy"} \* host-only with Path=BaseURL; Domain=host with Path=/ and an expiry
Redirecting == {"chainfs", "oidc"}

\* Nil is none of the values it stands beside.
IdentityAssumption ==
  /\ Nil \notin People \cup Forms \cup {"login_required", "other", "cancelled"}
  /\ Nil \notin [who : People, stale : BOOLEAN]
  /\ Nil \notin [method : {"chainfs", "oidc", "proxy"}, admin : BOOLEAN]

Still == [pc |-> "idle", kind |-> Nil, silent |-> FALSE, who |-> Nil, err |-> Nil, admin |-> FALSE]
Cookie(p) == [who |-> p, stale |-> FALSE]

Init ==
  /\ on \in Deployments
  /\ jar = [nonce |-> Nil, silent |-> FALSE, oidc |-> Nil]
  /\ b2c \in People \cup {Nil}
  /\ db = [p \in People |-> Nil]
  /\ flow = [t \in Tabs |-> Still]
  /\ \E old \in IF Before THEN BOOLEAN ELSE {FALSE} : \E p \in People :
       /\ sess = [f \in Forms |-> IF old /\ f = "legacy" THEN Cookie(p) ELSE Nil]
       /\ first = IF old THEN "legacy" ELSE Nil
  /\ out = FALSE /\ latest = TRUE

At(t, pc) == flow[t].pc = pc
End(t) == flow' = [flow EXCEPT ![t] = Still]

-------------------------------------------------------------------------------
(* The session cookie                                                          *)

\* The token a request carries: extractToken takes the first cookie of the name.
Sent == sess[first]

\* A cookie of one form is set: what else there is becomes outdated, but stays first.
SetForm(f, p, others) ==
  /\ sess' = [g \in Forms |-> IF g = f THEN Cookie(p)
                              ELSE IF g \in others /\ sess[g] # Nil THEN [sess[g] EXCEPT !.stale = TRUE]
                              ELSE Nil]
  /\ first' = IF first \in others THEN first ELSE f
  /\ out' = FALSE

\* Mutant: the legacy form is left in the browser.
SetBesides(p) == SetForm("host", p, {"legacy"}) /\ latest' = TRUE

\* setSessionCookie deletes the legacy form.
SetSessionCookie(p) == SetForm("host", p, {}) /\ latest' = TRUE

\* oidcCallbackHandler sets a cookie of its own, with a domain and an expiry.
SetOidcCookie(p) == SetForm("legacy", p, {"host"}) /\ latest' = FALSE

\* Only the form without an expiry goes.
DropHost ==
  /\ sess' = [sess EXCEPT !["host"] = Nil]
  /\ first' = IF sess["legacy"] # Nil THEN "legacy" ELSE Nil

\* Mutant: a deletion of one form.
ClearHostOnly == DropHost

\* clearSessionCookies
ClearSessionCookies == sess' = [f \in Forms |-> Nil] /\ first' = Nil

\* logoutHandler; sloHandler, framed by the hub.  Only the former ends the session with
\* the provider, to which it sends the browser.
Logout(p) ==
  /\ ClearSessionCookies
  /\ b2c' = p
  /\ out' = TRUE
  /\ UNCHANGED <<on, jar, db, flow, latest>>

\* loginHandler: name and password were right.
PasswordLogin(p) ==
  /\ "password" \in on
  /\ SetSessionCookie(p)
  /\ UNCHANGED <<on, jar, b2c, db, flow>>

\* renewHandler: another token for whoever the one that was sent belongs to.
Renew ==
  /\ first # Nil
  /\ SetSessionCookie(Sent.who)
  /\ UNCHANGED <<on, jar, b2c, db, flow>>

\* The browser is closed: cookies without an expiry, and all tabs, are gone.
CloseBrowser ==
  /\ DropHost
  /\ flow' = [t \in Tabs |-> Still]
  /\ b2c' = Nil
  /\ UNCHANGED <<on, jar, db, out, latest>>

-------------------------------------------------------------------------------
(* The way to the provider and back                                            *)

\* chainfsLoginHandler, oidcLoginHandler: the browser gets the cookies of this attempt and goes.
Leaves(t, kind, silent) ==
  /\ jar' = IF kind = "oidc" THEN [jar EXCEPT !.oidc = t]
            ELSE [jar EXCEPT !.nonce = t, !.silent = silent]
  /\ flow' = [flow EXCEPT ![t] = [Still EXCEPT !.pc = "provider", !.kind = kind, !.silent = silent]]

\* A click on Login, or the silent attempt after an SSO handover.
Start(t, kind, silent) ==
  /\ At(t, "idle") /\ kind \in on
  /\ silent => kind = "chainfs"
  /\ Leaves(t, kind, silent)
  /\ UNCHANGED <<on, sess, first, b2c, db, out, latest>>

\* With prompt=none the provider answers at once.
AnswersSilently(t) ==
  /\ At(t, "provider") /\ flow[t].silent
  /\ \E err \in {"login_required", "other", Nil} :
       /\ (err = Nil) => b2c # Nil
       /\ (err = "login_required") => b2c = Nil
       /\ flow' = [flow EXCEPT ![t].pc = "back", ![t].err = err, ![t].who = IF err = Nil THEN b2c ELSE Nil]
  /\ UNCHANGED <<on, jar, sess, first, b2c, db, out, latest>>

\* Else a person fills in the form, or cancels.
Answers(t, p) ==
  /\ At(t, "provider") /\ ~flow[t].silent
  /\ \/ /\ flow' = [flow EXCEPT ![t].pc = "back", ![t].who = p]
        /\ b2c' = p
     \/ /\ flow' = [flow EXCEPT ![t].pc = "back", ![t].err = "cancelled"]
        /\ UNCHANGED b2c
  /\ UNCHANGED <<on, jar, sess, first, db, out, latest>>

\* Mutant: the second attempt is as silent as the first.
FallBackSilently(t) == Leaves(t, "chainfs", TRUE)

\* The silent attempt is repeated with a form.
FallBack(t) == Leaves(t, "chainfs", FALSE)

\* chainfsCallbackHandler with an error.
CallbackError(t) ==
  /\ At(t, "back") /\ flow[t].kind = "chainfs" /\ flow[t].err # Nil
  /\ IF jar.silent /\ flow[t].err = "login_required"
     THEN FallBack(t)
     ELSE End(t) /\ jar' = [jar EXCEPT !.silent = FALSE]
  /\ UNCHANGED <<on, sess, first, b2c, db, out, latest>>

\* chainfsCallbackHandler with a code: the state must be that of the nonce cookie, and the
\* exchange must succeed.  The verifier cookie is set and cleared together with the nonce.
Callback(t) ==
  /\ At(t, "back") /\ flow[t].kind = "chainfs" /\ flow[t].err = Nil
  /\ jar' = [jar EXCEPT !.silent = FALSE, !.nonce = IF @ = t THEN Nil ELSE @]
  /\ \/ End(t)
     \/ jar.nonce = t /\ flow' = [flow EXCEPT ![t].pc = "check"]
  /\ UNCHANGED <<on, sess, first, b2c, db, out, latest>>

\* oidcCallbackHandler
OidcCallback(t) ==
  /\ At(t, "back") /\ flow[t].kind = "oidc"
  /\ IF flow[t].err # Nil \/ jar.oidc # t
     THEN End(t) /\ UNCHANGED jar
     ELSE /\ jar' = [jar EXCEPT !.oidc = Nil]
          /\ flow' = [flow EXCEPT ![t].pc = "write", ![t].admin = flow[t].who \in Claimed] \/ End(t)
  /\ UNCHANGED <<on, sess, first, b2c, db, out, latest>>

-------------------------------------------------------------------------------
(* The account                                                                 *)

IsAdmin(p) == db[p] # Nil /\ db[p].admin

\* loginWithChainFsUser: may this person in?  acorn.tools is asked, which may say no or
\* not be reachable; administrators get in without a subscription.
Check(t) ==
  LET p == flow[t].who admin == p \in Claimed \/ IsAdmin(p) IN
  /\ At(t, "check")
  /\ \/ flow' = [flow EXCEPT ![t].pc = "write", ![t].admin = admin]
     \/ End(t)
  /\ UNCHANGED <<on, jar, sess, first, b2c, db, out, latest>>

\* ... get or create, update tokens and administrator status, set the cookie.
ChainFsLogin(t) ==
  LET p == flow[t].who IN
  /\ At(t, "write") /\ flow[t].kind = "chainfs"
  /\ db' = [db EXCEPT ![p] = [method |-> "chainfs", admin |-> flow[t].admin \/ IsAdmin(p)]]
  /\ SetSessionCookie(p)
  /\ End(t)
  /\ UNCHANGED <<on, jar, b2c>>

\* The account may not be created, or cannot be saved.
LoginFails(t) ==
  /\ At(t, "write")
  /\ End(t)
  /\ UNCHANGED <<on, jar, sess, first, b2c, db, out, latest>>

\* loginWithOidcUser: the permission is updated before the login method is looked at.
OidcLogin(t) ==
  LET p == flow[t].who
      now == IF db[p] = Nil THEN [method |-> "oidc", admin |-> flow[t].admin]
             ELSE [db[p] EXCEPT !.admin = flow[t].admin] IN
  /\ At(t, "write") /\ flow[t].kind = "oidc"
  /\ db' = [db EXCEPT ![p] = now]
  /\ IF now.method = "oidc" THEN SetOidcCookie(p) ELSE UNCHANGED <<sess, first, out, latest>>
  /\ End(t)
  /\ UNCHANGED <<on, jar, b2c>>

\* setupProxyUser, for a request that carries the proxy's header: no cookie is set.
ProxyRequest(p) ==
  /\ "proxy" \in on
  /\ db[p] # Nil => db[p].method = "proxy"
  /\ db' = [db EXCEPT ![p] = [method |-> "proxy", admin |-> IsAdmin(p) \/ p \in Claimed]]
  /\ UNCHANGED <<on, jar, sess, first, b2c, flow, out, latest>>

\* An administrator deletes a user, or changes the permission.
Administer(p) ==
  /\ db[p] # Nil
  /\ db' \in {[db EXCEPT ![p] = Nil], [db EXCEPT ![p].admin = ~@]}
  /\ UNCHANGED <<on, jar, sess, first, b2c, flow, out, latest>>

Arrive(t) == CallbackError(t) \/ Callback(t) \/ OidcCallback(t)
Serve(t) == Check(t) \/ ChainFsLogin(t) \/ OidcLogin(t) \/ LoginFails(t)

Next ==
  \/ \E t \in Tabs :
       \/ \E kind \in Redirecting, silent \in BOOLEAN : Start(t, kind, silent)
       \/ AnswersSilently(t)
       \/ \E p \in People : Answers(t, p)
       \/ Arrive(t) \/ Serve(t)
  \/ \E p \in People : PasswordLogin(p) \/ ProxyRequest(p) \/ Administer(p)
  \/ \E p \in {b2c, Nil} : Logout(p)
  \/ Renew
  \/ CloseBrowser

(* The provider answers prompt=none, browsers follow redirects, handlers finish. *)
(* Nobody has to fill in a form.                                               *)
Fairness == \A t \in Tabs : WF_ivars(AnswersSilently(t)) /\ WF_ivars(Arrive(t)) /\ WF_ivars(Serve(t))

Spec == Init /\ [][Next]_ivars
FairSpec == Spec /\ Fairness

-------------------------------------------------------------------------------
(* Properties                                                                 *)

(* The variables keep their types.                                            *)
IdentityTyped ==
  /\ sess \in [Forms -> [who : People, stale : BOOLEAN] \cup {Nil}]
  /\ first \in Forms \cup {Nil} /\ (first = Nil <=> \A f \in Forms : sess[f] = Nil)
  /\ first # Nil => sess[first] # Nil
  /\ db \in [People -> [method : {"chainfs", "oidc", "proxy"}, admin : BOOLEAN] \cup {Nil}]
  /\ \A t \in Tabs : flow[t].pc \in {"check", "write"} => flow[t].who \in People

(* After a sign-out the browser holds no session in any form, whichever ways of    *)
(* logging in, in whichever tabs, had put it there.                             *)
SignedOut == out => first = Nil

(* The server reads the session that was set last, also in a browser that still    *)
(* holds a cookie of an earlier release.  (OIDC does not set its cookie this way.) *)
NewestCounts == latest /\ first # Nil => ~Sent.stale

(* Both: whichever form and whichever way of logging in there was before.          *)
CookiesTell == SignedOut /\ NewestCounts

(* A silent attempt comes to an end: the person is in, back where they were, or     *)
(* in front of a form.  Tabs that share cookies never bounce between Drive and     *)
(* the provider for ever.                                                       *)
SilentSettles == \A t \in Tabs : flow[t].silent ~> ~flow[t].silent
===============================================================================
