-------------------------------- MODULE Browser --------------------------------
(***************************************************************************)
(* Two components side by side: the events that reach the tabs of a browser   *)
(* (Events), and the logins that go through them (Identity).  They share no    *)
(* state here: a behaviour belongs to one of them, and leaves the variables of  *)
(* the other alone.                                                          *)
(***************************************************************************)
EXTENDS Events

CONSTANTS People, Tabs, Deployments, Claimed, Before
VARIABLES part, on, jar, sess, first, b2c, db, flow, out, latest

I == INSTANCE Identity

ivars == <<on, jar, sess, first, b2c, db, flow, out, latest>>

NoLogins ==
  /\ on = Nil /\ jar = Nil /\ sess = Nil /\ first = Nil /\ b2c = Nil
  /\ db = Nil /\ flow = Nil /\ out = Nil /\ latest = Nil

BrowserInit ==
  \/ part = "events" /\ Init /\ NoLogins
  \/ part = "logins" /\ Init /\ I!Init

BrowserNext ==
  \/ part = "events" /\ Next /\ UNCHANGED <<part, ivars>>
  \/ part = "logins" /\ I!Next /\ UNCHANGED <<part, evars>>

browserVars == <<part, evars, ivars>>

BrowserSpec == BrowserInit /\ [][BrowserNext]_browserVars

\* What Events and Identity assume, each for its own behaviours.
BrowserFairness ==
  /\ WF_evars(part = "events" /\ fate = "up" /\ Router)
  /\ \A m \in Msgs : SF_evars(part = "events" /\ fate = "up" /\ Queue(m))
  /\ \A t \in Tabs : /\ WF_ivars(part = "logins" /\ I!AnswersSilently(t))
                     /\ WF_ivars(part = "logins" /\ I!Arrive(t))
                     /\ WF_ivars(part = "logins" /\ I!Serve(t))

(* After a sign-out the browser holds no session, whichever way of logging in, in   *)
(* whichever tab, had put it there; and the server reads the session that was set   *)
(* last, also beside a cookie of an earlier release, unless the OIDC callback set   *)
(* it, which leaves one of the other form beside it.  And logins keep their types.   *)
CookiesTell == part = "logins" => I!IdentityTyped /\ I!CookiesTell
===============================================================================
