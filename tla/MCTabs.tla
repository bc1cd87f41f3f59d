-------------------------------- MODULE MCTabs --------------------------------
(***************************************************************************)
(* An instance of Browser for TLC: three tabs of a user; and a person with two  *)
(* tabs and the admin claim, who logs in.                                     *)
(***************************************************************************)
EXTENDS Browser

CONSTANTS c1, c2, c3, u1, m1, m2, m3, s1

-------------------------------------------------------------------------------
(* Events: three tabs and an event, two tabs and an update of a source, one tab   *)
(* and both, and one tab and more events than there is room for.                *)

MCOwner == [c \in Clients |-> u1]
MCWatches == [c \in Clients |-> {s1}]
MCTo == [m \in Msgs |-> u1]
MCUpdates == {<<s1, 1>>}
MCCasts == {<<{c1, c2, c3}, {m1}, {}>>, <<{c1, c2}, {}, MCUpdates>>,
            <<{c1}, {m1}, MCUpdates>>, <<{c1}, {m1, m2, m3}, {}>>}

-------------------------------------------------------------------------------
(* Identity: two of the redirecting and the other ways to log in, and perhaps an  *)
(* old cookie.                                                                 *)

MCDeployments == {{"chainfs", "password"}, {"chainfs", "oidc"}, {"oidc", "proxy"}}

ASSUME MCIdentity == I!IdentityAssumption

\* Beside logins the tabs get no events, whichever there are.
MCInit == BrowserInit /\ (part = "logins" => place[c3] = "new")
MCSpec == MCInit /\ [][BrowserNext]_browserVars /\ BrowserFairness

-------------------------------------------------------------------------------
(* A silent login attempt comes to an end: tabs that share cookies never bounce      *)
(* between Drive and the provider for ever.  (The tabs are alike: one stands for     *)
(* both.)                                                                        *)
SilentSettles == (part = "logins" /\ flow[c1].silent) ~> (part = "logins" /\ ~flow[c1].silent)
===============================================================================
