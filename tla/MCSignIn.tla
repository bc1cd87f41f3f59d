------------------------------- MODULE MCSignIn -------------------------------
(***************************************************************************)
(* An instance of SignIn for TLC: one user with three tokens, and two sources.  *)
(***************************************************************************)
EXTENDS SignIn, TLC

CONSTANTS t1, t2, t3, x, y, root, v, srv, mnt, P, Q, short

-------------------------------------------------------------------------------
(* Accounts: the operations that meet in one behaviour; one-time passwords are  *)
(* enforced in some, and no two minimal keys are made in a second.              *)

MCCasts == {<<{"use", "open", "renew", "logout", "restart", "expire"}, FALSE, FALSE>>,
            <<{"use", "minimal", "delete", "restart"}, FALSE, FALSE>>,
            <<{"create", "delete"}, FALSE, FALSE>>,
            <<{"create", "permit", "restart"}, FALSE, FALSE>>, <<{"create", "delete"}, TRUE, FALSE>>,
            <<{"login", "generate", "verify", "profile"}, TRUE, FALSE>>,
            <<{"verify", "generate", "profile", "restart"}, FALSE, FALSE>>,
            <<{"login", "generate", "verify"}, FALSE, TRUE>>}

MCLoggedIn == [u \in Users |-> t1]

-------------------------------------------------------------------------------
(* Startup: one source; a second one, shared with all or given by hand; the     *)
(* first without its directories; the first taken away, and a password that is   *)
(* too short.  One of them has no log-in by password.                          *)

Conf(s, d, h, l, p) == [sources |-> s, defaults |-> d, dirs |-> h, login |-> l, pass |-> p]
MCConfigs == {Conf({srv}, {srv}, {srv}, "password", Nil),
              Conf({srv, mnt}, {srv, mnt}, {srv, mnt}, "password", P),
              Conf({srv, mnt}, {srv}, {}, "others", P), Conf({mnt}, {}, {mnt}, "password", short)}

ASSUME MCStartup == B!StartupAssumption

\* Beside a start, the accounts are at rest in one way.
MCInit == SignInInit /\ (part = "startup" => cast = {"create", "delete"})
MCSpec == MCInit /\ [][SignInNext]_<<part, avars, startupVars>>

Symmetry == Permutations(Calls) \cup Permutations({t2, t3}) \cup Permutations({x, y})
===============================================================================
