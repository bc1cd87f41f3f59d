-------------------------------- MODULE SignIn --------------------------------
(***************************************************************************)
(* Two components side by side: tokens, keys and one-time passwords          *)
(* (Accounts), and what starts do to users (Startup).  They share no state    *)
(* here: a behaviour belongs to one of them, and leaves the variables of the  *)
(* other alone.                                                              *)
(***************************************************************************)
EXTENDS Accounts

CONSTANTS People, Admin, Sources, Configs, Passwords, Short, Places, Events
VARIABLES part, conf, exists, users, bak, run, first, todo, convert, events, given, homed

B == INSTANCE Startup WITH Users <- People, acc <- users

startupVars == <<conf, exists, users, bak, run, first, todo, convert, events, given, homed>>

NoStartup ==
  /\ conf = Nil /\ exists = Nil /\ users = Nil /\ bak = Nil /\ run = Nil
  /\ first = Nil /\ todo = Nil /\ convert = Nil /\ events = Nil /\ given = Nil
  /\ homed = Nil

SignInInit ==
  \/ part = "accounts" /\ Init /\ NoStartup
  \/ part = "startup" /\ Init /\ B!Init

SignInNext ==
  \/ part = "accounts" /\ Next /\ UNCHANGED <<part, startupVars>>
  \/ part = "startup" /\ B!Next /\ UNCHANGED <<part, avars>>

SignInSpec == SignInInit /\ [][SignInNext]_<<part, avars, startupVars>>

(* A start leaves users where they were in every source that stays; who has signed  *)
(* in since is in a directory of their own where the source makes them; and          *)
(* whatever happened to the administrator's account, a start with a configured       *)
(* password makes it an administrator's again, with that password unless it logs in   *)
(* by another way.                                                             *)
StartsAreKind == part = "startup" => B!StartsAreKind
===============================================================================
