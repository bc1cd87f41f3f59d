------------------------------- MODULE Startup -------------------------------
(***************************************************************************)
(* What a start of the server, its command line and its administrators do   *)
(* to the users in BoltDB (backend/cmd, backend/database/storage,            *)
(* backend/common/settings, storage/bolt/users.go, adapters/fs/files/user.go) *)
(*                                                                          *)
(* The operator edits the configuration and the environment while the server *)
(* is down.  A start opens BoltDB, makes the first administrator in a new    *)
(* one, and then brings the users into line with the configuration, one      *)
(* transaction a user; it may be interrupted after each.                     *)
(*                                                                          *)
(* A scope is a directory of a source, or the user's own directory in it.    *)
(***************************************************************************)
EXTENDS Naturals, FiniteSets

CONSTANTS
  Nil,
  Users,
  Admin,        \* AdminUsername
  Sources,      \* by path: names change, paths do not
  Configs,      \* configurations: sources, defaults, dirs (createUserDir), login, pass
  Passwords,
  Short,        \* passwords below the minimal length
  Places,       \* directories an administrator gives; "/" is the root
  Events        \* bound: what administrators and users do, crashes, lost databases

Logins == {"password", "others", "none"}   \* password login, other ways only, no authentication

ScopeRecs == [dir : Places \cup {"/", "/users"}, own : BOOLEAN]
UserRecs ==
  [pass : Passwords \cup {Nil}, perms : SUBSET {"admin", "modify", "download", "delete"},
   perm : SUBSET {"admin"}, version : {0, 1}, method : {"password", "other", Nil},
   scopes : [Sources -> ScopeRecs \cup {Nil}], first : BOOLEAN]

StartupAssumption ==
  /\ Admin \in Users
  /\ Short \subseteq Passwords /\ Passwords \ Short # {} /\ Nil \notin Passwords \cup ScopeRecs \cup UserRecs
  /\ Configs \subseteq [sources : SUBSET Sources, defaults : SUBSET Sources, dirs : SUBSET Sources,
                       login : Logins, pass : Passwords \cup {Nil}]

VARIABLES
  conf,         \* configuration file and environment
  exists,       \* there is a database file
  acc,          \* BoltDB: the users
  bak,          \* the .bak file: the users that were converted in it, or Nil
  run,          \* down, setup, start, serve
  first,        \* Env.IsFirstLoad, newDB
  todo,         \* users validateUserInfo has yet to come to
  convert,      \* createBackup
  events,
  \* history
  given,        \* the scopes each user was left with by the last start, complete or not, or was given since
  homed         \* users who signed in since this start, and were given no scope since

vars == <<conf, exists, acc, bak, run, first, todo, convert, events, given, homed>>
process == <<run, first, todo, convert>>
history == <<given, homed>>

-----------------------------------------------------------------------------
(* Scopes and permissions *)

Place(p) == [dir |-> p, own |-> FALSE]
NoScopes == [s \in Sources |-> Nil]

\* setupSources: a source that is alone is a default one.
Defaults == IF Cardinality(conf.sources) = 1 THEN conf.sources ELSE conf.defaults \cap conf.sources
DefaultScopes == [s \in Sources |-> IF s \in Defaults THEN Place("/") ELSE Nil]

\* ConvertToBackendScopes: no scopes at all are the default ones.
Convert(scopes) ==
  IF scopes = NoScopes THEN DefaultScopes
  ELSE [s \in Sources |-> IF s \in conf.sources THEN scopes[s] ELSE Nil]

MakeUserDirsAsGiven(scopes, disableScopeChange) == scopes
\* Where the source has createUserDir, the directory of the user is appended.
MakeUserDirs(scopes, disableScopeChange) ==
  [s \in Sources |->
     IF scopes[s] # Nil /\ s \in conf.dirs \cap conf.sources /\ ~disableScopeChange
       THEN [scopes[s] EXCEPT !.own = TRUE] ELSE scopes[s]]

\* What is stored for a password.  Save hashes it for those who log in with one; for
\* others it is stored as it is, or the hash of a name, and no password is accepted.
Hashed(method, pass) == IF method = "password" THEN pass ELSE Nil

SomePassword == CHOOSE p \in Passwords \ Short : TRUE

\* Save
Stored(user, disableScopeChange) == [user EXCEPT !.scopes = MakeUserDirs(Convert(@), disableScopeChange)]

User(pass, perms, method, scopes) ==
  [pass |-> pass, perms |-> perms, perm |-> {}, version |-> 0, method |-> method, scopes |-> scopes, first |-> FALSE]

AdminPerms == {"admin", "modify"}
UserPerms == {"download"}

\* ApplyUserDefaults
WithDefaults(scopes) == IF scopes = NoScopes THEN DefaultScopes ELSE scopes

-----------------------------------------------------------------------------
(* A start *)

Init ==
  /\ conf \in Configs
  /\ \/ exists = FALSE /\ acc = [u \in Users |-> Nil]
     \/ /\ exists = TRUE                     \* of an older version
        /\ acc = [u \in Users |-> IF u = Admin
                    THEN [User(SomePassword, {}, Nil, DefaultScopes) EXCEPT !.perm = {"admin"}]
                    ELSE Nil]
  /\ bak = Nil
  /\ run = "down" /\ first = FALSE /\ todo = {} /\ convert = FALSE
  /\ events = 0
  /\ given = [u \in Users |-> IF acc[u] = Nil THEN NoScopes ELSE acc[u].scopes]
  /\ homed = {}

Event == events < Events /\ events' = events + 1

Configure(c) ==
  /\ run = "down" /\ c # conf
  /\ Event
  /\ conf' = c
  /\ UNCHANGED <<exists, acc, bak, process, history>>

\* A deployment without its volume.
LoseDatabase ==
  /\ run = "down" /\ exists
  /\ Event
  /\ exists' = FALSE /\ acc' = [u \in Users |-> Nil]
  /\ given' = [u \in Users |-> NoScopes]
  /\ UNCHANGED <<conf, bak, process, homed>>

\* settings.Initialize, storm.Open
Start ==
  /\ run = "down"
  /\ exists' = TRUE /\ first' = ~exists
  /\ run' = IF exists THEN "start" ELSE "setup"
  /\ todo' = IF exists THEN {u \in Users : acc[u] # Nil} ELSE {}
  /\ convert' = FALSE
  /\ homed' = {}
  /\ given' = [u \in Users |-> [s \in Sources |-> IF s \in conf.sources THEN given[u][s] ELSE Nil]]
  /\ UNCHANGED <<conf, acc, bak, events>>

FirstAdmin ==
  Stored([User(IF conf.pass = Nil THEN SomePassword ELSE conf.pass, AdminPerms, "password",
               [s \in Sources |-> IF s \in conf.sources THEN Place("/") ELSE Nil]) EXCEPT !.first = TRUE], TRUE)

\* quickSetup makes the administrator where passwords, or nothing, are asked for; a
\* password that is too short ends the process, and the database stays as it is.
QuickSetup ==
  /\ run = "setup"
  /\ IF conf.login = "others" \/ conf.pass \in Short THEN UNCHANGED <<acc, given>>
     ELSE /\ acc' = [acc EXCEPT ![Admin] = FirstAdmin]
          /\ given' = [given EXCEPT ![Admin] = FirstAdmin.scopes]
  /\ run' = IF conf.login # "others" /\ conf.pass \in Short THEN "down" ELSE "start"
  /\ todo' = {u \in Users : acc'[u] # Nil}
  /\ UNCHANGED <<conf, exists, bak, first, convert, events, homed>>

UpdateUserScopesToDefault(user) ==
  [s \in Sources |-> IF s \in Defaults THEN Place("/") ELSE user.scopes[s]]
\* Sources the user has, default sources the user lacks, and what is not configured.
UpdateUserScopes(user) ==
  [s \in Sources |-> IF user.scopes[s] = Nil /\ s \in Defaults THEN Place("/") ELSE user.scopes[s]]

UpdatePermissions(user) ==
  IF user.version = 1 THEN user
  ELSE LET perms == user.perms \cup user.perm \cup {"download"} IN
       [user EXCEPT !.perms = IF "modify" \in perms THEN perms \cup {"delete"} ELSE perms,
                    !.perm = {}, !.version = 1]

ResetsAdminWhenPlain(u, user) ==
  u = Admin /\ conf.pass # Nil /\ conf.login = "password" /\ "admin" \notin user.perms
ResetsAdmin(u, user) == u = Admin /\ conf.pass # Nil /\ conf.login = "password"

\* One round of validateUserInfo.  A list in another order counts as changed.
Validate(u) ==
  LET user == acc[u]
      legacy == user.version # 1
      scopes == UpdateUserScopes(user)
      resets == ResetsAdmin(u, user)
      better == [UpdatePermissions(user) EXCEPT
                   !.scopes = scopes,
                   !.method = IF @ = Nil THEN "password" ELSE @,
                   !.first = @ /\ first]
      saved == IF resets THEN [better EXCEPT !.perms = @ \cup {"admin"}, !.pass = Hashed(better.method, conf.pass)]
               ELSE better
      refused == resets /\ better.method = "password" /\ conf.pass \in Short
      several == Cardinality({s \in Sources : scopes[s] # Nil}) # 1
  IN
  /\ run = "start" /\ u \in todo
  /\ todo' = todo \ {u}
  /\ convert' = (convert \/ legacy)
  /\ \E reordered \in {FALSE, several} :
       IF better # user \/ resets \/ reordered
         THEN /\ acc' = IF refused THEN acc ELSE [acc EXCEPT ![u] = Stored(saved, TRUE)]
              /\ bak' = IF convert' /\ ~first THEN {w \in Users : acc[w] # Nil /\ acc[w].version = 1} ELSE bak
         ELSE UNCHANGED <<acc, bak>>
  /\ UNCHANGED <<conf, exists, run, first, events, history>>

Left == [u \in Users |-> IF acc[u] = Nil THEN NoScopes ELSE acc[u].scopes]

Ready == run = "start" /\ todo = {}

Serve ==
  /\ Ready
  /\ run' = "serve"
  /\ given' = Left
  /\ UNCHANGED <<conf, exists, acc, bak, first, todo, convert, events, homed>>

\* A stop, or a crash at any point of the start.
Stop ==
  /\ run # "down"
  /\ run' = "down"
  /\ todo' = {}
  /\ IF run = "serve" THEN UNCHANGED <<events, given>> ELSE Event /\ given' = Left
  /\ UNCHANGED <<conf, exists, acc, bak, first, convert, homed>>

-----------------------------------------------------------------------------
(* Users come, go and change *)

Give(u, scopes) == given' = [given EXCEPT ![u] = scopes]

\* usersPostHandler, signupHandler, the first log-in over OIDC or a proxy: CreateUser.
\* Who is made without a way to log in gets a password nobody knows.
Create(u, way, perms, scopes) ==
  LET method == IF way = Nil THEN "password" ELSE way
      user == Stored(User(Hashed(way, SomePassword), perms, method, WithDefaults(scopes)), FALSE)
  IN
  /\ run = "serve" /\ acc[u] = Nil
  /\ Event
  /\ acc' = [acc EXCEPT ![u] = [user EXCEPT !.first = first /\ "admin" \in perms]]
  /\ Give(u, user.scopes)
  /\ UNCHANGED <<conf, exists, bak, process, homed>>

\* correctUserScope: back to /users unless the directory is the user's own, then MakeUserDirs
CorrectScope(scopes) ==
  MakeUserDirs([s \in Sources |-> IF scopes[s] = Nil \/ scopes[s].own THEN scopes[s] ELSE Place("/users")], FALSE)

\* The login from acorn.tools, and the one from Azure B2C.
SignIn(u) ==
  LET new == Stored(User(Nil, UserPerms, "other", DefaultScopes), FALSE)
      right == IF acc[u].scopes = CorrectScope(acc[u].scopes) THEN acc[u].scopes
               ELSE Convert(CorrectScope(acc[u].scopes))
      user == IF acc[u] = Nil THEN new ELSE [acc[u] EXCEPT !.method = "other", !.scopes = right]
  IN
  /\ run = "serve" /\ u \notin homed
  /\ Event
  /\ acc' = [acc EXCEPT ![u] = user]
  /\ Give(u, user.scopes)
  /\ homed' = homed \cup {u}
  /\ UNCHANGED <<conf, exists, bak, process>>

\* userPutHandler with which=Scopes
SetScopes(u, scopes) ==
  /\ run = "serve" /\ acc[u] # Nil
  /\ Event
  /\ acc' = [acc EXCEPT ![u] = Stored([@ EXCEPT !.scopes = scopes], TRUE)]
  /\ Give(u, acc'[u].scopes)
  /\ homed' = homed \ {u}
  /\ UNCHANGED <<conf, exists, bak, process>>

\* userPutHandler with which=all, by an administrator who was shown the scopes in
\* configured sources: the way to log in may change, the password does not.
SetProfile(u, way) ==
  LET shown == [s \in Sources |-> IF s \in conf.sources THEN acc[u].scopes[s] ELSE Nil] IN
  /\ run = "serve" /\ acc[u] # Nil /\ acc[u].method # way
  /\ Event
  /\ acc' = [acc EXCEPT ![u] = Stored([@ EXCEPT !.method = way, !.scopes = shown], TRUE)]
  /\ Give(u, acc'[u].scopes)
  /\ homed' = homed \ {u}
  /\ UNCHANGED <<conf, exists, bak, process>>

\* userPutHandler with which=Permissions
SetPermissions(u, perms) ==
  /\ run = "serve" /\ acc[u] # Nil /\ acc[u].perms # perms
  /\ Event
  /\ acc' = [acc EXCEPT ![u].perms = perms]
  /\ UNCHANGED <<conf, exists, bak, process, given, homed>>

\* userPutHandler with which=Password
SetPassword(u, p) ==
  /\ run = "serve" /\ acc[u] # Nil /\ acc[u].method = "password" /\ acc[u].pass # p /\ p \notin Short
  /\ Event
  /\ acc' = [acc EXCEPT ![u].pass = p]
  /\ UNCHANGED <<conf, exists, bak, process, history>>

\* userDeleteHandler, by another administrator
Delete(u) ==
  /\ run = "serve" /\ acc[u] # Nil
  /\ \E w \in Users \ {u} : acc[w] # Nil /\ "admin" \in acc[w].perms
  /\ Event
  /\ acc' = [acc EXCEPT ![u] = Nil]
  /\ Give(u, NoScopes)
  /\ homed' = homed \ {u}
  /\ UNCHANGED <<conf, exists, bak, process>>

\* set -u, for which BoltDB must be free; a new database gets its administrator first.
SetUser(u, p, asAdmin) ==
  LET old == IF exists \/ conf.login = "others" THEN acc ELSE [acc EXCEPT ![Admin] = FirstAdmin]
      more == IF asAdmin THEN {"admin"} ELSE {}
      user == IF old[u] = Nil THEN Stored(User(p, UserPerms \cup more, "password", DefaultScopes), FALSE)
              ELSE Stored([old[u] EXCEPT !.pass = p, !.perms = @ \cup more, !.version = 1], FALSE)
  IN
  /\ run = "down" /\ p \notin Short
  /\ ~exists /\ conf.login # "others" => conf.pass \notin Short
  /\ old[u] # Nil => old[u].method = "password"
  /\ Event
  /\ exists' = TRUE
  /\ acc' = [old EXCEPT ![u] = user]
  /\ given' = [w \in Users |-> IF acc'[w] # acc[w] THEN acc'[w].scopes ELSE given[w]]
  /\ UNCHANGED <<conf, bak, process, homed>>

Gifts == {NoScopes} \cup {[NoScopes EXCEPT ![s] = Place(p)] : s \in Sources, p \in Places}

Next ==
  \/ Start \/ QuickSetup \/ Serve \/ Stop \/ LoseDatabase
  \/ \E c \in Configs : Configure(c)
  \/ \E u \in Users :
       \/ Validate(u) \/ SignIn(u) \/ Delete(u)
       \/ \E s \in Gifts : SetScopes(u, s) \/ Create(u, "password", UserPerms, s)
       \/ \E way \in {"other", Nil} : Create(u, way, UserPerms, NoScopes)
       \/ \E way \in {"password", "other"} : SetProfile(u, way)
       \/ \E p \in {UserPerms, {"modify"}, {"admin", "modify"}} : SetPermissions(u, p)
       \/ \E p \in Passwords : SetPassword(u, p) \/ \E a \in BOOLEAN : SetUser(u, p, a)

Spec == Init /\ [][Next]_vars

-----------------------------------------------------------------------------
(* Properties *)

\* A start leaves users where they were in every source that stays configured:
\* what they had, they have, and what they lacked they get only where the source
\* is a default one; so does the start after an interrupted one.
ScopesKept ==
  Ready => \A u \in Users : acc[u] # Nil =>
             \A s \in conf.sources : IF given[u][s] # Nil THEN acc[u].scopes[s] = given[u][s]
                                     ELSE acc[u].scopes[s] \in {Nil, DefaultScopes[s]}

\* Whatever users and administrators did to the administrator's account: if it is
\* there, it is an administrator's after a start with a password that is accepted,
\* and that is its password, unless it logs in by another way.
AdminComesBack ==
  (Ready /\ conf.login = "password" /\ conf.pass \notin Short \cup {Nil} /\ acc[Admin] # Nil) =>
     /\ "admin" \in acc[Admin].perms
     /\ acc[Admin].method = "other" \/ (acc[Admin].method = "password" /\ acc[Admin].pass = conf.pass)

\* Where sources make directories for their users, whoever has signed in since the
\* start is in a directory of their own, although the start itself gives out roots.
HomesApart ==
  run = "serve" => \A u \in homed : \A s \in conf.dirs \cap conf.sources :
                      acc[u].scopes[s] # Nil => acc[u].scopes[s].own

\* The three: a start is kind to users and to the administrator.
StartsAreKind == ScopesKept /\ HomesApart /\ AdminComesBack
=============================================================================
