\* Two requests of one user; starts after the configuration was changed.
SPECIFICATION MCSpec
CONSTANTS
  Nil = Nil
  t1 = t1
  t2 = t2
  t3 = t3
  x = x
  y = y
  root = root
  v = v
  srv = srv
  mnt = mnt
  P = P
  Q = Q
  short = short
  Users = {v}
  Tokens = {t1, t2, t3}
  Names = {x, y}
  Secrets = {x, y}
  Calls = {c1, c2}
  LoggedIn <- MCLoggedIn
  Casts <- MCCasts
  SameSecond = FALSE
  People = {root, v}
  Admin = root
  Sources = {srv, mnt}
  Configs <- MCConfigs
  Passwords = {P, Q, short}
  Short = {short}
  Places = {"/", "/team"}
  Events = 3
SYMMETRY Symmetry
INVARIANTS AccountsTyped NotReadmitted KeysCount CodesCount StartsAreKind
CHECK_DEADLOCK FALSE
