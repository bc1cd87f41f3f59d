\* Two logins race with each other, the sweep, the clock and restarts; two uploads, and
\* two searches for duplicates, each while files change twice, or twice something fails.
SPECIFICATION MCSpec
CONSTANTS
  Nil = Nil
  t1 = t1
  t2 = t2
  Logins = {l1, l2}
  Tokens = {t1, t2}
  Users = {u1}
  TTL = 1
  Grace = 2
  Stall = 2
  MaxTime = 6
  a = a
  b = b
  p1 = p1
  p2 = p2
  Clients = {a, b}
  Handlers = {l1, l2}
  Paths = {p1, p2}
  Plans <- MCPlans
  Volumes = {TRUE, FALSE}
  Quota = 3
  Mishaps = 2
  Seekers = {"u", "v"}
  Dirs = {1, 2}
  Scopes <- MCScopes
  Texts = {"x", "y"}
  Disks <- MCDisks
  Denials <- MCDenials
  MaxGroups = 3
  MaxSecond = 2
  Changes = 2
SYMMETRY Symmetry
INVARIANTS OneSessionPerToken UploadsAreWhole DuplicatesAreEqual
PROPERTIES NotAfterExpiry StoreIsSwept
CHECK_DEADLOCK FALSE
