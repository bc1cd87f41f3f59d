\* A user, a group, a directory and the root: changes and one question at a time.
\* Two searches of an index that changes twice.
SPECIFICATION MCSpec
CONSTANTS
  Nil = Nil
  u1 = u1
  g1 = g1
  Users = {u1}
  Groups = {g1}
  Paths <- MCPaths
  Ids = {1, 2, 3, 4}
  Calls = {c1}
  x = x
  d = d
  root = root
  s1 = s1
  s2 = s2
  c1 = c1
  q1 = q1
  q2 = q2
  Asked <- MCAsked
  Edited <- MCEdited
  DenyByDefault = FALSE
  MaxChanges = 3
  Sources = {s1, s2}
  Sessions = {c1}
  Requests = {q1, q2}
  Top = root
  Dirs = {root, d}
  FileNames = {x}
  Queries <- MCQueries
  Limit = 2
  Bound = 2
  Place <- MCPlace
  Rulings <- MCRulings
  Closed = {}
SYMMETRY Symmetry
INVARIANTS TypeOK EntriesKept BoltIsCurrent CacheIsCurrent AnswerOfAMoment FoundIfThere
CHECK_DEADLOCK FALSE
