\* A link to a file in a directory that is moved.
SPECIFICATION LinksSpec
CONSTANTS
  Nil = Nil
  Anon = Anon
  Inside = TRUE
  h1 = h1
  Hashes = {h1}
  Reqs = {r1, r2}
  Users = {u1}
  Paths <- MCPaths
  Moves <- MCMoves
  Files <- MCTree
  Terms <- MCTerms
  Objs = {1, 2, 3, 4, 5, 6}
  MaxServed = 2
  MaxNow = 2
  Addrs = {a1}
  Limiters = {o1, o2}
  Burst = 2
  Idle = 3
  Slack = 1
  MaxClock = 6
CONSTRAINT Undisturbed
SYMMETRY Symmetry
INVARIANTS InsideFollows
CHECK_DEADLOCK FALSE
