\* One address and two attempts; one link, two requests for it, a move, restarts.
SPECIFICATION LinksSpec
CONSTANTS
  Nil = Nil
  Anon = Anon
  Inside = FALSE
  h1 = h1
  Hashes = {h1}
  Reqs = {r1, r2}
  Users = {u1}
  Paths <- MCPaths
  Moves <- MCMoves
  Files <- MCTree
  Terms <- MCTerms
  Objs = {1, 2, 3, 4, 5, 6}
  MaxServed = 2
  MaxNow = 2
  Addrs = {a1}
  Limiters = {o1, o2}
  Burst = 2
  Idle = 3
  Slack = 1
  MaxClock = 6
CONSTRAINT Undisturbed
SYMMETRY Symmetry
INVARIANTS LimitHeld LinksLast
PROPERTIES LikeBuckets
CHECK_DEADLOCK FALSE
