SPECIFICATION MCSpec
CONSTANTS
  Nil = Nil
  c1 = c1
  c2 = c2
  c3 = c3
  u1 = u1
  m1 = m1
  m2 = m2
  m3 = m3
  s1 = s1
  Clients = {c1, c2, c3}
  Owner <- MCOwner
  Sources = {s1}
  Watches <- MCWatches
  Msgs = {m1, m2, m3}
  To <- MCTo
  Updates <- MCUpdates
  Casts <- MCCasts
  QueueCap = 1
  ChanCap = 1
  People = {u1}
  Tabs = {c1, c2}
  Deployments <- MCDeployments
  Claimed = {u1}
  Before = TRUE
INVARIANTS TabsTyped EachOnce PanicsOnlyAtTheEnd CookiesTell
PROPERTIES SendersFinish SilentSettles
CHECK_DEADLOCK FALSE
