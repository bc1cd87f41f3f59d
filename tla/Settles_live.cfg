\* The index of five directories is right in the end; every request is answered.
SPECIFICATION FairSpec
CONSTANTS
  Nil = Nil
  Root <- r
  r = r
  c1 = c1
  Torn = Torn
  Bypass = Bypass
  Boot = Boot
  t1 = t1
  t2 = t2
  s2 = s2
  s1 = s1
  Present = {t1, t2, s1}
  Tops = {t1, t2}
  Parent <- MCParent
  Excluded = {t2}
  Workers = {w1}
  Copies = {1, 2}
  Every = 2
  Changes = 2
  Sizes = {1}
  Casts <- MCCasts
  Keys <- MCKeys
  Sources = {s1}
  Reqs = {t1, t2}
  Dirs = {r}
  DirTargets = {r}
  Names = {c1}
  Contents = {c1}
  Guids = {s2}
  Hours = {1}
  LegacyExpiry = 2
  MaxTime = 1
INVARIANTS IndexTells
PROPERTIES IndexSettles RequestsEnd
CHECK_DEADLOCK FALSE
