\* A crash in the middle of a write of the state file, then a redeploy.
SPECIFICATION Spec
CONSTANTS
  Keys <- MCKeys
  Nil = Nil
  Torn = Torn
  Bypass = Bypass
  Boot = Boot
  Sources = {s1}
  Reqs = {r1}
  Dirs = {d1}
  DirTargets = {d1}
  Names = {n1}
  Contents = {c1}
  Guids = {g1}
  Hours = {1}
  LegacyExpiry = 2
  MaxTime = 1
SYMMETRY Symmetry
INVARIANTS SurvivesRedeploy
