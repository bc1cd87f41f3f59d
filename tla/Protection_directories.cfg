\* Two directories of one file each: deletes and moves of whole directories.
SPECIFICATION Spec
CONSTANTS
  Keys <- MCKeys
  Nil = Nil
  Torn = Torn
  Bypass = Bypass
  Boot = Boot
  Sources = {s1}
  Reqs = {r1, r2}
  Dirs = {d1, d2}
  DirTargets = {d1}
  Names = {n1}
  Contents = {c1}
  Guids = {g1}
  Hours = {1}
  LegacyExpiry = 2
  MaxTime = 2
CONSTRAINT Lone
SYMMETRY Symmetry
INVARIANTS TypeOK PromiseKept GenuineRecords BoltCoversState FileIsCurrent
PROPERTIES RefusesRemoval
