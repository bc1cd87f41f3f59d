\* One user with a folder and a file in it, two requests at a time; two tabs with
\* a document; a download; and two thumbnails.
SPECIFICATION MCSpec
CONSTANTS
  Nil = Nil
  Torn = Torn
  u1 = u1
  s1 = s1
  folder = folder
  inner = inner
  p1 = p1
  p2 = p2
  NoPin = NoPin
  x = x
  Keys = {u1}
  Sources = {s1}
  Reqs = {r1, r2}
  Items = {folder, inner}
  Covers <- MCCovers
  Pins = {p1, p2}
  MaxBorn = 2
  Editors = {r1, r2}
  Paths = {p1, p2}
  Letters = {x}
  MaxKeys = 3
  Nodes = {1, 2, 3, 4, 5, 6, 7}
  Sizes <- MCSizes
  Parent <- MCParent
  Folders = {1, 3}
  Requests <- MCRequests
  MaxArchive = 5
  Bandwidth = 2
  Buffer = 2
  MaxSize = 2
  Changes = 2
  Viewers = {r1, r2}
  Names = {1, 2}
  Mixes <- MCMixes
  Broken = {1}
  Limit = 1
  MaxContent = 3
  Bound = 2
CONSTRAINT Undisturbed
SYMMETRY Symmetry
INVARIANTS TypeOK HiddenStays EditorsAgree ArchivesAreRight PicturesMatch
PROPERTIES CoveredShares
CHECK_DEADLOCK FALSE
