--------------------------------- MODULE Views ---------------------------------
(***************************************************************************)
(* Four components side by side, of what users are shown of files: the items   *)
(* they have hidden (SafeMode), documents edited together (Office), downloads   *)
(* (Downloads) and thumbnails (Previews).  They share no state here: a          *)
(* behaviour belongs to one of them, and leaves the variables of the others      *)
(* alone.                                                                      *)
(***************************************************************************)
EXTENDS SafeMode

CONSTANTS
  Editors, Paths, Letters, MaxKeys,                                    \* Office
  Nodes, Sizes, Parent, Folders, Requests, MaxArchive, Bandwidth,
  Buffer, MaxSize, Changes,                                            \* Downloads
  Viewers, Names, Mixes, Broken, Limit, MaxContent,                    \* Previews
  Bound                                                                \* faults of either

VARIABLES
  part, upsets,
  doc, key, made, editor, draft, call, stored, apart,
  bytes, known, denied, get, archive, changes, always, ever, behind,
  kind, pics, came, cache, locked, slots, view, change, poisoned, returned

-------------------------------------------------------------------------------
O == INSTANCE Office WITH Faults <- Bound, file <- doc, copy <- draft, faults <- upsets

officeVars == <<doc, key, made, editor, draft, call, stored, apart>>
NoOffice ==
  /\ doc = Nil /\ key = Nil /\ made = Nil /\ editor = Nil /\ draft = Nil /\ call = Nil
  /\ stored = Nil /\ apart = Nil

W == INSTANCE Downloads WITH size <- bytes, req <- get

downloadVars == <<bytes, known, denied, get, archive, changes, always, ever, behind>>
NoDownloads ==
  /\ bytes = Nil /\ known = Nil /\ denied = Nil /\ get = Nil /\ archive = Nil /\ changes = Nil
  /\ always = Nil /\ ever = Nil /\ behind = Nil

V == INSTANCE Previews WITH
       Faults <- Bound, file <- pics, born <- came, req <- view, faults <- upsets

previewVars == <<kind, pics, came, cache, locked, slots, view, change, poisoned, returned>>
NoPreviews ==
  /\ kind = Nil /\ pics = Nil /\ came = Nil /\ cache = Nil /\ locked = Nil /\ slots = Nil
  /\ view = Nil /\ change = Nil /\ poisoned = Nil /\ returned = Nil

-------------------------------------------------------------------------------
ViewsInit ==
  \/ part = "safe" /\ Init /\ upsets = Nil /\ NoOffice /\ NoDownloads /\ NoPreviews
  \/ part = "office" /\ Init /\ O!Init /\ NoDownloads /\ NoPreviews
  \/ part = "downloads" /\ Init /\ upsets = Nil /\ NoOffice /\ W!Init /\ NoPreviews
  \/ part = "previews" /\ Init /\ NoOffice /\ NoDownloads /\ V!Init

ViewsNext ==
  \/ part = "safe" /\ Next /\ UNCHANGED <<part, upsets, officeVars, downloadVars, previewVars>>
  \/ part = "office" /\ O!Next /\ UNCHANGED <<part, vars, downloadVars, previewVars>>
  \/ part = "downloads" /\ W!Next /\ UNCHANGED <<part, upsets, vars, officeVars, previewVars>>
  \/ part = "previews" /\ V!Next /\ UNCHANGED <<part, vars, officeVars, downloadVars>>

viewsVars == <<part, upsets, vars, officeVars, downloadVars, previewVars>>

ViewsSpec == ViewsInit /\ [][ViewsNext]_viewsVars

-------------------------------------------------------------------------------
(* Properties, besides TypeOK, HiddenStays and CoveredShares of SafeMode.            *)

(* Tabs with the same document open share one copy, and what the document server      *)
(* was told is saved is in the file, unless a second copy was made of it.            *)
EditorsAgree == part = "office" => O!EditorsAgree

(* An archive has all that was there for the user throughout and nothing that never    *)
(* was, and is no larger than the limit while the index knew the sizes.              *)
ArchivesAreRight == part = "downloads" => W!ArchiveIsExact /\ W!ArchiveWithinLimit

(* The slots of the generators and the locks of the cache are given back on every     *)
(* path; and a picture shows what was there between request and answer, though the    *)
(* file is replaced while it is made, unless that content is moved away and back.     *)
(* Pictures without bytes, of a full disk or a crash, are excepted.                  *)
PicturesMatch == part = "previews" => V!PicturesMatch
===============================================================================
