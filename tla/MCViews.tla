-------------------------------- MODULE MCViews --------------------------------
(***************************************************************************)
(* An instance of Views for TLC: one user with a folder and a file in it; two   *)
(* tabs, one document and a second path; a download; and two requests for       *)
(* thumbnails of two files.                                                    *)
(***************************************************************************)
EXTENDS Views, TLC

CONSTANTS u1, s1, folder, inner, p1, p2, x

MCCovers == {<<folder, inner>>}

\* Downloads: 1 is a folder with the file 2, the folder 3 (with 4 and 5) and the
\* file 6; 7 is a file beside it.
MCSizes == <<0, 1, 0, 1, 1, 1, 2>>
MCParent == <<0, 1, 1, 3, 3, 1, 0>>
MCRequests == {[list |-> l, form |-> f] : l \in {{1}, {1, 7}, {3, 6}, {7}}, f \in {"zip", "tar.gz"}}

\* Previews: two files, each of two kinds; one slot.
MCMixes == {<<"heic", "video">>, <<"image", "doc">>, <<"audio", "office">>}

ASSUME MCOffice == O!OfficeAssumption
ASSUME MCDownloads == W!DownloadsAssumption
ASSUME MCPreviews == V!PreviewsAssumption

-------------------------------------------------------------------------------
\* Beside the other components nobody has an account; the first file is there.
MCInit ==
  /\ ViewsInit
  /\ part # "safe" => db = [u \in Keys |-> Nil]
  /\ part = "previews" => pics[1] # V!None
MCSpec == MCInit /\ [][ViewsNext]_viewsVars

(* What is lost of hidden items behind an overlap of requests or a fault is        *)
(* excused for good: there is nothing to look for behind the first of them.  Of     *)
(* thumbnails, two kinds see two changes and faults, the others one.             *)
Undisturbed ==
  /\ raced = {} /\ faults = {}
  /\ part = "previews" => upsets <= 1 \/ kind = <<"image", "doc">>

Symmetry == Permutations(Reqs)
===============================================================================
