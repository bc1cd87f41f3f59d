-------------------------------- MODULE MCFiles --------------------------------
(***************************************************************************)
(* An instance of Files for TLC: two logins; two uploads; and two searches      *)
(* for duplicates in two directories.                                         *)
(***************************************************************************)
EXTENDS Files, TLC

CONSTANTS t1, t2, a, b, p1, p2

-------------------------------------------------------------------------------
(* Uploads: a large file and a save, a small file or a folder at the same path;   *)
(* and two large files for two paths that do not both fit.                       *)

Piece(path, what, units) == [path |-> path, kind |-> what, size |-> units]
Beside(other) == [c \in {a, b} |-> IF c = a THEN Piece(p1, "chunks", 2) ELSE other]
MCPlans ==
  {Beside(other) : other \in {Piece(p1, "save", 1), Piece(p1, "plain", 1),
                              Piece(p1, "folder", 1), Piece(p2, "chunks", 2)}}

-------------------------------------------------------------------------------
(* Duplicates: stems 0, 1, 2, where 0 is similar to 1 and 1 to 2: files of one     *)
(* stem, one of them with another extension, and stems that come between.        *)

F(stem, ext, no, units, text) == [name |-> <<stem, ext, no>>, size |-> units, text |-> text, time |-> 1]
OneName == << {F(0, 1, 1, 1, "x"), F(1, 1, 1, 1, "y"), F(0, 2, 1, 1, "x")}, {F(0, 1, 2, 1, "x")} >>
Between == << {F(0, 1, 1, 2, "x"), F(1, 1, 1, 1, "y"), F(2, 1, 1, 1, "y")}, {F(0, 1, 1, 2, "x")} >>
MCDisks == {OneName, Between}
MCScopes == {{1}, {1, 2}}
MCDenials == {<<"v", 2>>}

-------------------------------------------------------------------------------
(* Whether uploads are gathered on the volume they are for matters where two meet    *)
(* at one path; a user who may not see all there is, where names are the same.      *)
MCInit ==
  /\ FilesInit
  /\ part = "uploads" => accounts = {} /\ (up[b].path = p2 => oneVolume)
  /\ part = "duplicates" => accounts = {} /\ (barred = {} <=> disk = Between)
MCSpec == MCInit /\ [][FilesNext]_filesVars

Symmetry == Permutations(Logins) \cup Permutations(Tokens)
===============================================================================
