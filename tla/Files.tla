--------------------------------- MODULE Files ---------------------------------
(***************************************************************************)
(* Three components side by side: the login from acorn.tools (SsoLogin), and *)
(* what users do with files then: uploads (Uploads) and the search for       *)
(* duplicates (Duplicates).  They share no state here: a behaviour belongs   *)
(* to one of them, and leaves the variables of the others alone.             *)
(***************************************************************************)
EXTENDS SsoLogin

CONSTANTS
  Clients, Handlers, Paths, Plans, Volumes, Quota, Mishaps,                  \* Uploads
  Seekers, Dirs, Scopes, Texts, Disks, Denials, MaxGroups, MaxSecond, Changes \* Duplicates

VARIABLES
  part,
  up, req, temp, dest, file, removing, indexed, owed, oneVolume, mishaps,
  mixed, again, accepted, raced,
  disk, idx, second, barred, results, sums, search, ask, edits, stirred, blurred

-------------------------------------------------------------------------------
U == INSTANCE Uploads

uploadVars == <<up, req, temp, dest, file, removing, indexed, owed, oneVolume, mishaps,
                mixed, again, accepted, raced>>
NoUploads ==
  /\ up = Nil /\ req = Nil /\ temp = Nil /\ dest = Nil /\ file = Nil /\ removing = Nil /\ indexed = Nil
  /\ owed = Nil /\ oneVolume = Nil /\ mishaps = Nil /\ mixed = Nil /\ again = Nil /\ accepted = Nil
  /\ raced = Nil

D == INSTANCE Duplicates WITH
       Users <- Seekers, denied <- barred, changes <- edits, now <- second

duplicateVars == <<disk, idx, second, barred, results, sums, search, ask, edits, stirred, blurred>>
NoDuplicates ==
  /\ disk = Nil /\ idx = Nil /\ second = Nil /\ barred = Nil /\ results = Nil /\ sums = Nil /\ search = Nil
  /\ ask = Nil /\ edits = Nil /\ stirred = Nil /\ blurred = Nil

(* A client has one file to send; what is sent in one piece is one unit long.  *)
ASSUME FilesAssumption == U!UploadsAssumption

-------------------------------------------------------------------------------
FilesInit ==
  \/ part = "sso" /\ Init /\ NoUploads /\ NoDuplicates
  \/ part = "uploads" /\ Init /\ U!Init /\ NoDuplicates
  \/ part = "duplicates" /\ Init /\ NoUploads /\ D!Init

FilesNext ==
  \/ part = "sso" /\ Next /\ UNCHANGED <<part, uploadVars, duplicateVars>>
  \/ part = "uploads" /\ U!Next /\ UNCHANGED <<part, vars, duplicateVars>>
  \/ part = "duplicates" /\ D!Next /\ UNCHANGED <<part, vars, uploadVars>>

filesVars == <<part, vars, uploadVars, duplicateVars>>

FilesSpec == FilesInit /\ [][FilesNext]_filesVars

-------------------------------------------------------------------------------
(* Properties, besides those of SsoLogin.                                        *)

(* An upload the browser reports as complete is at its path, whole and in order,     *)
(* however often it was paused, interrupted or retried, unless others worked on the   *)
(* path or its last chunk was sent twice; and what is stored stays within the quota,  *)
(* unless an upload is admitted while another is not counted yet.                   *)
UploadsAreWhole == part = "uploads" => U!UploadsTyped /\ U!Whole /\ U!QuotaHeld

(* The files of a group have one size, one text and one extension, and two equal      *)
(* files of one extension whose names are equal but for capitals and signs are found  *)
(* and told together, whatever is cached of earlier searches.                      *)
DuplicatesAreEqual == part = "duplicates" => D!GroupsHold /\ D!TwinsFound
===============================================================================
