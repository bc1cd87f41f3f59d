------------------------------ MODULE AcornState ------------------------------
(***************************************************************************)
(* The central state file of backend/http/acornstate.go: a map kept in      *)
(* memory, guarded by one mutex, and rewritten whole to                     *)
(* <source>/.acornstate.json after every change.                            *)
(*                                                                          *)
(* os.WriteFile is two steps here, because it is two steps on the disk: it   *)
(* truncates the file, then fills it.  Between the two the file is Torn      *)
(* (json.Unmarshal rejects it), and a process that dies there leaves it so.  *)
(*                                                                          *)
(* The module knows nothing of what the map holds; Protection keeps one      *)
(* protection record per path in it, SafeMode one entry per user.            *)
(***************************************************************************)
EXTENDS Naturals

CONSTANTS
  Keys,     \* the keys of the map
  Sources,  \* the configured sources (settings.Config.Server.SourceMap)
  Nil,      \* "no value"
  Torn      \* the content of a truncated or half-written state file

VARIABLES
  mem,      \* acornState, the map in memory
  disk,     \* the content of <source>/.acornstate.json, for each source
  path,     \* acornStatePath: the source whose file this process uses
  holder    \* who holds acornStateMu and is writing the file (Nil: free)

acornVars == <<mem, disk, path, holder>>

Empty == [k \in Keys |-> Nil]

\* The mutex is free.
Unlocked == holder = Nil

(* What os.ReadFile and json.Unmarshal make of the file of source s: a       *)
(* missing file is an empty map, and so is one that does not parse.          *)
ReadBack(s) == IF disk[s] = Torn THEN Empty ELSE disk[s]

(* Take the mutex, change the map to m and truncate the file.                *)
OpenFile(who, m) ==
  /\ Unlocked
  /\ holder' = who
  /\ mem' = m
  /\ disk' = [disk EXCEPT ![path] = Torn]
  /\ UNCHANGED path

(* os.WriteFile cannot open the file: the map has changed, the file has not, *)
(* the error is logged and the mutex released.                               *)
OpenFileFails(m) ==
  /\ Unlocked
  /\ mem' = m
  /\ UNCHANGED <<disk, path, holder>>

(* The rest of os.WriteFile, and the deferred Unlock.                        *)
FillFile(who) ==
  /\ holder = who
  /\ holder' = Nil
  /\ disk' = [disk EXCEPT ![path] = mem]
  /\ UNCHANGED <<mem, path>>

\* Mutant: a failed write keeps the mutex.
FillFileFailsLocked(who) ==
  /\ holder = who
  /\ UNCHANGED acornVars

(* The write fails half-way: the error is logged, the file stays Torn.       *)
FillFileFails(who) ==
  /\ holder = who
  /\ holder' = Nil
  /\ UNCHANGED <<mem, disk, path>>

(* The process dies: its memory and its mutex are gone, the files are not.   *)
ForgetState ==
  /\ mem' = Empty
  /\ holder' = Nil
  /\ UNCHANGED <<disk, path>>
===============================================================================
