-------------------------------- MODULE Settles --------------------------------
(***************************************************************************)
(* Two components side by side: requests that protect and remove files      *)
(* (Protection), and the index of a source behind its scanners and          *)
(* refreshes (Indexing).  They share no state here: a behaviour belongs to  *)
(* one of them, and leaves the variables of the other alone.                *)
(***************************************************************************)
EXTENDS Protection

CONSTANTS Root, Tops, Parent, Excluded, Workers, Copies, Every, Sizes, Changes, Present, Casts

VARIABLES part, tree, idx, frames, job, old, sc, reg, scanning, setup, plan, changes

X == INSTANCE Indexing WITH fs <- tree, holder <- scanning

indexVars == <<tree, idx, frames, job, old, sc, reg, scanning, setup, plan, changes>>

(* One root, directories below it, and scanners that are no workers.         *)
ASSUME SettlesAssumption == X!IndexingAssumption

NoProtection ==
  /\ mem = Nil /\ disk = Nil /\ path = Nil /\ holder = Nil /\ srv = Nil /\ todo = Nil /\ fs = Nil
  /\ bolt = Nil /\ chain = Nil /\ now = Nil /\ trash = Nil /\ pc = Nil /\ tgt = Nil /\ dst = Nil
  /\ rec = Nil /\ held = Nil /\ stale = Nil /\ fault = Nil

NoIndex ==
  /\ tree = Nil /\ idx = Nil /\ frames = Nil /\ job = Nil /\ old = Nil /\ sc = Nil /\ reg = Nil
  /\ scanning = Nil /\ setup = Nil /\ plan = Nil /\ changes = Nil

-------------------------------------------------------------------------------
SettlesInit ==
  \/ part = "index" /\ X!Init /\ NoProtection
  \/ part = "protection" /\ Init /\ NoIndex

SettlesNext ==
  \/ part = "index" /\ X!Next /\ UNCHANGED <<part, vars>>
  \/ part = "protection" /\ Next /\ UNCHANGED <<part, indexVars>>

settlesVars == <<part, vars, indexVars>>

SettlesSpec == SettlesInit /\ [][SettlesNext]_settlesVars

-------------------------------------------------------------------------------
(* Property, for the index; MCSettles adds what fairness is needed for.          *)

(* What a quick scan takes on trust is so: where the index has the modification     *)
(* time a directory has, it lists what is there, whatever scans, refreshes, removals  *)
(* from the index and updates of sizes overlapped, and although an update may put an  *)
(* older entry back.  Only what a removal that came late took out may be missing,     *)
(* until the request has read the directory again or if such an entry is put back.    *)
(* And nothing the rules exclude gets into the index.                             *)
IndexTells == part = "index" => X!IndexTyped /\ X!TimeTells /\ X!ExcludedOut
===============================================================================
