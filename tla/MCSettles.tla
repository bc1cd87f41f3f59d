------------------------------- MODULE MCSettles -------------------------------
(***************************************************************************)
(* Settles on small instances, with the fairness each component's own        *)
(* scheduling gives it.                                                      *)
(***************************************************************************)
EXTENDS Settles, TLC

CONSTANTS r, t1, t2, s1, s2, c1

-------------------------------------------------------------------------------
(* Indexing: files below a top-level directory that comes and goes; files that    *)
(* move between it and the root; a directory in it that is renamed and made again; a *)
(* server that starts meanwhile.                                              *)

MCParent == t1 :> r @@ t2 :> r @@ s1 :> t1 @@ s2 :> t1
To(op, d, e) == [op |-> op, dir |-> d, to |-> e, past |-> FALSE]
C(op, d) == To(op, d, r)
Past(op, d) == [C(op, d) EXCEPT !.past = TRUE]

MCCasts == {[starting |-> FALSE, plan |-> p] : p \in
             {{C("write", s1), C("rm", s1)}, {C("rmdir", t1), Past("mkdir", t1)},
              {C("write", t1), To("mv", t1, r), To("cp", r, t2), Past("rm", t1)},
              {To("mvdir", s1, s2), C("mkdir", s1)}}}
           \cup {[starting |-> TRUE, plan |-> {Past("rmdir", t1)}]}

\* Protection: two requests on one file in a directory.
MCKeys == {<<r, c1>>}

-------------------------------------------------------------------------------
\* What Indexing and Protection assume, each for its own behaviours; of the request
\* that is not looked at only that it goes on when it has the mutex.  A behaviour
\* belongs to one component, so one condition may speak of a step of either.
OfIndex(step) == part = "index" /\ step /\ UNCHANGED <<part, vars>>
OfProtection(step) == part = "protection" /\ step /\ UNCHANGED <<part, indexVars>>

Fairness ==
  /\ WF_settlesVars(OfIndex(X!Setup))
  /\ \A w \in Workers : WF_settlesVars(OfIndex(X!Serves(w)))
  /\ \A i \in X!Scanners : WF_settlesVars(OfIndex(X!Scans(i)))
  /\ \A q \in Reqs : WF_settlesVars(OfProtection(Moves(q)))
  /\ \A i \in X!Scanners : SF_settlesVars(OfIndex(X!Acquire(i)) \/ OfProtection(Locks(t1)))

FairSpec == SettlesSpec /\ Fairness

-------------------------------------------------------------------------------
(* What the run checks, besides IndexTells                                     *)

(* When the files no longer change the index becomes, and stays, right: entries and   *)
(* sizes, of the root and of every directory a scanner looks after, whatever          *)
(* refreshes left it in whatever order.                                           *)
IndexSettles == <>[](part = "index" => X!Settled)

(* Every request that protects or removes a file is answered, or dies with the      *)
(* process: the mutex of the state file is given back on every path, the failing    *)
(* ones too.  So a goroutine has none to answer again and again.  (The goroutines    *)
(* are alike: one stands for both.)                                              *)
RequestsEnd == []<>(part = "protection" => pc[t1] = "idle")
===============================================================================
