------------------------------ MODULE RateLimit ------------------------------
(***************************************************************************)
(* Rate limiting of logins and of public links (backend/http/ratelimit.go).  *)
(*                                                                          *)
(* A map holds a limiter of golang.org/x/time/rate per client address, made  *)
(* when the address is first seen and dropped by a clean-up after ten idle   *)
(* minutes.  A request fetches the limiter under the mutex of the map and     *)
(* asks it after the mutex is released.                                      *)
(***************************************************************************)
EXTENDS Integers

CONSTANTS
  Nil,
  Addrs,   \* client addresses, as realIP finds them
  Reqs,    \* request slots
  Objs,    \* addresses of limiters in memory
  Burst,   \* tokens of a new limiter; a token takes one unit of time
  Idle,    \* after how long unused a limiter is dropped
  Slack,   \* how long a request may take from fetching a limiter to asking it
  MaxClock \* bound: the clock

VARIABLES
  clock,    \* time, in units of what a token takes
  limiters, \* the map: per address its limiter in memory and when it was last seen
  mem,      \* the limiters: tokens at the time last, or Nil
  asking    \* per request: the address, the limiter it has fetched, and when

vars == <<clock, limiters, mem, asking>>

Entry == [obj : Objs, seen : 0 .. MaxClock]
Limiter == [tokens : 0 .. Burst, last : 0 .. MaxClock]
Asked == [addr : Addrs, obj : Objs, since : 0 .. MaxClock]

(* Ten minutes are enough to refill a bucket, however long a request stalls.  *)
RateAssumption ==
  /\ Burst \in Nat \ {0} /\ Idle \in Nat /\ Slack \in Nat /\ MaxClock \in Nat
  /\ Burst + Slack <= Idle
  /\ Nil \notin Entry /\ Nil \notin Limiter /\ Nil \notin Asked

AtMost(n, bound) == IF n <= bound THEN n ELSE bound

\* advance: the tokens of limiter l by now.
Available(l) == AtMost(l.tokens + (clock - l.last), Burst)

\* Nothing refers to limiter o.
Free(o) == (\A a \in Addrs : limiters[a] # Nil => limiters[a].obj # o)
           /\ \A r \in Reqs : asking[r] # Nil => asking[r].obj # o

Init ==
  /\ clock = 0
  /\ limiters = [a \in Addrs |-> Nil]
  /\ mem = [o \in Objs |-> Nil]
  /\ asking = [r \in Reqs |-> Nil]

\* getWithRate
Fetch(r, a, o) ==
  /\ asking[r] = Nil
  /\ IF limiters[a] # Nil
     THEN o = limiters[a].obj /\ UNCHANGED mem
     ELSE Free(o) /\ mem' = [mem EXCEPT ![o] = [tokens |-> Burst, last |-> clock]]
  /\ limiters' = [limiters EXCEPT ![a] = [obj |-> o, seen |-> clock]]
  /\ asking' = [asking EXCEPT ![r] = [addr |-> a, obj |-> o, since |-> clock]]
  /\ UNCHANGED clock

\* Allow, of the limiter the request holds, whether it is still in the map or not.
Allow(r) ==
  /\ asking[r] # Nil
  /\ asking' = [asking EXCEPT ![r] = Nil]
  /\ LET l == mem[asking[r].obj] IN
       IF Available(l) > 0
       THEN mem' = [mem EXCEPT ![asking[r].obj] = [tokens |-> Available(l) - 1, last |-> clock]]
       ELSE UNCHANGED mem
  /\ UNCHANGED <<clock, limiters>>

\* Mutant: addresses are dropped for being seen, not for being idle.
StaleTooSoon(a) == limiters[a] # Nil /\ limiters[a].seen < clock

\* lastSeen is before the cutoff.
Stale(a) == limiters[a] # Nil /\ limiters[a].seen < clock - Idle

\* cleanup, every five minutes or whenever its goroutine gets to run.
Cleanup ==
  /\ \E a \in Addrs : Stale(a)
  /\ limiters' = [a \in Addrs |-> IF Stale(a) THEN Nil ELSE limiters[a]]
  /\ UNCHANGED <<clock, mem, asking>>

\* No request takes longer than Slack for two adjacent statements.
Tick ==
  /\ clock < MaxClock
  /\ \A r \in Reqs : asking[r] # Nil => clock < asking[r].since + Slack
  /\ clock' = clock + 1
  /\ UNCHANGED <<limiters, mem, asking>>

Next ==
  \/ \E r \in Reqs, a \in Addrs, o \in Objs : Fetch(r, a, o)
  \/ \E r \in Reqs : Allow(r)
  \/ Cleanup
  \/ Tick

Spec == Init /\ [][Next]_vars

-------------------------------------------------------------------------------
(* Properties *)

(* The variables keep their types.                                             *)
TypeOK ==
  /\ clock \in 0 .. MaxClock
  /\ limiters \in [Addrs -> Entry \cup {Nil}]
  /\ mem \in [Objs -> Limiter \cup {Nil}]
  /\ asking \in [Reqs -> Asked \cup {Nil}]

\* The bucket of an address that has no limiter is full.
Level(a) == IF limiters[a] = Nil THEN Burst ELSE Available(mem[limiters[a].obj])

Buckets == INSTANCE TokenBuckets WITH level <- [a \in Addrs |-> Level(a)]

(* The map with its clean-up is as good as a bucket per address that nobody ever *)
(* forgets.                                                                     *)
LikeBuckets == Buckets!Spec
===============================================================================
