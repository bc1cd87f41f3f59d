---------------------------- MODULE TokenBuckets ----------------------------
(* What rate limiting promises (backend/http/ratelimit.go): a bucket of tokens *)
(* per address, full at first, that gains one token per unit of time.  Every   *)
(* attempt that is let through takes one, and no bucket is ever forgotten.     *)
EXTENDS Integers

CONSTANTS
  Addrs, \* client addresses
  Burst  \* tokens of a full bucket

VARIABLES
  clock, \* in units of the time a token takes
  level  \* the tokens of each address

AtMost(n, bound) == IF n <= bound THEN n ELSE bound

Init == clock = 0 /\ level = [a \in Addrs |-> Burst]

Take(a) ==
  /\ level[a] > 0
  /\ level' = [level EXCEPT ![a] = @ - 1]
  /\ UNCHANGED clock

Gain ==
  /\ clock' = clock + 1
  /\ level' = [a \in Addrs |-> AtMost(level[a] + 1, Burst)]

Next == Gain \/ \E a \in Addrs : Take(a)

Spec == Init /\ [][Next]_<<clock, level>>
=============================================================================
