--------------------------------- MODULE Links ---------------------------------
(***************************************************************************)
(* Two components side by side: public links (Shares) and the limiters of      *)
(* failed logins and of requests for links (RateLimit).  They share no state    *)
(* here: while one runs, the other stays where it began.                      *)
(***************************************************************************)
EXTENDS Shares

CONSTANTS Addrs, Limiters, Burst, Idle, Slack, MaxClock
VARIABLES part, clock, limiters, mem, asking

R == INSTANCE RateLimit WITH Objs <- Limiters

(* Ten minutes are enough to refill a bucket, however long a request stalls.  *)
ASSUME LimitsAssumption == R!RateAssumption

rateVars == <<clock, limiters, mem, asking>>
linksVars == <<part, vars, rateVars>>

LinksInit == part \in {"limits", "shares"} /\ Init /\ R!Init

LinksNext ==
  \/ part = "limits" /\ R!Next /\ UNCHANGED <<part, vars>>
  \/ part = "shares" /\ Next /\ UNCHANGED <<part, rateVars>>

LinksSpec == LinksInit /\ [][LinksNext]_linksVars

(* The map with its clean-up is as good as a bucket per address that nobody ever *)
(* forgets: R!LikeBuckets is TokenBuckets' specification of the tokens an        *)
(* address has left.                                                          *)
LikeBuckets == R!LikeBuckets
===============================================================================
