------------------------------ MODULE MCServer ------------------------------
(***************************************************************************)
(* Instances for model checking: the account server, and its rate limiter. *)
(* A behaviour belongs to one of them.                                     *)
(***************************************************************************)
EXTENDS SaasServer

Symmetry == Permutations(Devices)

VARIABLES
  part, rl_buckets, rl_now, rl_ideal, rl_verdict

limiterVars == <<rl_buckets, rl_now, rl_ideal, rl_verdict>>
limiterOff ==
  /\ rl_buckets = 0 /\ rl_now = 0 /\ rl_ideal = 0 /\ rl_verdict = 0

Limiter == INSTANCE RateLimiter WITH
  Clients <- {"a", "b", "c"}, Proxies <- {"p"}, Cost <- 2, Capacity <- 4,
  MaxKeys <- 2, MaxTime <- 4, buckets <- rl_buckets, now <- rl_now,
  ideal <- rl_ideal, verdict <- rl_verdict

-----------------------------------------------------------------------------
(* One part moves; the variables of the others are switched off. *)

MCInit ==
  /\ part \in {"server", "limiter"}
  /\ Init
  /\ IF part = "limiter" THEN Limiter!Init ELSE limiterOff

MCNext ==
  \/ part = "server" /\ Next
     /\ UNCHANGED <<part, limiterVars>>
  \/ part = "limiter" /\ Limiter!Next
     /\ UNCHANGED <<part, vars>>

MCVars == <<part, vars, limiterVars>>

MCSpec == MCInit /\ [][MCNext]_MCVars

-----------------------------------------------------------------------------
\* A request is refused exactly when its address has spent its tokens, or when
\* the table is full of addresses that have, whatever was evicted from the table
\* before (TokenBucket, evict_idle_and_check_cap).
LimiterExact == part = "limiter" => Limiter!LimiterExact
=============================================================================
