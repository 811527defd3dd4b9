----------------------------- MODULE RateLimiter -----------------------------
(***************************************************************************)
(* The token buckets of the store server (sfs-saas/src/server.rs): one per *)
(* client address for the sign-in routes, in a table of bounded size that  *)
(* forgets idle clients, the address being read from behind trusted        *)
(* proxies. The table per account works the same way.                      *)
(*                                                                         *)
(* Time and tokens are counted in refill steps: a request costs Cost and a *)
(* bucket gains one per tick.                                              *)
(***************************************************************************)
EXTENDS Integers, Sequences, FiniteSets, FiniteSetsExt, Functions

CONSTANTS
  Clients,   \* client addresses
  Proxies,   \* trusted proxies' addresses
  Cost,      \* ticks in which a bucket earns one request
  Capacity,  \* of a bucket, in ticks
  MaxKeys,   \* MAX_RATE_KEYS
  MaxTime

VARIABLES
  buckets,   \* rate_ip: address -> [tokens, last]
  now,
  ideal,     \* a table that forgets no one: client -> [tokens, last]
  verdict    \* the last request: [client, allowed, full, due, busy]

vars == <<buckets, now, ideal, verdict>>

New == [tokens |-> Capacity, last |-> now]
Refilled(b) == Min({b.tokens + now - b.last, Capacity})

is_full_now(b) == b.tokens + now - b.last >= Capacity

\* The bucket after a request, refused or not.
check_and_consume(b) ==
  [tokens |-> IF Refilled(b) >= Cost THEN Refilled(b) - Cost ELSE Refilled(b), last |-> now]

Allows(b) == Refilled(b) >= Cost

\* Mutant of evict_idle_and_check_cap: the sweep empties the table.
evict_all_and_check_cap(key) ==
  IF key \in DOMAIN buckets \/ Cardinality(DOMAIN buckets) < MaxKeys THEN buckets ELSE <<>>

\* At the cap and for a new key only, the full buckets are dropped.
evict_idle_and_check_cap(key) ==
  IF key \in DOMAIN buckets \/ Cardinality(DOMAIN buckets) < MaxKeys THEN buckets
  ELSE Restrict(buckets, {k \in DOMAIN buckets : ~is_full_now(buckets[k])})

Room(key, table) == key \in DOMAIN table \/ Cardinality(DOMAIN table) < MaxKeys

\* The table with the bucket under the key, a new one or instead of the old.
Insert(table, key, b) == [k \in DOMAIN table \cup {key} |-> IF k = key THEN b ELSE table[k]]

\* The address a request counts for: the last hop that is not a trusted proxy, when
\* the peer is one.
effective_ip(peer, hops) ==
  LET real == {i \in DOMAIN hops : hops[i] \notin Proxies}
  IN  IF peer \notin Proxies \/ real = {} THEN peer ELSE hops[Max(real)]

\* check_ip_rate.
Request(c, peer, hops) ==
  LET ip == effective_ip(peer, hops)
      table == evict_idle_and_check_cap(ip)
      b == IF ip \in DOMAIN table THEN table[ip] ELSE New
      ok == Room(ip, table) /\ Allows(b)
      mine == IF c \in DOMAIN ideal THEN ideal[c] ELSE New
  IN
  /\ buckets' = IF Room(ip, table) THEN Insert(table, ip, check_and_consume(b)) ELSE table
  /\ ideal' = IF Room(ip, table) THEN Insert(ideal, c, check_and_consume(mine)) ELSE ideal
  /\ verdict' = [client |-> c, allowed |-> ok, full |-> ~Room(ip, table), due |-> Allows(mine),
                busy |-> \A k \in DOMAIN table : ~is_full_now(table[k])]
  /\ UNCHANGED now

Tick ==
  /\ now < MaxTime /\ now' = now + 1
  /\ UNCHANGED <<buckets, ideal, verdict>>

Init ==
  /\ buckets = <<>> /\ ideal = <<>> /\ now = 0
  /\ verdict = [client |-> "none", allowed |-> TRUE, full |-> FALSE, due |-> TRUE, busy |-> FALSE]

\* A client reaches the server directly or through a chain of proxies, each adding
\* the address it was reached from.
Routes(c) == {<<c, <<>>>>} \cup {<<p, <<c>>>> : p \in Proxies}
             \cup {<<p, <<d, c, q>>>> : p \in Proxies, q \in Proxies, d \in Clients}

Next ==
  \/ \E c \in Clients : \E r \in Routes(c) : Request(c, r[1], r[2])
  \/ Tick

Spec == Init /\ [][Next]_vars

---------------------------------------------------------------------------
\* Properties

\* Forgetting idle clients cannot be noticed: whatever route a client's requests
\* take, each is granted exactly when a table that forgets no one grants it, except
\* that a new client is refused while the table is full of busy ones, and the table
\* never outgrows its cap (evict_idle_and_check_cap, is_full_now, effective_ip).
LimiterExact ==
  /\ Cardinality(DOMAIN buckets) <= MaxKeys
  /\ verdict.allowed = (verdict.due /\ ~verdict.full)
  /\ verdict.full => verdict.busy /\ verdict.client \notin DOMAIN buckets
=============================================================================
