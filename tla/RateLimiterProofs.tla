------------------------- MODULE RateLimiterProofs -------------------------
(***************************************************************************)
(* Forgetting idle clients cannot be noticed, for any number of clients    *)
(* and proxies and any cost, capacity and size of the table.               *)
(***************************************************************************)
EXTENDS RateLimiter, FiniteSetTheorems, TLAPS

\* Trusted proxies are not clients, and the bounds are numbers.
Constants ==
  /\ Clients \cap Proxies = {}
  /\ Cost \in Nat /\ Capacity \in Nat /\ MaxKeys \in Nat

Bucket == [tokens : 0 .. Capacity, last : 0 .. now]

\* The table agrees with the one that forgets no one, and whoever it has forgotten
\* has a full bucket.
Inv ==
  /\ now \in Nat
  /\ IsFiniteSet(DOMAIN buckets)
  /\ \A c \in DOMAIN buckets : c \in DOMAIN ideal /\ buckets[c] = ideal[c]
  /\ \A c \in DOMAIN ideal : ideal[c] \in Bucket
  /\ \A c \in DOMAIN ideal \ DOMAIN buckets : is_full_now(ideal[c])
  /\ LimiterExact

-----------------------------------------------------------------------------
\* A request counts for the client it comes from, whatever proxies it passed.
LEMMA CountsForClient ==
  ASSUME Constants, NEW c \in Clients, NEW r \in Routes(c)
  PROVE  effective_ip(r[1], r[2]) = c
<1>1. CASE r = <<c, <<>>>>
  BY <1>1 DEF effective_ip, Constants
<1>2. ASSUME NEW p \in Proxies, r = <<p, <<c>>>>
      PROVE  effective_ip(r[1], r[2]) = c
  <2> DEFINE real == {i \in DOMAIN <<c>> : <<c>>[i] \notin Proxies}
  <2>1. real = {1}
    BY DEF Constants
  <2>2. Max({1}) = 1
    BY DEF Max
  <2> QED
    BY <1>2, <2>1, <2>2 DEF effective_ip
<1>3. ASSUME NEW p \in Proxies, NEW q \in Proxies, NEW d \in Clients, r = <<p, <<d, c, q>>>>
      PROVE  effective_ip(r[1], r[2]) = c
  <2> DEFINE real == {i \in DOMAIN <<d, c, q>> : <<d, c, q>>[i] \notin Proxies}
  <2>1. real = {1, 2}
    BY DEF Constants
  <2>2. Max({1, 2}) = 2
    BY DEF Max
  <2> QED
    BY <1>3, <2>1, <2>2 DEF effective_ip
<1> QED
  BY <1>1, <1>2, <1>3 DEF Routes

\* What is left in a bucket after it has been refilled.
LEMMA Refill ==
  ASSUME Constants, now \in Nat, NEW b \in Bucket
  PROVE  /\ Refilled(b) \in 0 .. Capacity
         /\ is_full_now(b) => Refilled(b) = Capacity
<1> DEFINE sum == b.tokens + now - b.last
<1>1. sum \in Nat /\ Capacity \in Nat
  BY DEF Bucket, Constants
<1>2. Refilled(b) = IF sum <= Capacity THEN sum ELSE Capacity
  <2>1. \E x \in {sum, Capacity} : \A y \in {sum, Capacity} : x <= y
    BY <1>1
  <2>2. Refilled(b) \in {sum, Capacity} /\ \A y \in {sum, Capacity} : Refilled(b) <= y
    BY <2>1 DEF Refilled, Min
  <2> QED
    BY <1>1, <2>2
<1> QED
  BY <1>1, <1>2 DEF is_full_now

\* After a request both tables hold the same bucket for the client, be it one that
\* was forgotten: a full bucket and a new one are worth the same.
LEMMA SameBucket ==
  ASSUME Constants, now \in Nat, NEW b \in Bucket, is_full_now(b)
  PROVE  Allows(b) = Allows(New) /\ check_and_consume(b) = check_and_consume(New)
<1>1. New \in Bucket /\ is_full_now(New)
  BY DEF New, Bucket, is_full_now, Constants
<1>2. Refilled(b) = Refilled(New)
  BY <1>1, Refill
<1> QED
  BY <1>2 DEF Allows, check_and_consume

LEMMA ConsumedType ==
  ASSUME Constants, now \in Nat, NEW b \in Bucket
  PROVE  check_and_consume(b) \in Bucket
<1>1. Refilled(b) \in 0 .. Capacity
  BY Refill
<1> QED
  BY <1>1 DEF check_and_consume, Bucket, Constants

LEMMA InitInv == Constants /\ Init => Inv
<1> SUFFICES ASSUME Constants, Init PROVE Inv
  OBVIOUS
<1>1. DOMAIN buckets = {} /\ DOMAIN ideal = {}
  BY DEF Init
<1>2. IsFiniteSet(DOMAIN buckets) /\ Cardinality(DOMAIN buckets) = 0
  BY <1>1, FS_EmptySet
<1>3. LimiterExact
  <2>1. Cardinality(DOMAIN buckets) <= MaxKeys
    BY <1>2 DEF Constants
  <2>2. verdict.allowed = TRUE /\ verdict.due = TRUE /\ verdict.full = FALSE
    BY Zenon DEF Init
  <2> QED
    BY <2>1, <2>2, Zenon DEF LimiterExact
<1> QED
  BY <1>1, <1>2, <1>3 DEF Init, Inv

LEMMA TickInv == Constants /\ Inv /\ Tick => Inv'
<1> SUFFICES ASSUME Constants, Inv, Tick PROVE Inv'
  OBVIOUS
<1>1. now \in Nat /\ now' = now + 1
  BY DEF Inv, Tick
<1>2. \A b \in Bucket : b \in Bucket' /\ (is_full_now(b) => b.tokens + now' - b.last >= Capacity)
  BY <1>1 DEF Bucket, is_full_now, Constants
<1>3. \A c \in DOMAIN ideal : ideal[c] \in Bucket'
  BY <1>2 DEF Inv
<1>4. \A c \in DOMAIN ideal \ DOMAIN buckets : ideal[c].tokens + now' - ideal[c].last >= Capacity
  BY <1>2 DEF Inv
<1> QED
  BY <1>1, <1>3, <1>4 DEF Inv, Tick, LimiterExact, is_full_now

LEMMA RequestInv ==
  ASSUME Constants, Inv, NEW c \in Clients, NEW r \in Routes(c), Request(c, r[1], r[2])
  PROVE  Inv'
<1> DEFINE table == evict_idle_and_check_cap(c)
           b == IF c \in DOMAIN table THEN table[c] ELSE New
           room == Room(c, table)
           mine == IF c \in DOMAIN ideal THEN ideal[c] ELSE New
<1>1. /\ buckets' = IF room THEN Insert(table, c, check_and_consume(b)) ELSE table
      /\ ideal' = IF room THEN Insert(ideal, c, check_and_consume(mine)) ELSE ideal
      /\ verdict' = [client |-> c, allowed |-> room /\ Allows(b), full |-> ~room, due |-> Allows(mine),
                     busy |-> \A k \in DOMAIN table : ~is_full_now(table[k])]
      /\ now' = now
  BY CountsForClient DEF Request
<1>2. /\ DOMAIN table \subseteq DOMAIN buckets
      /\ \A k \in DOMAIN table : table[k] = buckets[k]
      /\ \A k \in DOMAIN buckets \ DOMAIN table : is_full_now(buckets[k])
  BY DEF evict_idle_and_check_cap, Restrict
<1>3. ~room => c \notin DOMAIN table /\ \A k \in DOMAIN table : ~is_full_now(table[k])
  BY DEF Room, evict_idle_and_check_cap, Restrict
<1>4. /\ now \in Nat /\ IsFiniteSet(DOMAIN buckets) /\ Cardinality(DOMAIN buckets) <= MaxKeys
      /\ \A k \in DOMAIN buckets : k \in DOMAIN ideal /\ buckets[k] = ideal[k]
      /\ \A k \in DOMAIN ideal : ideal[k] \in Bucket
      /\ \A k \in DOMAIN ideal \ DOMAIN buckets : is_full_now(ideal[k])
  BY DEF Inv, LimiterExact
<1>5. IsFiniteSet(DOMAIN table) /\ Cardinality(DOMAIN table) <= MaxKeys
  <2>1. IsFiniteSet(DOMAIN table) /\ Cardinality(DOMAIN table) <= Cardinality(DOMAIN buckets)
    BY <1>2, <1>4, FS_Subset
  <2>2. Cardinality(DOMAIN table) \in Nat /\ Cardinality(DOMAIN buckets) \in Nat
    BY <2>1, <1>4, FS_CardinalityType
  <2> QED
    BY <2>1, <2>2, <1>4 DEF Constants
<1>6. Allows(b) = Allows(mine) /\ check_and_consume(b) = check_and_consume(mine)
  <2>1. CASE c \in DOMAIN table
    BY <2>1, <1>2, <1>4
  <2>2. CASE c \notin DOMAIN table /\ c \in DOMAIN ideal
    <3>1. is_full_now(ideal[c]) /\ ideal[c] \in Bucket
      BY <2>2, <1>2, <1>4
    <3> QED
      BY <2>2, <3>1, <1>4, SameBucket
  <2>3. CASE c \notin DOMAIN table /\ c \notin DOMAIN ideal
    BY <2>3
  <2> QED
    BY <2>1, <2>2, <2>3
<1>7. check_and_consume(mine) \in Bucket
  <2>1. New \in Bucket
    BY <1>4 DEF New, Bucket, Constants
  <2> QED
    BY <2>1, <1>4, ConsumedType
<1> HIDE DEF table, b, mine
<1>8. CASE room
  <2>1. /\ DOMAIN buckets' = DOMAIN table \cup {c}
        /\ \A k \in DOMAIN buckets' : buckets'[k] = IF k = c THEN check_and_consume(b) ELSE table[k]
    BY <1>8, <1>1 DEF Insert
  <2>2. /\ DOMAIN ideal' = DOMAIN ideal \cup {c}
        /\ \A k \in DOMAIN ideal' : ideal'[k] = IF k = c THEN check_and_consume(mine) ELSE ideal[k]
    BY <1>8, <1>1 DEF Insert
  <2>3. IsFiniteSet(DOMAIN buckets') /\ Cardinality(DOMAIN buckets') <= MaxKeys
    <3>1. CASE c \in DOMAIN table
      <4>1. DOMAIN buckets' = DOMAIN table
        BY <2>1, <3>1
      <4> QED
        BY <4>1, <1>5
    <3>2. CASE c \notin DOMAIN table
      <4>1. Cardinality(DOMAIN table) < MaxKeys
        BY <1>8, <3>2 DEF Room
      <4>2. /\ IsFiniteSet(DOMAIN table \cup {c})
            /\ Cardinality(DOMAIN table \cup {c}) = Cardinality(DOMAIN table) + 1
        BY <3>2, <1>5, FS_AddElement
      <4>3. Cardinality(DOMAIN table) \in Nat
        BY <1>5, FS_CardinalityType
      <4> QED
        BY <2>1, <4>1, <4>2, <4>3 DEF Constants
    <3> QED
      BY <3>1, <3>2
  <2>4. \A k \in DOMAIN buckets' : k \in DOMAIN ideal' /\ buckets'[k] = ideal'[k]
    BY <2>1, <2>2, <1>2, <1>4, <1>6
  <2>5. \A k \in DOMAIN ideal' : ideal'[k] \in Bucket
    BY <2>2, <1>4, <1>7
  <2>6. \A k \in DOMAIN ideal' \ DOMAIN buckets' : is_full_now(ideal'[k])
    BY <2>1, <2>2, <1>2, <1>4
  <2>7. Bucket' = Bucket /\ \A x : is_full_now(x)' = is_full_now(x)
    BY <1>1 DEF Bucket, is_full_now
  <2>8. LimiterExact'
    BY <1>1, <1>6, <1>8, <2>3 DEF LimiterExact
  <2> QED
    BY <1>1, <1>4, <2>3, <2>4, <2>5, <2>6, <2>7, <2>8 DEF Inv
<1>9. CASE ~room
  <2>1. buckets' = table /\ ideal' = ideal
    BY <1>9, <1>1
  <2>2. \A k \in DOMAIN table : k \in DOMAIN ideal /\ table[k] = ideal[k]
    BY <1>2, <1>4
  <2>3. \A k \in DOMAIN ideal \ DOMAIN table : is_full_now(ideal[k])
    BY <1>2, <1>4
  <2>4. LimiterExact'
    BY <1>1, <1>3, <1>5, <1>9 DEF LimiterExact
  <2> QED
    BY <1>1, <1>4, <1>5, <2>1, <2>2, <2>3, <2>4 DEF Inv, Bucket, is_full_now
<1> QED
  BY <1>8, <1>9

-----------------------------------------------------------------------------
\* The limiter keeps its promise: a client's request is granted exactly when a table
\* that forgets no one grants it, a new client is refused only while the table is full
\* of busy ones, and the table keeps to its cap (check_ip_rate,
\* evict_idle_and_check_cap, is_full_now, effective_ip).
THEOREM LimiterCorrect ==
  ASSUME Constants
  PROVE  Spec => []LimiterExact
<1>1. Init => Inv
  BY InitInv
<1>2. Inv /\ [Next]_vars => Inv'
  <2> SUFFICES ASSUME Inv, [Next]_vars PROVE Inv'
    OBVIOUS
  <2>1. CASE Tick
    BY <2>1, TickInv
  <2>2. ASSUME NEW c \in Clients, NEW r \in Routes(c), Request(c, r[1], r[2])
        PROVE  Inv'
    BY <2>2, RequestInv
  <2>3. CASE UNCHANGED vars
    BY <2>3 DEF vars, Inv, Bucket, is_full_now, LimiterExact
  <2> QED
    BY <2>1, <2>2, <2>3 DEF Next
<1>3. Inv => LimiterExact
  BY DEF Inv
<1> QED
  BY <1>1, <1>2, <1>3, PTL DEF Spec
=============================================================================
