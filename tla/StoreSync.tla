----------------------------- MODULE StoreSync ------------------------------
(***************************************************************************)
(* Replicas that synchronise one unit through a store: SyncEngine::sync    *)
(* (sfs-sync/src/lib.rs) over a transport that keeps, per unit, the        *)
(* frontier of pushed records, the pushed blocks and the join of the       *)
(* pushed vectors (LocalTransport).  A sync holds its engine for its whole *)
(* duration, so a replica's local operations fall between its syncs; the   *)
(* syncs of different replicas interleave call by call, and a sync may     *)
(* break off between any two calls.                                        *)
(***************************************************************************)
EXTENDS CausalUnit, SequencesExt

CONSTANTS
  Shared,     \* fragments of the unit that all replicas start with; 0: one
              \* replica has just created it
  MaxOps,     \* bound: local operations
  MaxOther,   \* bound: the same once one is not a write of given size or a resolution
  MaxFaults   \* bound: syncs that break off

ASSUME StoreSyncAssumption ==
  /\ Shared \subseteq 0 .. MaxFrags
  /\ MaxOps \in Nat /\ MaxOther \in Nat /\ MaxFaults \in Nat

VARIABLES
  rec,     \* each replica's record of the unit
  store,   \* the transport: records, blocks, vv
  sess,    \* each replica's sync: where it is, and the manifest it started from
  log,     \* ghost: what was written
  seen,    \* history variable: the less usual things that have happened
  ops,     \* local operations so far
  faults   \* syncs broken off so far

vars == <<rec, store, sess, log, seen, ops, faults>>

Idle == [at |-> "idle", pre |-> NoRecord]
Creator == CHOOSE h \in Hosts : \A g \in Hosts : h <= g

-----------------------------------------------------------------------------
\* The unit written by its creator and known to everyone.
SharedRecord(k) == Write(Created, Creator, 1, k, Full)

BlocksOf(s) == {<<f, s.map[f]>> : f \in {g \in Frags : s.data[g] # Hole}}

Event(v, h, sets, cuts) == [dot |-> DotOf(v, h), vv |-> v, sets |-> sets, cuts |-> cuts]

InitNew ==
  /\ rec = [r \in Hosts |-> IF r = Creator THEN Created ELSE NoRecord]
  /\ store = [records |-> <<>>, blocks |-> {}, vv |-> Zero]
  /\ log = {}

InitShared(k) ==
  LET first == SharedRecord(k) IN
  /\ rec = [r \in Hosts |-> first]
  /\ store = [records |-> <<Projection(first.head, Zero)>>,
              blocks |-> BlocksOf(first.head), vv |-> first.head.vv]
  /\ log = {Event(first.head.vv, Creator, 1 .. k, {})}

Init ==
  /\ \E k \in Shared : IF k = 0 THEN InitNew ELSE InitShared(k)
  /\ seen = {}
  /\ sess = [r \in Hosts |-> Idle]
  /\ ops = 0
  /\ faults = 0

-----------------------------------------------------------------------------
(* Local operations *)

\* The engine is free.  The operation is unusual in the ways how says, and in
\* one more if the unit is in conflict.
Local(r, how) ==
  LET ways == how \cup IF rec[r].strains = <<>> THEN {} ELSE {"in_conflict"} IN
  /\ sess[r] = Idle
  /\ rec[r].known
  /\ seen' = seen \cup ways
  /\ ops < IF seen' \subseteq {"in_conflict"} THEN MaxOps ELSE MaxOther
  /\ ops' = ops + 1
  /\ UNCHANGED <<store, sess, faults>>

Becomes(r, new, sets, cuts) ==
  /\ rec' = [rec EXCEPT ![r] = new]
  /\ log' = log \cup {Event(new.head.vv, r, sets, cuts)}

\* Writes past the end of a unit that has content.
Appends(s, j, len) == s.vv # Zero /\ (j > s.n \/ (j = s.n /\ len > s.last))

DoWrite(r) ==
  \E i \in Frags, j \in Frags, len \in 1 .. Full :
    /\ Local(r, IF Appends(rec[r].head, j, len) THEN {"append"} ELSE {})
    /\ i <= j
    /\ NoGap(rec[r], i)
    /\ Becomes(r, Write(rec[r], r, i, j, len), i .. j, {})

DoRechunk(r) ==
  \E n \in 1 .. rec[r].head.n, len \in 1 .. Full :
    /\ Local(r, {"rechunk"})
    /\ rec[r].head.exp = 0
    /\ Becomes(r, Rechunk(rec[r], r, n, len), 1 .. n, Frags \ (1 .. n))

DoExtend(r) ==
  \E n \in Frags, len \in 1 .. Full :
    /\ Local(r, {"extend"})
    /\ Longer(rec[r], n, len)
    /\ Becomes(r, Extend(rec[r], r, n, len), {}, {})

DoTruncate(r) ==
  \E n \in 1 .. rec[r].head.n, len \in 1 .. Full :
    /\ Local(r, {"truncate"})
    /\ Shorter(rec[r], n, len)
    /\ LET new == Truncate(rec[r], r, n, len)
       IN Becomes(r, new, {f \in {n} : new.head.map[f] # rec[r].head.map[f]}, Frags \ (1 .. n))

DoEmpty(r) ==
  /\ Local(r, {"empty"})
  /\ rec[r].head.n > 0
  /\ rec' = [rec EXCEPT ![r] = TruncateToZero(@)]
  /\ UNCHANGED log

DoWriteMeta(r) ==
  /\ Local(r, {"meta"})
  /\ rec' = [rec EXCEPT ![r] = WriteMeta(@, r)]
  /\ UNCHANGED log

DoResolve(r) ==
  \E n \in 0 .. MaxFrags, len \in 1 .. Full :
    /\ sess[r] = Idle
    /\ rec[r].strains # <<>>
    /\ ops < (IF seen \subseteq {"in_conflict"} THEN MaxOps ELSE MaxOther)
    /\ ops' = ops + 1
    /\ n = 0 => len = 1
    /\ Becomes(r, Resolve(rec[r], r, n, IF n = 0 THEN 0 ELSE len), 1 .. n, Frags \ (1 .. n))
    /\ UNCHANGED <<store, sess, seen, faults>>

-----------------------------------------------------------------------------
(* SyncEngine::sync *)

Goto(r, where) == sess' = [sess EXCEPT ![r].at = where]
Finish(r) == sess' = [sess EXCEPT ![r] = Idle]

\* Steps 1 and 2: the manifest, and whether the store lacks what it says.
Begin(r) ==
  LET push == rec[r].known /\ ~Dominates(store.vv, rec[r].head.vv) IN
  /\ sess[r] = Idle
  /\ sess' = [sess EXCEPT ![r] = [at |-> IF push THEN "record" ELSE "pull", pre |-> rec[r]]]
  /\ UNCHANGED <<rec, store, log, seen, ops, faults>>

\* Mutant of PutRecord: every record the new one does not dominate stays, and a
\* stale one is added.
PutRecordKeepsStale(records, p) ==
  Append(SelectSeq(records, LAMBDA s : ~Dominates(p.vv, s.vv)), p)

\* LocalTransport::put_record: the frontier rule.
PutRecord(records, p) ==
  IF \E i \in DOMAIN records : StrictlyDominates(records[i].vv, p.vv)
  THEN records
  ELSE Append(SelectSeq(records, LAMBDA s : ~Dominates(p.vv, s.vv)), p)

PushRecord(r) ==
  /\ sess[r].at = "record"
  /\ store' = [store EXCEPT !.records = PutRecord(@, Projection(rec[r].head, rec[r].meta))]
  /\ Goto(r, "blocks")
  /\ UNCHANGED <<rec, log, seen, ops, faults>>

\* export_block finds the head's version of a fragment in the head or a strain.
Exported(r) == {<<f, r.head.map[f]>> : f \in
                  {g \in Frags : r.head.map[g] # Hole /\
                                 \E s \in Streams(r) : s.map[g] = r.head.map[g] /\ s.data[g] # Hole}}

\* Mutant of PushBlocks: the first fragment is left out.
PushBlocksDropsFirst(r) ==
  /\ sess[r].at = "blocks"
  /\ store' = [store EXCEPT !.blocks = @ \cup {b \in Exported(rec[r]) : b[1] > 1}]
  /\ Goto(r, "vv")
  /\ UNCHANGED <<rec, log, seen, ops, faults>>

PushBlocks(r) ==
  /\ sess[r].at = "blocks"
  /\ store' = [store EXCEPT !.blocks = @ \cup Exported(rec[r])]
  /\ Goto(r, "vv")
  /\ UNCHANGED <<rec, log, seen, ops, faults>>

SetVv(r) ==
  /\ sess[r].at = "vv"
  /\ store' = [store EXCEPT !.vv = Join(@, sess[r].pre.head.vv)]
  /\ Goto(r, "pull")
  /\ UNCHANGED <<rec, log, seen, ops, faults>>

NeedPull(r) == ~sess[r].pre.known \/ ~Dominates(sess[r].pre.head.vv, store.vv)

ImportAll(r, records) == FoldLeft(LAMBDA x, p : ImportRecord(x, p, 0), r, records)

\* Step 3: every record of the frontier is imported, in its order.
Pull(r) ==
  /\ sess[r].at = "pull"
  /\ rec' = [rec EXCEPT ![r] = IF NeedPull(r) THEN ImportAll(@, store.records) ELSE @]
  /\ Goto(r, "fetch")
  /\ UNCHANGED <<store, log, seen, ops, faults>>

\* Step 4: fragments of the head that the manifest did not have as they are
\* now; a fragment without its block counts as missing there.
Had(s, f) == IF s.data[f] = Hole THEN Hole ELSE s.map[f]

Wanted(r) ==
  IF store.records = <<>> THEN {}
  ELSE {f \in Frags : rec[r].head.map[f] \notin {Hole, Had(sess[r].pre.head, f)}}

Stored(r, f) == <<f, rec[r].head.map[f]>> \in store.blocks

\* Imports the blocks of the head's fragments fs.
Fetched(x, fs) ==
  FoldSet(LAMBDA f, y : ImportBlock(y, f, y.head.map[f], y.head.map[f], FragLen(y.head, f)), x, fs)

\* Step 5a: fragments in order; the first one the store lacks ends the sync.
Fetch(r) ==
  LET got == {f \in Wanted(r) : \A g \in Wanted(r) : g <= f => Stored(r, g)} IN
  /\ sess[r].at = "fetch"
  /\ rec' = [rec EXCEPT ![r] = Fetched(@, got)]
  /\ IF got = Wanted(r) THEN Goto(r, "strains") ELSE Finish(r)
  /\ UNCHANGED <<store, log, seen, ops, faults>>

\* Step 5b, one strain: what the store lacks is skipped.
StrainFetched(x, i) ==
  LET s == x.strains[i]
      fs == {f \in Frags : s.data[f] = Hole /\ s.map[f] # Hole /\ <<f, s.map[f]>> \in store.blocks}
  IN FoldSet(LAMBDA f, y : ImportBlock(y, f, s.map[f], s.map[f], FragLen(s, f)), x, fs)

FetchStrains(r) ==
  /\ sess[r].at = "strains"
  /\ rec' = [rec EXCEPT ![r] =
               IF store.records = <<>> THEN @
               ELSE FoldLeftDomain(LAMBDA y, i : StrainFetched(y, i), @, @.strains)]
  /\ Finish(r)
  /\ UNCHANGED <<store, log, seen, ops, faults>>

\* The connection or the process is lost between two calls of a push.
BreakPush(r) ==
  /\ faults < MaxFaults
  /\ sess[r].at \in {"blocks", "vv"}
  /\ Finish(r)
  /\ faults' = faults + 1
  /\ seen' = seen \cup {"broken push"}
  /\ UNCHANGED <<rec, store, log, ops>>

\* The same during a pull, after some of its imports: each one is published.
BreakPull(r) ==
  /\ faults < MaxFaults
  /\ \/ /\ sess[r].at = "pull"
        /\ \E k \in 0 .. Len(store.records) :
             rec' = [rec EXCEPT ![r] = IF NeedPull(r) THEN ImportAll(@, SubSeq(store.records, 1, k))
                                       ELSE @]
     \/ /\ sess[r].at = "fetch"
        /\ \E k \in 0 .. MaxFrags :
             rec' = [rec EXCEPT ![r] = Fetched(@, {f \in Wanted(r) : f <= k /\ Stored(r, f)})]
     \/ sess[r].at = "strains" /\ UNCHANGED rec
  /\ Finish(r)
  /\ faults' = faults + 1
  /\ UNCHANGED <<store, log, seen, ops>>

SyncStep(r) ==
  \/ Begin(r) \/ PushRecord(r) \/ PushBlocks(r) \/ SetVv(r)
  \/ Pull(r) \/ Fetch(r) \/ FetchStrains(r)

Next ==
  \E r \in Hosts :
    \/ DoWrite(r) \/ DoRechunk(r) \/ DoExtend(r) \/ DoTruncate(r) \/ DoEmpty(r)
    \/ DoWriteMeta(r) \/ DoResolve(r)
    \/ SyncStep(r)
    \/ BreakPush(r) \/ BreakPull(r)

Spec == Init /\ [][Next]_vars

\* A replica keeps syncing: the loop of sfs-sync starts a round every interval,
\* also after one that failed (sfs-tools/src/bin/sfs-sync.rs:294).
FairSpec == Spec /\ \A r \in Hosts : WF_vars(SyncStep(r))

-----------------------------------------------------------------------------
\* None of the unusual things in how has happened.
Without(how) == seen \cap how = {}

\* The shape of the state; a stream has no fragment beyond its size.
StreamOK(s) ==
  /\ s.map \in [Frags -> Dots] /\ s.data \in [Frags -> Dots]
  /\ s.n \in 0 .. MaxFrags /\ s.last \in 0 .. Full
  /\ s.exp \in 0 .. MaxOps /\ s.vv \in [Hosts -> 0 .. MaxOps + 1]
  /\ \A f \in Frags : f > s.n => s.map[f] = Hole /\ s.data[f] = Hole

TypeOK ==
  /\ \A r \in Hosts : \A s \in Streams(rec[r]) : StreamOK(s)
  /\ \A r \in Hosts : rec[r].known \in BOOLEAN /\ rec[r].meta \in Vectors
  /\ \A r \in Hosts : sess[r].at \in {"idle", "record", "blocks", "vv", "pull", "fetch", "strains"}
  /\ store.blocks \subseteq (Frags \X Dots)

\* Whatever merges, imports and broken syncs a replica went through, it has
\* seen the dot of every fragment it names (has_seen_dot decides every merge by
\* that), and a block it holds is of the version named.
DotsSeen ==
  \A r \in Hosts : \A s \in Streams(rec[r]) : \A f \in Frags :
    HasSeenDot(s.vv, s.map[f]) /\ s.data[f] \in {Hole, s.map[f]}

\* put_record keeps only records none of which has seen another: a puller that
\* imports them all gets every concurrent version and no stale one.
FrontierConcurrent ==
  \A i, j \in DOMAIN store.records :
    i # j => ConcurrentWith(store.records[i].vv, store.records[j].vv)

\* No update is lost: a stream whose vector covers a write holds, in every
\* fragment the write set, that write or one made with knowledge of it.  While
\* no operation drops fragments or changes their size.
Latest(s) ==
  \A e \in log : HasSeenDot(s.vv, e.dot) =>
    \A f \in e.sets \cup e.cuts :
      \/ s.map[f] = IF f \in e.sets THEN e.dot ELSE Hole
      \/ \E g \in log : /\ g # e
                       /\ f \in g.sets \cup g.cuts
                       /\ HasSeenDot(s.vv, g.dot) /\ HasSeenDot(g.vv, e.dot)

NoLostUpdate ==
  Without({"rechunk", "truncate", "empty"}) =>
    \A r \in Hosts : \A s \in Streams(rec[r]) : Latest(s)

\* A replica has the content that its vector says it has seen.
NothingLost == TypeOK /\ DotsSeen /\ NoLostUpdate

\* Two streams with one vector are one version, wherever they were merged: the
\* same fragments, of the same size.  While no operation changes the size.
Version(s) == [map |-> s.map, n |-> s.n, last |-> s.last, exp |-> s.exp]

AllStreams == UNION {Streams(rec[r]) : r \in Hosts}

SameVectorSameUnit ==
  Without({"append", "rechunk", "extend", "truncate", "empty"}) =>
    \A s, t \in AllStreams : s.vv = t.vv => Version(s) = Version(t)

\* The vector of a replica's head never goes back, unless it is truncated to 0.
VectorGrows ==
  [][Without({"empty"})' =>
       \A r \in Hosts : Dominates(rec'[r].head.vv, rec[r].head.vv)]_vars

\* A concurrent version goes away only when the head has taken it in, unless a
\* unit in conflict is written to or truncated to 0.
StrainsKept ==
  [][Without({"in_conflict", "empty"})' =>
       \A r \in Hosts : \A s \in Streams(rec[r]) :
         \/ Dominates(rec'[r].head.vv, s.vv)
         \/ \E t \in Streams(rec'[r]) : t.vv = s.vv]_vars

\* No step takes back what a replica has seen, be it merged or concurrent.
NothingForgotten == VectorGrows /\ StrainsKept

Complete(s) == \A f \in Frags : s.map[f] # Hole => s.data[f] # Hole

\* Once nobody writes, the head of every replica has all its blocks, all agree
\* whether the unit is in conflict, and if it is not they hold the same version.
\* Unless a push was broken off, a unit in conflict written to, or one truncated
\* to 0.
Converges ==
  <>[](Without({"broken push", "empty", "in_conflict"}) =>
         /\ \A r \in Hosts : Complete(rec[r].head)
         /\ \A r, q \in Hosts : rec[r].strains = <<>> =>
              rec[q].strains = <<>> /\ rec[q].head.vv = rec[r].head.vv)

-----------------------------------------------------------------------------
(* What the code does not guarantee (README, Divergences). *)

\* No write drops a concurrent version: it stays until the head has taken it in,
\* or the unit is truncated to 0.
StrainsAlwaysKept ==
  [][Without({"empty"})' =>
       \A r \in Hosts : \A s \in Streams(rec[r]) :
         \/ Dominates(rec'[r].head.vv, s.vv)
         \/ \E t \in Streams(rec'[r]) : t.vv = s.vv]_vars

\* The versions a replica reports as concurrent are concurrent.
StrainsConcurrent ==
  \A r \in Hosts : \A s, t \in Streams(rec[r]) : s # t => ConcurrentWith(s.vv, t.vv)

\* Every strain gets all its blocks, so that read_strain can read it.
StrainsReadable == <>[](\A r \in Hosts : \A s \in Streams(rec[r]) : Complete(s))

\* The vector of a replica's Meta stream never goes back.
MetaGrows == [][\A r \in Hosts : Dominates(rec'[r].meta, rec[r].meta)]_vars

\* The Meta stream of the last writer reaches everyone.
MetaConverges == <>[](\A r, q \in Hosts : rec[r].meta = rec[q].meta)
=============================================================================
