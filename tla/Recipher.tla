------------------------------ MODULE Recipher ------------------------------
(***************************************************************************)
(* Cipher suites of content blocks (sfs-core/src/version/store.rs, the     *)
(* suites of a record and recipher; sfs-core/src/crypto/negotiate.rs) and  *)
(* their agreement between replicas that sync through a store              *)
(* (sfs-sync/src/lib.rs, steps 0 and 6).                                   *)
(*                                                                         *)
(* A block's bytes do not say which suite sealed them: a record carries    *)
(* one suite for all its fragments and, when they differ, one for each,    *)
(* and a block on the store carries one in its frame.  The model has one   *)
(* unit, written by one replica and read by all, so that versions are      *)
(* totally ordered.  A block is its version and the suite that sealed it.  *)
(***************************************************************************)
EXTENDS Naturals, Sequences, FiniteSets

CONSTANTS
  Replicas,   \* the devices of the account
  Writer,     \* the one that writes the unit
  Rankings,   \* results a device's benchmark may have: suites, fastest first
  MaxFrags,   \* bound: fragments of the unit
  MaxVer,     \* bound: writes of the unit
  MaxSyncs,   \* bound: syncs under way at a time
  MaxBench    \* bound: times a device is found to rank suites otherwise

Suites == {"gcm", "xts", "none"}
Cipher == "gcm"        \* header.cipher, the suite of the metadata
Legacy == "legacy"     \* a record written before suites were recorded

VARIABLES
  cc,      \* header.content_cipher of each replica
  chain,   \* its records of the unit, the head first
  tail,    \* superseded blocks in its eviction tail
  store,   \* the account on the server
  sess,    \* each replica's sync
  bench    \* how often a ranking has changed

vars == <<cc, chain, tail, store, sess, bench>>

Block(v, s) == [ver |-> v, suite |-> s]
Hole == Block(0, "hole")

Idle == [at |-> "idle", want |-> {}, refresh |-> {}]

\* The writer has a unit of two fragments, old enough to record no suite.
Init ==
  /\ cc = [r \in Replicas |-> Cipher]
  /\ chain = [r \in Replicas |->
                IF r # Writer THEN << >>
                ELSE << [vv |-> 1, map |-> <<1, 1>>, loc |-> <<Block(1, Cipher), Block(1, Cipher)>>,
                         cs |-> Legacy, fs |-> << >>] >>]
  /\ tail = [r \in Replicas |-> {}]
  /\ store = [vv |-> 0, rec |-> [vv |-> 0, map |-> << >>], blocks |-> {}, caps |-> [r \in Replicas |-> << >>]]
  /\ sess = [r \in Replicas |-> Idle]
  /\ bench = 0

Head1(r) == Head(chain[r])
Has(r) == chain[r] # << >>
Frags(rec) == 1 .. Len(rec.map)

-----------------------------------------------------------------------------
(* The suites of a record *)

record_content_suite(rec) == IF rec.cs = Legacy THEN Cipher ELSE rec.cs

content_frag_suite_id(rec, f) ==
  IF f <= Len(rec.fs) THEN rec.fs[f] ELSE record_content_suite(rec)

\* The pair (content_suite, frag_suites) of a record whose fragments are under
\* the suites of full; default is the record's own when they differ.
Collapse(full, default) ==
  IF \A f \in DOMAIN full : full[f] = full[1]
  THEN [cs |-> IF full = << >> THEN default ELSE full[1], fs |-> << >>]
  ELSE [cs |-> default, fs |-> full]

Record(vv, map, loc, suites) ==
  [vv |-> vv, map |-> map, loc |-> loc, cs |-> suites.cs, fs |-> suites.fs]

\* import_block: fragment f arrived under suite s.
import_frag_suites(base, n, f, s) ==
  Collapse([i \in 1 .. n |-> IF i = f THEN s ELSE content_frag_suite_id(base, i)], s)

\* Mutant of preserve_frag_suites: a kept block is taken to be under the suite
\* of the importer.
preserve_no_frag_suites(r, map, loc) == Collapse([f \in DOMAIN map |-> cc[r]], cc[r])

\* import_record: blocks that are kept stay under their suites.
preserve_frag_suites(r, map, loc) ==
  Collapse([f \in DOMAIN map |-> IF loc[f] = Hole THEN cc[r] ELSE content_frag_suite_id(Head1(r), f)],
           cc[r])

\* truncate and extend: fragments keep their suites by index.
frag_suites_carryover(r, n) ==
  Collapse([f \in 1 .. n |-> IF f \in Frags(Head1(r)) THEN content_frag_suite_id(Head1(r), f) ELSE cc[r]],
           cc[r])

\* stage_write: the fragments first .. last were sealed under the current suite.
written_frag_suites(r, n, first, last) ==
  LET full == [f \in 1 .. n |->
                 IF f \in first .. last THEN cc[r] ELSE content_frag_suite_id(Head1(r), f)]
  IN [cs |-> cc[r], fs |-> IF \A f \in 1 .. n : full[f] = cc[r] THEN << >> ELSE full]

-----------------------------------------------------------------------------
(* The writer's operations *)

Free(r) == sess[r].at = "idle" /\ Has(r)

Commits(r, rec) == chain' = [chain EXCEPT ![r] = <<rec>> \o @]

max(a, b) == IF a > b THEN a ELSE b

\* write of the fragments first .. last; a gap before them is left as a hole.
Write(r, first, last) ==
  LET old == Head1(r)
      n   == max(Len(old.map), last)
      ver == old.vv + 1
      At(seq, f, hole) == IF f \in Frags(old) THEN seq[f] ELSE hole
  IN
  /\ Free(r) /\ r = Writer /\ old.vv < MaxVer
  /\ Commits(r, Record(ver,
               [f \in 1 .. n |-> IF f \in first .. last THEN ver ELSE At(old.map, f, 0)],
               [f \in 1 .. n |-> IF f \in first .. last THEN Block(ver, cc[r]) ELSE At(old.loc, f, Hole)],
               written_frag_suites(r, n, first, last)))
  /\ tail' = [tail EXCEPT ![r] = @ \cup {[frag |-> f, blk |-> old.loc[f]] :
                f \in {g \in (first .. last) \cap Frags(old) : old.loc[g] # Hole}}]
  /\ UNCHANGED <<cc, store, sess, bench>>

\* truncate to n fragments.  A cut inside the last one seals it again, under its
\* own suite and a new version.
truncate(r, n, inside) ==
  LET old  == Head1(r)
      ver  == old.vv + 1
      cut  == inside /\ old.loc[n] # Hole
      kept == 1 .. n
  IN
  /\ Free(r) /\ r = Writer /\ old.vv < MaxVer
  /\ n \in Frags(old) /\ (n = Len(old.map) => inside)
  /\ Commits(r, Record(ver,
               [f \in kept |-> IF f = n /\ cut THEN ver ELSE old.map[f]],
               [f \in kept |-> IF f = n /\ cut THEN Block(ver, content_frag_suite_id(old, n)) ELSE old.loc[f]],
               frag_suites_carryover(r, n)))
  /\ UNCHANGED <<cc, tail, store, sess, bench>>

extend(r, n) ==
  LET old == Head1(r) IN
  /\ Free(r) /\ r = Writer /\ old.vv < MaxVer
  /\ n \in Len(old.map) + 1 .. MaxFrags
  /\ Commits(r, Record(old.vv + 1,
               [f \in 1 .. n |-> IF f \in Frags(old) THEN old.map[f] ELSE 0],
               [f \in 1 .. n |-> IF f \in Frags(old) THEN old.loc[f] ELSE Hole],
               frag_suites_carryover(r, n)))
  /\ UNCHANGED <<cc, tail, store, sess, bench>>

-----------------------------------------------------------------------------
(* recipher *)

Present(rec) == {f \in Frags(rec) : rec.loc[f] # Hole}

\* The fragments to seal again.
Stale(rec, s) == {f \in Present(rec) : content_frag_suite_id(rec, f) # s}

\* The head is replaced in the chain; a record without stale blocks is left alone.
Resealed(rec, s) ==
  IF Stale(rec, s) = {} THEN rec
  ELSE [rec EXCEPT !.loc = [f \in Frags(rec) |-> IF f \in Stale(rec, s) THEN Block(rec.map[f], s) ELSE rec.loc[f]],
                   !.cs = s, !.fs = << >>]

\* One publish names the new head and the new suite.
recipher(r, s) ==
  /\ cc' = [cc EXCEPT ![r] = s]
  /\ chain' = [chain EXCEPT ![r] = IF Has(r) THEN <<Resealed(Head1(r), s)>> \o Tail(@) ELSE @]

-----------------------------------------------------------------------------
(* negotiate *)

RankIn(list, s) == CHOOSE i \in DOMAIN list : list[i] = s
Listed(list) == {list[i] : i \in DOMAIN list}

worst_rank(peers, s) ==
  LET ranks == {RankIn(list, s) : list \in peers}
  IN CHOOSE w \in ranks : \A x \in ranks : x <= w

security_rank(s) == CASE s = "gcm" -> 0 [] s = "xts" -> 1 [] s = "none" -> 2

Candidates(peers) ==
  LET common == {s \in Suites : \A list \in peers : s \in Listed(list)}
  IN IF common \ {"none"} # {} THEN common \ {"none"} ELSE common

\* The least bad rank, then the stronger suite.
negotiate(peers) ==
  CHOOSE s \in Candidates(peers) :
    \A t \in Candidates(peers) \ {s} :
      \/ worst_rank(peers, s) < worst_rank(peers, t)
      \/ worst_rank(peers, s) = worst_rank(peers, t) /\ security_rank(s) < security_rank(t)

-----------------------------------------------------------------------------
(* SyncEngine::sync_impl *)

To(r, where) == sess' = [sess EXCEPT ![r].at = where]

\* publish_caps.  The benchmark runs once in a process.
publish_caps(r) ==
  /\ sess[r].at = "idle"
  /\ Cardinality({q \in Replicas : sess[q].at # "idle"}) < MaxSyncs
  /\ \E list \in Rankings :
       /\ store' = [store EXCEPT !.caps[r] = list]
       /\ bench' = IF store.caps[r] \in {<< >>, list} THEN bench ELSE bench + 1
  /\ bench' <= MaxBench
  /\ To(r, "negotiate")
  /\ UNCHANGED <<cc, chain, tail>>

\* fetch_caps: nothing to agree on alone, or with nothing in common.
Negotiate(r) ==
  LET others == {q \in Replicas \ {r} : store.caps[q] # << >>}
      peers  == {store.caps[q] : q \in others \cup {r}}
      agreed == others # {} /\ Candidates(peers) # {}
      target == IF agreed THEN negotiate(peers) ELSE cc[r]
  IN
  /\ sess[r].at = "negotiate"
  /\ IF target # cc[r] THEN recipher(r, target) ELSE UNCHANGED <<cc, chain>>
  /\ sess' = [sess EXCEPT ![r].at = "push",
                ![r].refresh = IF ~Has(r) THEN {}
                               ELSE {[frag |-> f, ver |-> Head1(r).map[f]] : f \in Stale(Head1(r), target)}]
  /\ UNCHANGED <<tail, store, bench>>

\* export_block: the first record of the chain that has the fragment at the
\* version or an earlier one must have exactly that, and its block.
Resolve(r, f, v) ==
  {i \in DOMAIN chain[r] :
     /\ f \in Frags(chain[r][i]) /\ chain[r][i].map[f] <= v
     /\ \A j \in 1 .. i - 1 : f \notin Frags(chain[r][j]) \/ chain[r][j].map[f] > v}

Exported(r, f, v) ==
  {i \in Resolve(r, f, v) : chain[r][i].map[f] = v /\ chain[r][i].loc[f] # Hole}

\* frame_block.
Framed(r, f, v) ==
  LET rec == chain[r][CHOOSE i \in Exported(r, f, v) : TRUE]
  IN [frag |-> f, ver |-> v, suite |-> content_frag_suite_id(rec, f), blk |-> rec.loc[f]]

Named(f, v) == {b \in store.blocks : b.frag = f /\ b.ver = v}

\* put_record, when the store has not got this version.
Push(r) ==
  /\ sess[r].at = "push"
  /\ IF Has(r) /\ store.vv < Head1(r).vv
     THEN /\ store' = [store EXCEPT !.rec = [vv |-> Head1(r).vv, map |-> Head1(r).map]]
          /\ To(r, "blocks")
     ELSE To(r, "pull") /\ UNCHANGED store
  /\ UNCHANGED <<cc, chain, tail, bench>>

\* put_blocks, which leaves a block that is there alone.
PutBlocks(r) ==
  LET mine == {f \in Frags(Head1(r)) : Exported(r, f, Head1(r).map[f]) # {}}
      new  == {f \in mine : Named(f, Head1(r).map[f]) = {}}
  IN
  /\ sess[r].at = "blocks"
  /\ store' = [store EXCEPT !.blocks = @ \cup {Framed(r, f, Head1(r).map[f]) : f \in new}]
  /\ To(r, "set_vv")
  /\ UNCHANGED <<cc, chain, tail, bench>>

SetVv(r) ==
  /\ sess[r].at = "set_vv"
  /\ store' = [store EXCEPT !.vv = max(@, Head1(r).vv)]
  /\ To(r, "pull")
  /\ UNCHANGED <<cc, chain, tail, bench>>

\* import_record, when the store's version is ahead: blocks of the same version
\* stay, the others are holes until they arrive.
Pull(r) ==
  LET map == store.rec.map
      kept(f) == Has(r) /\ f \in Frags(Head1(r)) /\ Head1(r).map[f] = map[f]
      loc == [f \in DOMAIN map |-> IF kept(f) THEN Head1(r).loc[f] ELSE Hole]
  IN
  /\ sess[r].at = "pull"
  /\ IF store.rec.vv > (IF Has(r) THEN Head1(r).vv ELSE 0)
     THEN Commits(r, Record(store.rec.vv, map, loc, preserve_frag_suites(r, map, loc)))
     ELSE UNCHANGED chain
  /\ sess' = [sess EXCEPT ![r].at = "import",
                ![r].want = IF ~Has(r)' THEN {}
                            ELSE {f \in Frags(Head1(r)') : Head1(r)'.map[f] # 0 /\ Head1(r)'.loc[f] = Hole}]
  /\ UNCHANGED <<cc, tail, store, bench>>

\* get_blocks and import_block of one of them; one that is not there ends the sync.
import_block(r, f) ==
  LET old  == Head1(r)
      have == Named(f, old.map[f])
      b    == CHOOSE x \in have : TRUE
  IN
  /\ sess[r].at = "import" /\ f \in sess[r].want
  /\ IF have = {}
     THEN sess' = [sess EXCEPT ![r] = Idle] /\ UNCHANGED chain
     ELSE /\ Commits(r, Record(old.vv, old.map, [old.loc EXCEPT ![f] = b.blk],
                               import_frag_suites(old, Len(old.map), f, b.suite)))
          /\ sess' = [sess EXCEPT ![r].want = @ \ {f}]
  /\ UNCHANGED <<cc, tail, store, bench>>

Imported(r) ==
  /\ sess[r].at = "import" /\ sess[r].want = {}
  /\ To(r, "refresh")
  /\ UNCHANGED <<cc, chain, tail, store, bench>>

\* overwrite_block of one of the blocks recipher has sealed again.
Refresh(r, k) ==
  /\ sess[r].at = "refresh" /\ k \in sess[r].refresh
  /\ store' = IF Exported(r, k.frag, k.ver) = {} THEN store
              ELSE [store EXCEPT !.blocks = (@ \ Named(k.frag, k.ver)) \cup {Framed(r, k.frag, k.ver)}]
  /\ sess' = [sess EXCEPT ![r].refresh = @ \ {k}]
  /\ UNCHANGED <<cc, chain, tail, bench>>

Finish(r) ==
  /\ sess[r].at = "refresh" /\ sess[r].refresh = {}
  /\ sess' = [sess EXCEPT ![r] = Idle]
  /\ UNCHANGED <<cc, chain, tail, store, bench>>

\* A call fails or the process ends.
Abort(r) ==
  /\ sess[r].at # "idle"
  /\ sess' = [sess EXCEPT ![r] = Idle]
  /\ UNCHANGED <<cc, chain, tail, store, bench>>

WriterStep(r) ==
  \/ \E first, last \in 1 .. MaxFrags : first <= last /\ Write(r, first, last)
  \/ \E n \in 1 .. MaxFrags : extend(r, n) \/ \E inside \in BOOLEAN : truncate(r, n, inside)

SyncStep(r) ==
  \/ publish_caps(r) \/ Negotiate(r) \/ Push(r) \/ PutBlocks(r) \/ SetVv(r)
  \/ Pull(r) \/ Imported(r) \/ Finish(r) \/ Abort(r)
  \/ \E f \in sess[r].want : import_block(r, f)
  \/ \E k \in sess[r].refresh : Refresh(r, k)

Next == \E r \in Replicas : WriterStep(r) \/ SyncStep(r)

Spec == Init /\ [][Next]_vars

-----------------------------------------------------------------------------
(* What is promised *)

\* The block found for a fragment at a version by a checkout: the head's, or the
\* one in the tail.
Found(r, f, i) ==
  LET v == chain[r][i].map[f] IN
  IF f \in Frags(Head1(r)) /\ Head1(r).map[f] = v
  THEN {Head1(r).loc[f]} \ {Hole}
  ELSE {x.blk : x \in {y \in tail[r] : y.frag = f /\ y.blk.ver = v}}

\* Every block opens under the suite its record or its frame names: the head's on
\* every replica, whatever mixture of suites recipher, writes and imports have
\* left (content_frag_suite_id), those a checkout of an earlier version reads
\* (resolve_with_version), and those on the store that others are to import.
OpensAsStamped ==
  /\ \A r \in Replicas : \A i \in DOMAIN chain[r] : \A f \in Frags(chain[r][i]) :
       LET rec == chain[r][i] IN
       /\ i = 1 /\ rec.loc[f] # Hole => rec.loc[f] = Block(rec.map[f], content_frag_suite_id(rec, f))
       /\ i \in Resolve(r, f, rec.map[f]) /\ chain[r][i].loc[f] # Hole =>
            \A b \in Found(r, f, i) : b.suite = content_frag_suite_id(rec, f)
  /\ \A b \in store.blocks : b.blk = Block(b.ver, b.suite)
=============================================================================
