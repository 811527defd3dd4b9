------------------------------- MODULE History -------------------------------
(***************************************************************************)
(* The versions of one unit: overwriting moves the superseded fragments to *)
(* the eviction tail, commits pin fragments with bitmaps, retention thins  *)
(* the tail, and checkout puts an old version together again               *)
(* (version/store.rs, retention.rs, unit.rs).                              *)
(*                                                                         *)
(* Content is a sequence of cells; a write fills its cells with its own    *)
(* version, 0 is a zero byte.  A fragment is one cell, or two once the unit*)
(* is larger than Band.  Crashes, aborted transactions and imports are the *)
(* matter of InPlaceWrite and StoreSync.                                   *)
(***************************************************************************)
EXTENDS Integers, Sequences, FiniteSets, FiniteSetsExt, Functions, TLC

CONSTANTS
  MaxSize,     \* cells
  Band,        \* the largest unit with fragments of one cell
  MaxVer,      \* versions
  MaxChain,    \* records in the parent chain
  MaxCommits,
  MaxTime,
  Schedule,    \* [keep_all, hourly, hour |-> seconds], the first bands of retention
  Keep         \* the horizon of EvictionStrategy::Horizon

VARIABLES
  chain,      \* the content streams of the parent chain, the head first
  live,       \* fragment of the head -> its plaintext in the live slot
  tail,       \* the evicted blocks, freed ones not yet written over included
  journaled,  \* inplace_undo_journaled
  batch,      \* suppress_commit
  stamps,     \* fragment_write_timestamps: fragment -> seconds, of this session
  now,        \* system_time_utc
  commits,    \* the commit records
  was,        \* versions since the last resize -> what was written
  lost,       \* <<fragment, version>> images that are gone
  restarted   \* the stream was emptied, and its version vector with it

vars == <<chain, live, tail, journaled, batch, stamps, now, commits, was, lost, restarted>>

empty_content_stream ==
  [unit_map |-> <<>>, hole |-> <<>>, fragsize |-> 1, last |-> 0, sync |-> 0, pins |-> <<>>]

head == chain[1]
Frags(sm) == DOMAIN sm.unit_map
derive_fragsize_exp(size) == IF size > Band THEN 2 ELSE 1
DivCeil(a, b) == (a + b - 1) \div b
LastLen(size, fs) == IF size = 0 THEN 0 ELSE size - (DivCeil(size, fs) - 1) * fs

stream_byte_len(sm) ==
  IF sm.unit_map = <<>> THEN 0 ELSE (Len(sm.unit_map) - 1) * sm.fragsize + sm.last

MaxVersion(sm) == Max(Range(sm.unit_map))

\* New fragments are holes of version 0.
grow_stream(sm, n) ==
  [sm EXCEPT !.unit_map = [f \in 1 .. Max({n, Len(@)}) |-> IF f <= Len(@) THEN @[f] ELSE 0],
             !.hole = [f \in 1 .. Max({n, Len(@)}) |-> IF f <= Len(@) THEN @[f] ELSE TRUE]]

\* n cells of a plaintext, zeros past its end.
Padded(plain, n) == [k \in 1 .. n |-> IF k <= Len(plain) THEN plain[k] ELSE 0]

FragLen(sm, f) == IF f = Len(sm.unit_map) THEN sm.last ELSE sm.fragsize

\* The bytes of a stream whose fragments have the plaintexts plain[f].
Joined(sm, plain) ==
  [k \in 1 .. stream_byte_len(sm) |->
     LET f == (k - 1) \div sm.fragsize + 1
     IN  Padded(plain[f], FragLen(sm, f))[k - (f - 1) * sm.fragsize]]

\* Engine::read of the head.
read == Joined(head, live)

---------------------------------------------------------------------------
\* Pin bitmaps

\* The commits whose bit for fragment f is set.
PinnedBy(sm, f) == {c \in DOMAIN sm.pins : f \in sm.pins[c]}

\* bitmap_clear_bit for every fragment of F.
ClearBits(sm, F) == [sm EXCEPT !.pins = [c \in DOMAIN @ |-> @[c] \ F]]

---------------------------------------------------------------------------
\* Eviction

Evicted(f) ==
  [frag |-> f, ver |-> head.unit_map[f], commits |-> PinnedBy(head, f), plain |-> live[f],
   ts |-> IF f \in DOMAIN stamps THEN stamps[f] ELSE now, free |-> FALSE]

\* evict_block for the fragments of F; a tail block that was freed may be written
\* over.  The images in gone are given up.
evict_block(F, gone) ==
  \E over \in SUBSET {b \in tail : b.free} :
    /\ Cardinality(over) <= Cardinality(F)
    /\ tail' = (tail \ over) \cup {Evicted(f) : f \in F}
    /\ lost' = lost \cup {<<b.frag, b.ver>> : b \in over}
                    \cup {<<f, head.unit_map[f]>> : f \in gone}

\* publish ends the transaction, unless a batch holds it back.
Publish(j) == journaled' = IF batch THEN j ELSE {}

Supersede(sm) == chain' = <<sm>> \o chain

\* A new version: its fragments are remembered for checkout.
NewVersion(v) ==
  was' = IF restarted THEN was
         ELSE (v :> [content |-> read', frags |-> {<<f, head'.unit_map[f]>> : f \in Frags(head')}])
              @@ was

---------------------------------------------------------------------------
\* Writes

\* stage_write within the fragment size: every touched fragment is read, changed
\* and sealed again under one new dot.  The superseded block goes to the tail with
\* the commits that pin it, once per transaction.
WriteInBand(off, n) ==
  LET old == stream_byte_len(head)
      size == Max({old, off + n})
      fs == IF head.unit_map = <<>> THEN derive_fragsize_exp(off + n) ELSE head.fragsize
      v == head.sync + 1
      sm == grow_stream([head EXCEPT !.fragsize = fs], DivCeil(size, fs))
      F == (off \div fs) + 1 .. ((off + n - 1) \div fs) + 1
      present == {f \in F \cap Frags(head) : ~head.hole[f]}
      plain(f) == [k \in 1 .. Min({fs, size - (f - 1) * fs}) |->
                     LET c == (f - 1) * fs + k IN
                     IF c > off /\ c <= off + n THEN v
                     ELSE IF f \in present /\ k <= Len(live[f]) THEN live[f][k] ELSE 0]
  IN
  /\ derive_fragsize_exp(size) <= fs
  /\ Supersede([ClearBits(sm, F) EXCEPT
                  !.sync = v, !.last = LastLen(size, fs),
                  !.unit_map = [f \in DOMAIN @ |-> IF f \in F THEN v ELSE @[f]],
                  !.hole = [f \in DOMAIN @ |-> f \notin F /\ @[f]]])
  /\ live' = [f \in Frags(sm) |->
                IF f \in F THEN plain(f) ELSE IF f \in Frags(head) THEN live[f] ELSE <<>>]
  /\ evict_block(present \ journaled, present \cap journaled)
  /\ Publish(journaled \cup present)
  /\ stamps' = [f \in F |-> now] @@ stamps
  /\ NewVersion(v)

\* stage_rechunk: the whole content is split again at the new fragment size under
\* one new dot.  Pinned fragments go to the tail, the others are freed.
Rechunk(off, n) ==
  LET size == Max({stream_byte_len(head), off + n})
      fs == derive_fragsize_exp(size)
      v == head.sync + 1
      N == DivCeil(size, fs)
      content == [k \in 1 .. size |-> IF k > off /\ k <= off + n THEN v
                                      ELSE IF k <= Len(read) THEN read[k] ELSE 0]
      present == {f \in Frags(head) : ~head.hole[f]}
      pinned == {f \in present : PinnedBy(head, f) # {}}
  IN
  /\ head.unit_map # <<>> /\ fs > head.fragsize
  /\ Supersede([unit_map |-> [f \in 1 .. N |-> v], hole |-> [f \in 1 .. N |-> FALSE],
                fragsize |-> fs, last |-> LastLen(size, fs), sync |-> v,
                pins |-> [c \in DOMAIN head.pins |-> {}]])
  /\ live' = [f \in 1 .. N |-> SubSeq(content, (f - 1) * fs + 1, Min({f * fs, size}))]
  /\ evict_block(pinned, present \ pinned)
  /\ Publish(journaled)
  /\ stamps' = [f \in 1 .. N |-> now] @@ stamps
  /\ NewVersion(v)

\* A write past the end is refused.
write(off, n) ==
  /\ head.sync < MaxVer /\ Len(chain) < MaxChain
  /\ off <= stream_byte_len(head)
  /\ WriteInBand(off, n) \/ Rechunk(off, n)
  /\ UNCHANGED <<batch, now, commits, restarted>>

---------------------------------------------------------------------------
\* Resizes.  The claims about the versions before end here.

Resized(sm, plain) ==
  /\ Len(chain) < MaxChain
  /\ Supersede(sm)
  /\ live' = plain
  /\ Publish(journaled)
  /\ was' = <<>>
  /\ commits' = [c \in DOMAIN commits |-> [commits[c] EXCEPT !.claim = FALSE]]
  /\ UNCHANGED <<tail, batch, stamps, now, lost>>

\* truncate.  Within a fragment the last one is sealed again under a new dot, at a
\* new place; nothing goes to the tail and no bit is cleared.
truncate(size) ==
  LET fs == head.fragsize
      N == DivCeil(size, fs)
      inside == ~head.hole[N] /\ LastLen(size, fs) < fs
      v == head.sync + 1
  IN
  /\ 0 < size /\ size < stream_byte_len(head) /\ head.sync < MaxVer
  /\ Resized([head EXCEPT
                !.unit_map = [f \in 1 .. N |-> IF f = N /\ inside THEN v ELSE @[f]],
                !.hole = SubSeq(@, 1, N), !.last = LastLen(size, fs), !.sync = v],
             [f \in 1 .. N |-> IF f = N /\ inside
                               THEN SubSeq(read, (N - 1) * fs + 1, size) ELSE live[f]])
  /\ UNCHANGED restarted

\* truncate to 0: an empty stream with an empty version vector and no pins.
truncate_all ==
  /\ stream_byte_len(head) > 0
  /\ Resized(empty_content_stream, <<>>)
  /\ restarted' = TRUE

\* extend: holes, and no new dot in the unit map.
extend(size) ==
  LET fs == IF head.unit_map = <<>> THEN derive_fragsize_exp(size) ELSE head.fragsize
      sm == grow_stream(head, DivCeil(size, fs))
  IN
  /\ size > stream_byte_len(head) /\ head.sync < MaxVer
  /\ Resized([sm EXCEPT !.fragsize = fs, !.last = LastLen(size, fs), !.sync = @ + 1],
             [f \in Frags(sm) |-> IF f \in Frags(head) THEN live[f] ELSE <<>>])
  /\ UNCHANGED restarted

---------------------------------------------------------------------------
\* Commits and batches

\* commit: the head is written again, with a bitmap that has every fragment's bit,
\* and the commit record keeps the newest version.
commit ==
  LET c == Len(commits) + 1
      sm == IF head.unit_map = <<>> THEN head ELSE [head EXCEPT !.pins = (c :> Frags(head)) @@ @]
  IN
  /\ Len(commits) < MaxCommits
  /\ chain' = [chain EXCEPT ![1] = sm]
  /\ commits' = Append(commits, [ver |-> IF head.unit_map = <<>> THEN 0 ELSE MaxVersion(head),
                                 content |-> read,
                                 claim |-> head.unit_map # <<>> /\ ~batch /\ ~restarted])
  /\ Publish(journaled)
  /\ UNCHANGED <<live, tail, batch, stamps, now, was, lost, restarted>>

begin_batch ==
  /\ ~batch /\ batch' = TRUE
  /\ UNCHANGED <<chain, live, tail, journaled, stamps, now, commits, was, lost, restarted>>

commit_batch ==
  /\ batch /\ batch' = FALSE /\ journaled' = {}
  /\ UNCHANGED <<chain, live, tail, stamps, now, commits, was, lost, restarted>>

\* Closed and opened again: the tail scan registers every block it finds, and the
\* write times are forgotten.
reopen ==
  /\ ~batch
  /\ tail' = {[b EXCEPT !.free = FALSE] : b \in tail}
  /\ stamps' = <<>>
  /\ UNCHANGED <<chain, live, journaled, batch, now, commits, was, lost, restarted>>

Tick ==
  /\ now < MaxTime /\ now' = now + 1
  /\ UNCHANGED <<chain, live, tail, journaled, batch, stamps, commits, was, lost, restarted>>

---------------------------------------------------------------------------
\* Retention

is_pinned(b) == b.commits # {}

\* Schedule::bucket.
bucket(b) ==
  LET age == now - b.ts
  IN  CASE age < Schedule.keep_all -> <<"full", b.ts>>
        [] age < Schedule.hourly -> <<"hour", b.ts \div Schedule.hour>>
        [] OTHER -> <<"day", 0>>

\* The blocks to drop.  The time machine keeps the newest of every bucket of a
\* fragment; of several with the same time the first the scan meets.
apply_strategy(s, drop) ==
  \/ s = "keep_all" /\ drop = {}
  \/ s = "horizon" /\ drop = {b \in tail : ~is_pinned(b) /\ now - b.ts >= Keep}
  \/ /\ s = "time_machine"
     /\ \A b \in drop : ~is_pinned(b)
     /\ \A b \in tail :
          LET rivals == {d \in tail : ~is_pinned(d) /\ d.frag = b.frag /\ bucket(d) = bucket(b)}
              newest == {d \in rivals : \A e \in rivals : e.ts <= d.ts}
          IN  ~is_pinned(b) => \E w \in newest : rivals \ drop = {w}

\* The strategy of the header's code; unknown codes drop nothing.
from_eviction_code(code) ==
  CASE code = 0 -> "time_machine" [] code = 2 -> "horizon" [] OTHER -> "keep_all"

\* evict_with_strategy: dropped blocks are freed; their bytes stay until the space
\* is taken.
evict_with_strategy(s) ==
  /\ \E drop \in SUBSET tail :
       /\ apply_strategy(s, drop)
       /\ tail' = {[b EXCEPT !.free = @ \/ b \in drop] : b \in tail}
  /\ Publish(journaled)
  /\ UNCHANGED <<chain, live, batch, stamps, now, commits, was, lost, restarted>>

---------------------------------------------------------------------------
\* Checkout

Err == <<-1>>

\* history: the newest version of every record with content.
history ==
  LET written == {i \in DOMAIN chain : chain[i].unit_map # <<>>}
  IN  [i \in written |-> MaxVersion(chain[i])]

\* The newest record with no version above at.
TargetRecords(at) == {i \in DOMAIN history : history[i] <= at}

\* resolve_with_version: the newest record with the fragment at or below at.
resolve_with_version(f, at) ==
  chain[Min({i \in DOMAIN chain : f \in Frags(chain[i]) /\ chain[i].unit_map[f] <= at})]

\* Mutant of tail_history_index: the newest evicted version of the fragment.
tail_newest(f, v) ==
  LET all == {b \in tail : b.frag = f} IN {b \in all : \A d \in all : d.ver <= b.ver}

\* The tail's images of a fragment version.
tail_history_index(f, v) == {b \in tail : b.frag = f /\ b.ver = v}

\* The image of a fragment for reconstruct_at, Err when it is gone.
Image(f, at, bits) ==
  LET fast == f \in bits /\ f \in Frags(head) /\ ~head.hole[f]
      rec == resolve_with_version(f, at)
      v == rec.unit_map[f]
  IN  IF fast THEN live[f]
      ELSE IF rec.hole[f] THEN <<>>
      ELSE IF f \in Frags(head) /\ head.unit_map[f] = v /\ ~head.hole[f] THEN live[f]
      ELSE IF tail_history_index(f, v) = {} THEN Err
      ELSE (CHOOSE b \in tail_history_index(f, v) : TRUE).plain

reconstruct_at(at, bits) ==
  IF TargetRecords(at) = {} THEN Err
  ELSE LET target == chain[Min(TargetRecords(at))]
           image == [f \in Frags(target) |-> Image(f, at, bits)]
       IN  IF \E f \in DOMAIN image : image[f] = Err THEN Err ELSE Joined(target, image)

checkout(at) == reconstruct_at(at, {})

\* The commit's bitmap in the head is looked at first.
checkout_at_commit(c) ==
  reconstruct_at(commits[c].ver, IF c \in DOMAIN head.pins THEN head.pins[c] ELSE {})

---------------------------------------------------------------------------
Init ==
  /\ chain = <<empty_content_stream>> /\ live = <<>> /\ tail = {}
  /\ journaled = {} /\ batch = FALSE /\ stamps = <<>> /\ now = 0
  /\ commits = <<>> /\ was = <<>> /\ lost = {} /\ restarted = FALSE

Next ==
  \/ \E off \in 0 .. MaxSize - 1 : \E n \in 1 .. MaxSize - off : write(off, n)
  \/ \E size \in 1 .. MaxSize : truncate(size) \/ extend(size)
  \/ truncate_all \/ commit \/ begin_batch \/ commit_batch \/ reopen \/ Tick
  \/ \E code \in 0 .. 2 : evict_with_strategy(from_eviction_code(code))

Spec == Init /\ [][Next]_vars

---------------------------------------------------------------------------
\* Properties

\* As long as the unit is not resized, every version written is listed by history,
\* and checkout returns what was written or, only when retention, a re-chunk or a
\* second overwrite in one batch gave one of its images up, an error; never anything
\* else (reconstruct_at, evict_block).
CheckoutExact ==
  /\ DOMAIN was \subseteq Range(history)
  /\ \A v \in DOMAIN was :
       checkout(v) = was[v].content \/ (checkout(v) = Err /\ was[v].frags \cap lost # {})

\* A commit made outside a batch can be checked out exactly for as long as the unit
\* is not resized, whatever is written, re-chunked or evicted since (the pins of
\* commit, is_pinned in retention).
CommitKept ==
  \A c \in DOMAIN commits : commits[c].claim => checkout_at_commit(c) = commits[c].content

\* checkout_at_commit returns what checkout of the commit's version returns
\* (store.rs, the comment of checkout_at_commit).
FastPathAgrees ==
  \A c \in DOMAIN commits : checkout_at_commit(c) = checkout(commits[c].ver)

\* Retention never drops a block of the full-resolution band (retention.rs,
\* Schedule).
FullResolutionKept ==
  [][\A b \in tail : now - b.ts < Schedule.keep_all /\ ~b.free /\ lost' = lost
                     => [b EXCEPT !.free = TRUE] \notin tail']_vars
=============================================================================
