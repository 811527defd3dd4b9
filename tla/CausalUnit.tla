----------------------------- MODULE CausalUnit -----------------------------
(***************************************************************************)
(* One replicated unit (file) as the engine keeps and merges it: version   *)
(* vectors (version/vector.rs), causal dots (block.rs), and what a local   *)
(* operation, an imported record or an imported block makes of the unit's  *)
(* head record (version/store.rs).  Constant-level: the modules that       *)
(* replicate units apply these operators to their state.                   *)
(*                                                                         *)
(* A record is [known, head, strains, meta]: whether the catalogs hold the *)
(* unit, its content stream, the streams of concurrent_strains, and the    *)
(* version vector of its Meta stream (Zero: none).  A stream is            *)
(*   map   unit_map: the dot of every fragment (Hole: version 0)           *)
(*   data  locations: the dot under which the bytes in the fragment's      *)
(*         block were sealed (Hole: no block)                              *)
(*   n     number of fragments         last  last_frag_length              *)
(*   exp   fragsize_exp                vv    version vector                *)
(*   base  of a strain: length of the record chain it was split from       *)
(* Fragment contents are abstracted to the dot that wrote them, a length   *)
(* to a part (1) or the whole (Full) of a fragment.                        *)
(***************************************************************************)
EXTENDS Integers, Sequences, FiniteSets

CONSTANTS
  Hosts,     \* host aliases
  MaxFrags   \* bound: fragments of a unit

ASSUME CausalAssumption == Hosts \subseteq Nat /\ MaxFrags \in Nat \ {0}

Frags == 1 .. MaxFrags
Full == 2

-----------------------------------------------------------------------------
\* VersionVector

Vectors == [Hosts -> Nat]
Zero == [h \in Hosts |-> 0]

Dominates(v, w) == \A h \in Hosts : v[h] >= w[h]
StrictlyDominates(v, w) == Dominates(v, w) /\ v # w
ConcurrentWith(v, w) == ~Dominates(v, w) /\ ~Dominates(w, v)

Join(v, w) == [h \in Hosts |-> IF v[h] >= w[h] THEN v[h] ELSE w[h]]
Bump(v, h) == [v EXCEPT ![h] = @ + 1]

\* block.rs: pack_dot; version 0 is the hole and everyone has seen it.
Hole == [h |-> 0, n |-> 0]
Dots == {Hole} \cup [h : Hosts, n : Nat \ {0}]
DotOf(v, h) == [h |-> h, n |-> v[h]]
HasSeenDot(v, d) == d.n = 0 \/ v[d.h] >= d.n

-----------------------------------------------------------------------------
\* Records

NoFrags == [f \in Frags |-> Hole]
EmptyStream ==
  [map |-> NoFrags, data |-> NoFrags, n |-> 0, last |-> 0, exp |-> 0, vv |-> Zero, base |-> 0]
NoRecord == [known |-> FALSE, head |-> EmptyStream, strains |-> <<>>, meta |-> Zero]

\* create_unit: an empty content stream, its vector empty.
Created == [NoRecord EXCEPT !.known = TRUE]

Streams(r) == {r.head} \cup {r.strains[i] : i \in DOMAIN r.strains}

-----------------------------------------------------------------------------
(* Local operations of host h.  Each writes a fresh record without strains. *)

\* The head's vector bumped, and the fragments fs of the head sealed anew
\* under the resulting dot.
Sealed(s, v, h, fs) ==
  [s EXCEPT !.vv = v,
            !.map = [f \in Frags |-> IF f \in fs THEN DotOf(v, h) ELSE @[f]],
            !.data = [f \in Frags |-> IF f \in fs THEN DotOf(v, h) ELSE @[f]]]

\* Mutant of Write: the causal dot of the last write is used again.
WriteNoBump(r, h, i, j, len) ==
  LET s == r.head  v == IF s.vv[h] = 0 THEN Bump(s.vv, h) ELSE s.vv IN
  [r EXCEPT !.strains = <<>>,
            !.head = [Sealed(s, v, h, i .. j) EXCEPT
                        !.n = IF j > s.n THEN j ELSE s.n,
                        !.last = IF j > s.n \/ (j = s.n /\ len > s.last) THEN len ELSE s.last]]

\* stage_write: bytes of the fragments i .. j, those of fragment j up to len.
Write(r, h, i, j, len) ==
  LET s == r.head IN
  [r EXCEPT !.strains = <<>>,
            !.head = [Sealed(s, Bump(s.vv, h), h, i .. j) EXCEPT
                        !.n = IF j > s.n THEN j ELSE s.n,
                        !.last = IF j > s.n \/ (j = s.n /\ len > s.last) THEN len ELSE s.last]]

\* No gap: the write starts inside the unit, or where its last fragment is full.
NoGap(r, i) == i <= r.head.n \/ (i = r.head.n + 1 /\ (r.head.n = 0 \/ r.head.last = Full))

\* stage_rechunk: the unit outgrew its fragment size; all of it is sealed
\* again as n larger fragments.
Rechunk(r, h, n, len) ==
  LET v == Bump(r.head.vv, h) IN
  [r EXCEPT !.strains = <<>>,
            !.head = [Sealed([@ EXCEPT !.map = NoFrags, !.data = NoFrags], v, h, 1 .. n) EXCEPT
                        !.n = n, !.last = len, !.exp = @ + 1]]

\* extend: holes up to the new size.
Extend(r, h, n, len) ==
  [r EXCEPT !.strains = <<>>,
            !.head.n = n, !.head.last = len, !.head.vv = Bump(@, h)]

Longer(r, n, len) == n > r.head.n \/ (n = r.head.n /\ len > r.head.last)

\* truncate to n > 0 fragments: the last one is sealed again if it was cut.
Truncate(r, h, n, len) ==
  LET s == r.head
      v == Bump(s.vv, h)
      cut == [s EXCEPT !.n = n, !.last = len, !.vv = v,
                       !.map = [f \in Frags |-> IF f <= n THEN @[f] ELSE Hole],
                       !.data = [f \in Frags |-> IF f <= n THEN @[f] ELSE Hole]]
      again == s.data[n] # Hole /\ len < Full
  IN [r EXCEPT !.strains = <<>>,
               !.head = IF again THEN Sealed(cut, v, h, {n}) ELSE cut]

Shorter(r, n, len) == n < r.head.n \/ (n = r.head.n /\ len < r.head.last)

\* truncate to 0: the stream starts over, with it its vector.
TruncateToZero(r) == [r EXCEPT !.strains = <<>>, !.head = EmptyStream]

\* write_meta: the Meta stream has a vector of its own (D-4b).
WriteMeta(r, h) == [r EXCEPT !.strains = <<>>, !.meta = Bump(@, h)]

\* The join of the vectors of all streams of r.
JoinAll(r) == [h \in Hosts |-> CHOOSE k \in {s.vv[h] : s \in Streams(r)} :
                                  \A s \in Streams(r) : s.vv[h] <= k]

\* Mutant of Resolve: the strains' vectors are not joined.
ResolveHeadOnly(r, h, n, len) ==
  [r EXCEPT !.strains = <<>>,
            !.head = [Sealed([@ EXCEPT !.map = NoFrags, !.data = NoFrags], Bump(r.head.vv, h), h, 1 .. n)
                        EXCEPT !.n = n, !.last = len]]

\* resolve_conflict: the caller's bytes or those of one strain, as n fragments.
Resolve(r, h, n, len) ==
  [r EXCEPT !.strains = <<>>,
            !.head = [Sealed([@ EXCEPT !.map = NoFrags, !.data = NoFrags], Bump(JoinAll(r), h), h, 1 .. n)
                        EXCEPT !.n = n, !.last = len]]

-----------------------------------------------------------------------------
(* Imports *)

\* project_record: what a record says of a stream, without its blocks.
Projection(s, meta) ==
  [map |-> s.map, n |-> s.n, last |-> s.last, exp |-> s.exp, vv |-> s.vv, meta |-> meta]

\* A stream made of a projection: every fragment still without its block.
Unfetched(p, base) ==
  [map |-> p.map, data |-> NoFrags, n |-> p.n, last |-> p.last, exp |-> p.exp, vv |-> p.vv,
   base |-> base]

KeepStrains(strains, v) == SelectSeq(strains, LAMBDA s : ~StrictlyDominates(v, s.vv))

\* import_record, case 1: the blocks of fragments that did not change stay.
FastForward(r, p) ==
  [known |-> TRUE,
   head |-> [Unfetched(p, 0) EXCEPT
               !.data = [f \in Frags |-> IF p.map[f] = r.head.map[f] THEN r.head.data[f] ELSE Hole]],
   strains |-> KeepStrains(r.strains, p.vv),
   meta |-> Zero]

\* import_record, case 3: neither side has seen the other's dot.
ConflictAt(l, p, f) ==
  l.map[f] # p.map[f] /\ ~HasSeenDot(l.vv, p.map[f]) /\ ~HasSeenDot(p.vv, l.map[f])

TheirsWins(l, p, f) == l.map[f] # p.map[f] /\ ~HasSeenDot(l.vv, p.map[f])

\* Mutant of AutoMerge: the local fragment always stays.
AutoMergeKeepsLocal(r, p) ==
  [r EXCEPT !.head.vv = Join(@, p.vv),
            !.strains = KeepStrains(@, Join(r.head.vv, p.vv)), !.meta = Zero]

\* Fragment by fragment; the geometry is the local one, but the length of the
\* last fragment is the peer's unless the peer has fewer fragments.
AutoMerge(r, p) ==
  LET l == r.head  theirs(f) == TheirsWins(l, p, f) IN
  [r EXCEPT
     !.head = [l EXCEPT
        !.map = [f \in Frags |-> IF theirs(f) THEN p.map[f] ELSE l.map[f]],
        !.data = [f \in Frags |-> IF theirs(f) THEN Hole ELSE l.data[f]],
        !.n = IF p.n >= l.n THEN p.n ELSE l.n,
        !.last = IF p.n >= l.n THEN p.last ELSE l.last,
        !.vv = Join(l.vv, p.vv)],
     !.strains = KeepStrains(@, Join(l.vv, p.vv)),
     !.meta = Zero]

\* The peer's version becomes a strain, unless one with its vector is there.
StrainSplit(r, p, base) ==
  IF \E i \in DOMAIN r.strains : r.strains[i].vv = p.vv
  THEN r
  ELSE [r EXCEPT !.strains = Append(@, Unfetched(p, base))]

\* The Meta stream of the projection, unless the one still there is newer.
AttachMeta(r, p) ==
  IF p.meta = Zero \/ StrictlyDominates(r.meta, p.meta) THEN r ELSE [r EXCEPT !.meta = p.meta]

\* import_record; base is the length of the chain up to and with the old head.
ImportRecord(r, p, base) ==
  IF StrictlyDominates(r.head.vv, p.vv) THEN r
  ELSE IF ~ConcurrentWith(r.head.vv, p.vv) THEN AttachMeta(FastForward(r, p), p)
  ELSE IF \E f \in Frags : ConflictAt(r.head, p, f) THEN AttachMeta(StrainSplit(r, p, base), p)
  ELSE AttachMeta(AutoMerge(r, p), p)

\* A stream with fragment f at version d, its block holding bytes sealed as b;
\* len is the caller's length of the fragment, kept if it is the last one.
Placed(s, f, d, b, len) ==
  [s EXCEPT !.map[f] = d, !.data[f] = b,
            !.n = IF f > @ THEN f ELSE @, !.last = IF f >= s.n THEN len ELSE @]

\* Mutant of ImportBlock: the block becomes the head's, whatever its version.
ImportBlockUnversioned(r, f, d, b, len) == [r EXCEPT !.head.data[f] = b]

\* import_block: into the head if it names the version, else into the first
\* strain that does, else into the head all the same.
ImportBlock(r, f, d, b, len) ==
  LET owners == {i \in DOMAIN r.strains : r.strains[i].map[f] = d} IN
  IF r.head.map[f] = d \/ owners = {}
  THEN [r EXCEPT !.head = Placed(@, f, d, b, len)]
  ELSE LET i == CHOOSE k \in owners : \A m \in owners : k <= m
       IN [r EXCEPT !.strains[i] = Placed(@, f, d, b, len)]

\* The logical length of fragment f of stream s, as both ends compute it.
FragLen(s, f) == IF f = s.n THEN s.last ELSE Full
=============================================================================
