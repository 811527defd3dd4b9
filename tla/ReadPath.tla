------------------------------ MODULE ReadPath ------------------------------
(***************************************************************************)
(* The read path of the engine: a path is resolved through the resolve     *)
(* cache, the unit's head record comes from the record cache when it still *)
(* sits at the head address, and read_at assembles the requested bytes     *)
(* from whole fragments, short fragments and holes, decrypting real        *)
(* fragments on a pool whose answers arrive in any order.  Around it are   *)
(* the operations that can make either cache stale or leave a fragment     *)
(* shorter than its logical length: create, write, extend, truncate,       *)
(* rename, link, remove, the binding of a path by an import, batches, and  *)
(* a crash followed by a reopen.                                           *)
(*                                                                         *)
(* A record is written at a fresh address and never freed while the engine *)
(* is open, so the id catalog carries the record with its address.  The    *)
(* bytes of a fragment are kept in the record that names it (where the     *)
(* block lies is the subject of InPlaceWrite and Allocator).  `file' is    *)
(* what a POSIX reader expects of each unit.  Files stay below the first   *)
(* re-chunk band, so the fragment size is fixed.  The pending writes of    *)
(* asynchronous mode are laid over a read in AsyncLog.                     *)
(***************************************************************************)
EXTENDS Integers, SequencesExt

CONSTANTS
    Paths, Uuids, NoUnit,  \* path keys, unit ids, and "not bound"
    FragSize,              \* 1 << fragsize_exp, in bytes
    ParMin,                \* PAR_MIN: real fragments from which the pool is used
    ResolveCap, RecordCap, \* RESOLVE_CACHE_CAP, the record cache's cap
    Offsets, Lengths,      \* the offsets and lengths that are written
    Sizes,                 \* the sizes a file is extended or cut to
    MaxSize, MaxAddr,      \* bounds: file size, records written,
    MaxMoves               \* and paths renamed, linked, removed or imported

VARIABLES
    key, id,      \* KeyCatalog: path -> uuid, IdCatalog: uuid -> head record
    frontier,     \* the address of the last record written
    resolve,      \* resolve_cache: path -> uuid, a partial function
    cache,        \* record_cache, least recently used entry first
    batch,        \* suppress_commit
    pub,          \* the catalogs the active header names
    file,         \* the bytes a reader expects of each unit, and as committed
    moves         \* paths renamed, linked, removed or imported so far

vars == <<key, id, frontier, resolve, cache, batch, pub, file, moves>>

Least(a, b) == IF a < b THEN a ELSE b
Most(a, b) == IF a > b THEN a ELSE b
Zeros(n) == [i \in 1..n |-> 0]
Padded(s, n) == s \o Zeros(n - Len(s))

-----------------------------------------------------------------------------
(* Records and their content streams.                                      *)

Hole == [hole |-> TRUE, bytes |-> <<>>]
Real(bytes) == [hole |-> FALSE, bytes |-> bytes]

empty_content_stream == [frags |-> <<>>, last |-> 0]

NoRecord == [addr |-> 0, rec |-> [content |-> FALSE, sm |-> empty_content_stream]]

stream_byte_len(sm) ==
    IF sm.frags = <<>> THEN 0 ELSE (Len(sm.frags) - 1) * FragSize + sm.last

last_frag_length(size) == size - ((size - 1) \div FragSize) * FragSize

grow_stream(frags, n) == frags \o [i \in 1..(n - Len(frags)) |-> Hole]

DivCeil(n) == (n + FragSize - 1) \div FragSize

-----------------------------------------------------------------------------
(* read_at on a decoded record.                                            *)

(* Phase A: what fragment f contributes to the window [off, off + n).      *)
FragPlan(sm, f, off, n) ==
    LET start == f * FragSize
        len == IF f = Len(sm.frags) - 1 THEN sm.last ELSE FragSize
    IN  [hole |-> sm.frags[f + 1].hole,
         cipher |-> sm.frags[f + 1].bytes,
         data |-> <<>>,
         take_from |-> Most(off, start) - start,
         take_to |-> Least(off + n, start + len) - start]

Plan(sm, off, n) ==
    LET first == off \div FragSize
        last == (off + n - 1) \div FragSize
    IN  [i \in 1..(last - first + 1) |-> FragPlan(sm, first + i - 1, off, n)]

RealIdx(plan) == {i \in DOMAIN plan : ~plan[i].hole}

(* The orders in which the opened fragments come back: any, once there are  *)
(* enough for the pool, and otherwise one after the other.                  *)
Arrivals(plan) ==
    LET real == {i \in DOMAIN plan : ~plan[i].hole}
    IN  IF Cardinality(real) >= ParMin THEN SetToSeqs(real)
        ELSE {SetToSortSeq(real, <)}

(* Phase B: each answer names the index it belongs to.                      *)
Opened(plan, order) ==
    FoldLeft(LAMBDA p, i : [p EXCEPT ![i].data = p[i].cipher], plan, order)

(* Phase C: fragments in order; past the bytes a short fragment holds, the *)
(* read is filled with zeros up to take_to.                                *)
Assembled(plan) ==
    LET Piece(p) ==
          IF p.hole THEN Zeros(p.take_to - p.take_from)
          ELSE LET real_end == Least(p.take_to, Len(p.data))
               IN  (IF p.take_from < real_end
                    THEN SubSeq(p.data, p.take_from + 1, real_end) ELSE <<>>)
                   \o Zeros(p.take_to - real_end)
    IN  FlattenSeq([i \in DOMAIN plan |-> Piece(plan[i])])

(* The bytes a read can return.  The window is cut at the end of the file;  *)
(* nothing is read past it.                                                 *)
read_window(rec, off, len) ==
    LET size == stream_byte_len(rec.sm)
        plan == Plan(rec.sm, off, Least(len, size - off))
    IN  IF len = 0 \/ ~rec.content \/ off >= size THEN {<<>>}
        ELSE {Assembled(Opened(plan, order)) : order \in Arrivals(plan)}

-----------------------------------------------------------------------------
(* The two caches.                                                         *)

CacheIndex(u) == {i \in DOMAIN cache : cache[i].uuid = u}

(* Mutant of CacheGet: the head address is not compared.                   *)
CacheGetAnyAddress(u, addr) == {cache[i] : i \in CacheIndex(u)}

(* The entry is valid only at the current head address.                    *)
CacheGet(u, addr) == {cache[i] : i \in {j \in CacheIndex(u) : cache[j].addr = addr}}

CachePut(u, addr, rec) ==
    LET mine(e) == e.uuid # u
        room == IF Len(cache) >= RecordCap /\ CacheIndex(u) = {} THEN Tail(cache) ELSE cache
    IN  IF RecordCap = 0 THEN cache
        ELSE Append(SelectSeq(room, mine), [uuid |-> u, addr |-> addr, rec |-> rec])

(* uuid_for_path: the cached uuid, or the catalog's.                        *)
uuid_for_path(p) == IF p \in DOMAIN resolve THEN resolve[p] ELSE key[p]

(* A miss is entered, after the whole cache is dropped if it is full.       *)
Resolved(p) ==
    IF p \in DOMAIN resolve \/ key[p] = NoUnit THEN resolve
    ELSE LET kept == IF Cardinality(DOMAIN resolve) >= ResolveCap THEN <<>> ELSE resolve
         IN  [q \in DOMAIN kept \cup {p} |-> IF q = p THEN key[p] ELSE kept[q]]

Forget(c, ps) == [q \in DOMAIN c \ ps |-> c[q]]

(* The record read_at works on: the cached one if it is still the head.     *)
HeadRecord(u) ==
    LET hit == CacheGet(u, id[u].addr)
    IN  IF hit # {} THEN (CHOOSE e \in hit : TRUE).rec ELSE id[u].rec

-----------------------------------------------------------------------------
(* Operations.  publish() commits the catalogs unless a batch is open, and  *)
(* drops the record cache.                                                  *)

publish(k, i, f, c) ==
    IF batch
    THEN pub' = pub /\ cache' = c /\ file' = [file EXCEPT !.now = f]
    ELSE /\ pub' = [key |-> k, id |-> i]
         /\ cache' = <<>>
         /\ file' = [now |-> f, committed |-> f]

(* A new head record of u at the next address, bound to path p.             *)
NewHead(p, u, rec, bytes, c) ==
    /\ frontier < MaxAddr
    /\ frontier' = frontier + 1
    /\ id' = [id EXCEPT ![u] = [addr |-> frontier', rec |-> rec]]
    /\ key' = [key EXCEPT ![p] = u]
    /\ publish(key', id', [file.now EXCEPT ![u] = bytes], c)
    /\ UNCHANGED batch

Unused == {u \in Uuids : id[u] = NoRecord}

(* A fresh uuid: which one does not matter.                                 *)
create_unit(p, content) ==
    /\ key[p] = NoUnit
    /\ Unused # {}
    /\ NewHead(p, CHOOSE u \in Unused : TRUE,
               [content |-> content, sm |-> empty_content_stream], <<>>, cache)
    /\ resolve' = Forget(resolve, {p})
    /\ UNCHANGED moves

(* register_unit_uuid: bind p to a unit that is named by its exporter.      *)
register_unit_uuid(p, u) ==
    /\ moves < MaxMoves
    /\ moves' = moves + 1
    /\ key[p] = NoUnit
    /\ IF id[u] = NoRecord
       THEN NewHead(p, u, [content |-> TRUE, sm |-> empty_content_stream], <<>>, cache)
       ELSE /\ key' = [key EXCEPT ![p] = u]
            /\ publish(key', id, file.now, cache)
            /\ UNCHANGED <<id, frontier, batch>>
    /\ resolve' = Forget(resolve, {p})

(* A write of the byte b at [off, off + n): every fragment it touches is    *)
(* rebuilt from its stored bytes; a gap past the end is refused.            *)
Written(sm, off, n, b) ==
    LET size == Most(stream_byte_len(sm), off + n)
        grown == grow_stream(sm.frags, DivCeil(size))
        Rebuilt(f) ==
            LET len == Least(size - f * FragSize, FragSize)
                old == grown[f + 1].bytes
            IN  [i \in 1..len |->
                   IF f * FragSize + i - 1 \in off..(off + n - 1) THEN b
                   ELSE IF i <= Len(old) THEN old[i] ELSE 0]
    IN  [frags |-> [i \in DOMAIN grown |->
                      IF i - 1 \in (off \div FragSize)..((off + n - 1) \div FragSize)
                      THEN Real(Rebuilt(i - 1)) ELSE grown[i]],
         last |-> last_frag_length(size)]

Overwritten(s, off, n, b) ==
    [i \in 1..Most(Len(s), off + n) |->
       IF i - 1 \in off..(off + n - 1) THEN b ELSE IF i <= Len(s) THEN s[i] ELSE 0]

write(p, off, n) ==
    LET u == uuid_for_path(p)
        rec == id[u].rec
    IN  /\ u # NoUnit
        /\ off <= stream_byte_len(rec.sm)
        /\ off + n <= MaxSize
        /\ NewHead(p, u, [content |-> TRUE, sm |-> Written(rec.sm, off, n, frontier + 1)],
                   Overwritten(file.now[u], off, n, frontier + 1), cache)
        /\ resolve' = Resolved(p)
        /\ UNCHANGED moves

extend(p, size) ==
    LET u == uuid_for_path(p)
        rec == id[u].rec
    IN  /\ u # NoUnit
        /\ rec.content
        /\ size > stream_byte_len(rec.sm)
        /\ NewHead(p, u, [content |-> TRUE,
                          sm |-> [frags |-> grow_stream(rec.sm.frags, DivCeil(size)),
                                  last |-> last_frag_length(size)]],
                   Padded(file.now[u], size), cache)
        /\ resolve' = Resolved(p)
        /\ UNCHANGED moves

(* Only the recorded length is cut; the last block keeps its bytes.         *)
CutLength(sm, size) ==
    IF size = 0 THEN empty_content_stream
    ELSE [frags |-> SubSeq(sm.frags, 1, DivCeil(size)), last |-> last_frag_length(size)]

(* A cut inside a real fragment seals it again with its logical bytes only; *)
(* truncate reads the kept bytes through read_at, which fills the cache.    *)
Cut(sm, size) ==
    LET short == CutLength(sm, size)
        n == Len(short.frags)
        logical == Padded(SubSeq(short.frags[n].bytes, 1,
                                 Least(short.last, Len(short.frags[n].bytes))), short.last)
    IN  IF n = 0 \/ short.last = FragSize \/ short.frags[n].hole THEN short
        ELSE [short EXCEPT !.frags[n] = Real(logical)]

truncate(p, size) ==
    LET u == uuid_for_path(p)
        rec == id[u].rec
    IN  /\ u # NoUnit
        /\ rec.content
        /\ size < stream_byte_len(rec.sm)
        /\ NewHead(p, u, [content |-> TRUE, sm |-> Cut(rec.sm, size)],
                   SubSeq(file.now[u], 1, size),
                   IF size = 0 THEN cache ELSE CachePut(u, id[u].addr, HeadRecord(u)))
        /\ resolve' = Resolved(p)
        /\ UNCHANGED moves

rename(old, new) ==
    /\ moves < MaxMoves
    /\ moves' = moves + 1
    /\ key[old] # NoUnit
    /\ key[new] = NoUnit
    /\ key' = [key EXCEPT ![new] = key[old], ![old] = NoUnit]
    /\ resolve' = Forget(resolve, {old, new})
    /\ publish(key', id, file.now, cache)
    /\ UNCHANGED <<id, frontier, batch>>

link(existing, new) ==
    /\ moves < MaxMoves
    /\ moves' = moves + 1
    /\ key[existing] # NoUnit
    /\ key[new] = NoUnit
    /\ key' = [key EXCEPT ![new] = key[existing]]
    /\ resolve' = Forget(resolve, {new})
    /\ publish(key', id, file.now, cache)
    /\ UNCHANGED <<id, frontier, batch>>

remove(p) ==
    /\ moves < MaxMoves
    /\ moves' = moves + 1
    /\ key[p] # NoUnit
    /\ key' = [key EXCEPT ![p] = NoUnit]
    /\ resolve' = Forget(resolve, {p})
    /\ publish(key', id, file.now, cache)
    /\ UNCHANGED <<id, frontier, batch>>

(* What read_at leaves behind: a hit becomes the most recently used entry,  *)
(* a miss is decoded and entered.                                           *)
read_at(p) ==
    LET u == uuid_for_path(p)
    IN  /\ u # NoUnit
        /\ resolve' = Resolved(p)
        /\ cache' = CachePut(u, id[u].addr, HeadRecord(u))
        /\ UNCHANGED <<key, id, frontier, batch, pub, file, moves>>

begin_batch ==
    /\ ~batch
    /\ batch' = TRUE
    /\ UNCHANGED <<key, id, frontier, resolve, cache, pub, file, moves>>

commit_batch ==
    /\ batch
    /\ batch' = FALSE
    /\ pub' = [key |-> key, id |-> id]
    /\ cache' = <<>>
    /\ file' = [file EXCEPT !.committed = file.now]
    /\ UNCHANGED <<key, id, frontier, resolve, moves>>

(* A crash and a reopen: the catalogs the header names, empty caches.       *)
reopen ==
    /\ key' = pub.key
    /\ id' = pub.id
    /\ resolve' = <<>>
    /\ cache' = <<>>
    /\ batch' = FALSE
    /\ file' = [file EXCEPT !.now = file.committed]
    /\ UNCHANGED <<frontier, pub, moves>>

Init ==
    /\ key = [p \in Paths |-> NoUnit]
    /\ id = [u \in Uuids |-> NoRecord]
    /\ frontier = 0
    /\ resolve = <<>>
    /\ cache = <<>>
    /\ batch = FALSE
    /\ moves = 0
    /\ pub = [key |-> key, id |-> id]
    /\ file = [now |-> [u \in Uuids |-> <<>>], committed |-> [u \in Uuids |-> <<>>]]

Next ==
    \/ \E p \in Paths :
         \/ \E content \in BOOLEAN : create_unit(p, content)
         \/ \E u \in Uuids : register_unit_uuid(p, u)
         \/ \E off \in Offsets, n \in Lengths : write(p, off, n)
         \/ \E size \in Sizes : extend(p, size) \/ truncate(p, size)
         \/ \E q \in Paths : rename(p, q) \/ link(p, q)
         \/ remove(p)
         \/ read_at(p)
    \/ begin_batch
    \/ commit_batch
    \/ reopen

Spec == Init /\ [][Next]_vars

-----------------------------------------------------------------------------
(* Properties.                                                              *)

(* One byte, or as much as there is, from every offset.                     *)
Windows == (0..MaxSize - 1) \X {1, MaxSize}

Expected(u, off, len) == SubSeq(file.now[u], off + 1, Least(Len(file.now[u]), off + len))

(* The bytes fragment f of the unit's head really stores.                   *)
Stored(u, off) ==
    LET frags == id[u].rec.sm.frags
        f == off \div FragSize
    IN  f < Len(frags) => frags[f + 1].hole \/ off % FragSize <= Len(frags[f + 1].bytes)

(* A read through both caches (Engine::read_at after uuid_for_path and      *)
(* RecordCache::get) finds exactly the units the catalog binds, and         *)
(* returns, in whatever order the pool answers, the bytes POSIX promises    *)
(* after any sequence of writes, extends, truncates, renames, links,        *)
(* removes and batches: no stale record, no stale binding, no cut byte that *)
(* comes back.  Reads that start inside the part of a short fragment that   *)
(* was never written are excluded here: see ReadsUpToLen.                   *)
ReadsCurrent ==
    \A p \in Paths :
      /\ uuid_for_path(p) = key[p]
      /\ key[p] # NoUnit =>
           LET u == key[p]
               rec == HeadRecord(u)
           IN  \A w \in Windows : Stored(u, w[1]) =>
                 read_window(rec, w[1], w[2]) = {Expected(u, w[1], w[2])}

(* read_at "Read[s] up to `len` bytes": it never returns more bytes than    *)
(* were asked for.                                                          *)
ReadsUpToLen ==
    \A p \in Paths : key[p] # NoUnit =>
      \A w \in Windows : \A bytes \in read_window(HeadRecord(key[p]), w[1], w[2]) :
        Len(bytes) <= w[2]
=============================================================================
