-------------------------- MODULE MountFileProofs --------------------------
(***************************************************************************)
(* Three properties of a mounted file, for every number of threads,        *)
(* handles, cells, writes, requests and faults: the crash-loss window      *)
(* (LossWindow), what an fsync promises (FsyncDurable) and that a size     *)
(* change is final (NoResurrection).  Each has an inductive invariant of   *)
(* its own on top of the types:                                            *)
(*   - Window ties the operations staged to the ones the window counted;   *)
(*   - Accounted says where an id written through a handle is at any       *)
(*     moment: in the engine, overwritten, dirty in the handle's cache, or *)
(*     taken by the one flush of the handle that is about to stage it;     *)
(*   - Bounded keeps the dirty ranges, and the ones taken by a flush,      *)
(*     below the end of the file while no size change is under way.        *)
(***************************************************************************)
EXTENDS MountFile, NumberFacts, TLAPS

\* Where a thread that flushes, and one that changes the size, may stand.
FlushPcs == {"stage", "commit", "reset", "flush", "release"}
SizePcs == {"size", "bump", "trim", "meta"}
Ranges == [Cells -> {0} \cup Ids]

\* What is known of one thread's record, of one cache and of an engine content.
ThreadOK(r) ==
  /\ r.pc \in {"idle", "insert", "read"} \cup FlushPcs \cup SizePcs
  /\ r.pc \in FlushPcs => r.h \in Handles /\ r.ext \in Ranges /\ r.want \subseteq Ids
  /\ r.pc = "insert" => r.h \in Handles /\ r.len \in 0..NumCells
  /\ r.pc \in SizePcs => r.size \in 0..NumCells
CacheOK(wb) ==
  /\ wb.len \in 0..NumCells /\ wb.ranges \in Ranges
  /\ wb.dirty \in BOOLEAN /\ (wb.dirty = FALSE => wb.ranges = Nothing)
  /\ wb.state = "closed" => wb.ranges = Nothing
ContentOK(c) == c.len \in 0..NumCells /\ c.ids \subseteq Ids

\* Types: what the three invariants need of the shapes of the state.
ThreadTypes == thread = [t \in Threads |-> thread[t]] /\ \A t \in Threads : ThreadOK(thread[t])
CacheTypes == cache = [h \in Handles |-> cache[h]] /\ \A h \in Handles : CacheOK(cache[h])
Types ==
  /\ ThreadTypes /\ CacheTypes
  /\ mine \in [Handles -> SUBSET Ids]
  /\ ContentOK(engine) /\ ContentOK(committed)
  /\ limit \in 0..NumCells
  /\ nextId \in Nat \ {0}
  /\ batching \in BOOLEAN

\* The operations staged are among those the window counted.
Window ==
  /\ window \in 0..COMMIT_MAX_OPS - 1 /\ staged \in Nat
  /\ seen \cap {"late reset", "commit", "write"} = {} =>
       /\ staged <= window
       /\ batching = FALSE => staged = 0
       /\ (\E t \in Threads : At(t, "reset")) => staged = 0

\* The ids of a cache or of a flush, the flushes of a handle about to stage theirs, and
\* what the engine holds or nobody wants any more.
Values(ranges) == {ranges[c] : c \in Cells}
Taken(h) == UNION {Values(thread[t].ext) : t \in Serving(h, {"stage"})}
Settled == engine.ids \cup dropped

\* Every id of a handle is settled, dirty or taken, and so is what an fsync will promise.
Accounted ==
  /\ committed.ids \subseteq engine.ids
  /\ seen \cap {"two flushes", "commit", "write"} = {} =>
       /\ batching = FALSE => committed.ids = engine.ids
       /\ promised \subseteq committed.ids \cup dropped
       /\ \A h \in Handles : mine[h] \subseteq Settled \cup Values(cache[h].ranges) \cup Taken(h)
       /\ \A t \in Threads :
            /\ At(t, "stage") => thread[t].want \subseteq Settled \cup Values(thread[t].ext)
            /\ At(t, "commit") => thread[t].want \subseteq Settled
            /\ At(t, "reset") => thread[t].want \subseteq committed.ids \cup dropped

\* The dirty cells lie below an end, and the thread is in the middle of a size change.
Below(ranges, n) == \A c \in Cells : ranges[c] # 0 => c <= n
Cutting(t) == thread[t].pc \in {"size", "bump", "trim"}

\* Size changes exclude each other (the kernel holds the inode lock over setattr).
Exclusive == \A t, u \in Threads : thread[t].pc \in SizePcs /\ thread[u].pc \in SizePcs => t = u

\* Unless a flush overlaps a size change, nothing dirty or taken lies past the end, and
\* the engine has the size the change asked for.
Bounded ==
  "truncate" \notin seen =>
    /\ (\A t \in Threads : ~Cutting(t)) => engine.len <= limit
    /\ \A h \in Handles : Below(cache[h].ranges, limit)
    /\ \A t \in Threads :
         /\ thread[t].pc = "stage" => Below(thread[t].ext, limit) /\ \A u \in Threads : ~Cutting(u)
         /\ thread[t].pc = "size" => thread[t].current = engine.len
         /\ thread[t].pc \in {"bump", "trim"} => thread[t].size = engine.len

-----------------------------------------------------------------------------
(* Threads: what a step of one thread, and the values told to the readers,  *)
(* do to the others.                                                        *)

\* A thread record is unchanged, or it was a read and still is one.
Like(r, q) == r = q \/ (r.pc = "read" /\ q.pc = "read")
Others(t) == \A u \in Threads \ {t} : Like(thread'[u], thread[u])

LEMMA Constants ==
  /\ NumCells \in Nat \ {0} /\ COMMIT_MAX_OPS \in Nat \ {0} /\ MaxWrites \in Nat
  /\ Cells \subseteq Nat /\ Nothing \in Ranges /\ ~(0 \in Ids)
BY MountFileAssumption DEF MountFileAssumption, Cells, Ids, Nothing, Ranges

\* Told changes nothing but reads.
LEMMA ToldIs ==
  ASSUME NEW threads, NEW cells
  PROVE  /\ Told(threads, cells) = [u \in Threads |-> Told(threads, cells)[u]]
         /\ \A u \in Threads : Like(Told(threads, cells)[u], threads[u])
<1>1. Told(threads, cells) = [u \in Threads |-> Told(threads, cells)[u]]
  BY Zenon DEF Told
<1>2. ASSUME NEW u \in Threads PROVE Like(Told(threads, cells)[u], threads[u])
  BY Zenon DEF Told, Reading, Like
<1> QED
  BY <1>1, <1>2, Zenon

\* Reads carry nothing the invariants speak of.
LEMMA LikeOK == ASSUME NEW r, NEW q, Like(r, q), ThreadOK(q) PROVE ThreadOK(r)
BY Zenon DEF Like, ThreadOK, FlushPcs, SizePcs

\* A thread takes on a record.
LEMMA GotoIs ==
  ASSUME ThreadTypes, NEW t \in Threads, NEW rec, ThreadOK(rec), Goto(t, rec)
  PROVE  ThreadTypes' /\ thread'[t] = rec /\ Others(t)
<1>1. thread' = [u \in Threads |-> IF u = t THEN rec ELSE thread[u]]
  BY Zenon DEF Goto, ThreadTypes
<1>2. \A u \in Threads : thread'[u] = IF u = t THEN rec ELSE thread[u]
  BY <1>1, Zenon
<1>3. thread' = [u \in Threads |-> thread'[u]]
  BY <1>1, <1>2, Zenon
<1>4. \A u \in Threads : ThreadOK(thread'[u])
  BY <1>2, Zenon DEF ThreadTypes
<1> QED
  BY <1>2, <1>3, <1>4, Zenon DEF ThreadTypes, Others, Like

\* A thread takes on a record and the readers are told.
LEMMA ToldGoto ==
  ASSUME ThreadTypes, NEW t \in Threads, NEW rec, ThreadOK(rec), rec.pc # "read", NEW cells,
         thread' = Told([thread EXCEPT ![t] = rec], cells)
  PROVE  ThreadTypes' /\ thread'[t] = rec /\ Others(t)
<1> DEFINE T == [thread EXCEPT ![t] = rec]
<1>1. T = [u \in Threads |-> IF u = t THEN rec ELSE thread[u]]
  BY Zenon DEF ThreadTypes
<1>2. \A u \in Threads : T[u] = IF u = t THEN rec ELSE thread[u]
  BY <1>1, Zenon
<1>3. thread' = Told(T, cells)
  BY Zenon
<1> HIDE DEF T
<1>4. thread' = [u \in Threads |-> thread'[u]] /\ \A u \in Threads : Like(thread'[u], T[u])
  BY <1>3, ToldIs, Zenon
<1>5. \A u \in Threads : ThreadOK(T[u])
  BY <1>2, Zenon DEF ThreadTypes
<1>6. \A u \in Threads : ThreadOK(thread'[u])
  BY <1>4, <1>5, LikeOK, Zenon
<1>7. thread'[t] = rec
  BY <1>2, <1>4, Zenon DEF Like
<1>8. Others(t)
  BY <1>2, <1>4, Zenon DEF Others
<1> QED
  BY <1>4, <1>6, <1>7, <1>8, Zenon DEF ThreadTypes

\* Only the readers are told.
LEMMA ToldAll ==
  ASSUME ThreadTypes, NEW cells, thread' = Told(thread, cells)
  PROVE  ThreadTypes' /\ \A u \in Threads : Like(thread'[u], thread[u])
<1>1. thread' = [u \in Threads |-> thread'[u]] /\ \A u \in Threads : Like(thread'[u], thread[u])
  BY ToldIs, Zenon
<1>2. \A u \in Threads : ThreadOK(thread'[u])
  BY <1>1, LikeOK, Zenon DEF ThreadTypes
<1> QED
  BY <1>1, <1>2, Zenon DEF ThreadTypes

-----------------------------------------------------------------------------
(* Caches and contents keep their types.                                    *)

\* One handle gets a new cache.
LEMMA CacheSet ==
  ASSUME CacheTypes, NEW h \in Handles, NEW wb, CacheOK(wb), cache' = [cache EXCEPT ![h] = wb]
  PROVE  CacheTypes' /\ \A g \in Handles : cache'[g] = IF g = h THEN wb ELSE cache[g]
<1>1. cache' = [g \in Handles |-> IF g = h THEN wb ELSE cache[g]]
  BY Zenon DEF CacheTypes
<1>2. \A g \in Handles : cache'[g] = IF g = h THEN wb ELSE cache[g]
  BY <1>1, Zenon
<1>3. cache' = [g \in Handles |-> cache'[g]]
  BY <1>1, <1>2, Zenon
<1>4. \A g \in Handles : CacheOK(cache'[g])
  BY <1>2, Zenon DEF CacheTypes
<1> QED
  BY <1>2, <1>3, <1>4, Zenon DEF CacheTypes

LEMMA OpenedOK == ASSUME NEW n \in 0..NumCells PROVE CacheOK(Opened(n)) /\ Opened(n).ranges = Nothing
BY Constants, Zenon DEF CacheOK, Opened

LEMMA ClosedOK == CacheOK(Closed) /\ Closed.ranges = Nothing
BY Constants DEF CacheOK, Closed

LEMMA LeakedOK ==
  ASSUME NEW wb, CacheOK(wb) PROVE CacheOK(Leaked(wb)) /\ Leaked(wb).ranges = wb.ranges
BY Zenon DEF CacheOK, Leaked

LEMMA WbTakeOK ==
  ASSUME NEW wb, CacheOK(wb) PROVE CacheOK(WbTake(wb)) /\ WbTake(wb).ranges = Nothing
BY Constants, Zenon DEF CacheOK, WbTake

LEMMA WbWriteOK ==
  ASSUME NEW wb, CacheOK(wb), wb.state = "open", NEW c \in Cells, NEW id \in Ids
  PROVE  /\ CacheOK(WbWrite(wb, c, id))
         /\ WbWrite(wb, c, id).ranges \in Ranges
         /\ \A d \in Cells : WbWrite(wb, c, id).ranges[d] = IF d = c THEN id ELSE wb.ranges[d]
<1> DEFINE rs == [wb.ranges EXCEPT ![c] = id]
           n == Max({wb.len, c})
<1>1. wb.ranges \in Ranges /\ wb.len \in 0..NumCells
  BY Zenon DEF CacheOK
<1>2. rs \in Ranges /\ \A d \in Cells : rs[d] = IF d = c THEN id ELSE wb.ranges[d]
  BY <1>1, Zenon DEF Ranges
<1>3. c \in 0..NumCells
  BY Constants DEF Cells
<1>4. n = IF wb.len <= c THEN c ELSE wb.len
  BY <1>1, <1>3, Constants, MaxOfTwo
<1>5. n \in 0..NumCells
  BY <1>1, <1>3, <1>4, Zenon
<1>6. WbWrite(wb, c, id) = [state |-> wb.state, len |-> n, ranges |-> rs, dirty |-> TRUE]
  BY Zenon DEF WbWrite
<1> HIDE DEF rs, n
<1>7. WbWrite(wb, c, id).ranges = rs
  BY <1>6
<1>8. CacheOK(WbWrite(wb, c, id))
  BY <1>2, <1>5, <1>6 DEF CacheOK
<1> QED
  BY <1>2, <1>7, <1>8, Zenon

LEMMA WbTruncateOK ==
  ASSUME NEW wb, CacheOK(wb), wb.state # "closed", NEW n \in 0..NumCells
  PROVE  /\ CacheOK(WbTruncate(wb, n))
         /\ \A d \in Cells : WbTruncate(wb, n).ranges[d] = IF d > n THEN 0 ELSE wb.ranges[d]
<1> DEFINE rs == [c \in Cells |-> IF c > n THEN 0 ELSE wb.ranges[c]]
<1>1. wb.ranges \in Ranges
  BY Zenon DEF CacheOK
<1>2. rs \in Ranges /\ \A d \in Cells : rs[d] = IF d > n THEN 0 ELSE wb.ranges[d]
  BY <1>1, Zenon DEF Ranges
<1>3. WbTruncate(wb, n) = [state |-> wb.state, len |-> n, ranges |-> rs, dirty |-> TRUE]
  BY Zenon DEF WbTruncate
<1> HIDE DEF rs
<1>4. WbTruncate(wb, n).ranges = rs
  BY <1>3
<1>5. CacheOK(WbTruncate(wb, n))
  BY <1>2, <1>3 DEF CacheOK
<1> QED
  BY <1>2, <1>4, <1>5, Zenon

\* What a flush stages: every id it took is in the engine when all extents are written.
LEMMA StagedIs ==
  ASSUME ContentOK(engine), NEW ext \in Ranges, NEW n \in 0..NumCells
  PROVE  /\ ContentOK(Staged(ext, n))
         /\ engine.ids \subseteq Staged(ext, n).ids
         /\ n = NumCells => Values(ext) \ {0} \subseteq Staged(ext, n).ids
         /\ \A m \in Nat : engine.len <= m /\ Below(ext, m) => Staged(ext, n).len <= m
<1> DEFINE D == {c \in Cells : ext[c] # 0}
           S == {engine.len} \cup D
           I == engine.ids \cup {ext[c] : c \in {d \in D : d <= n}}
           K == [c \in Cells |-> IF c \in D /\ c <= n THEN ext[c] ELSE engine.cells[c]]
<1>1. Staged(ext, n) = [len |-> Max(S), cells |-> K, ids |-> I]
  BY Zenon DEF Staged
<1>2. \A c \in Cells : c \in 0..NumCells /\ ext[c] \in {0} \cup Ids
  BY Constants DEF Ranges, Cells
<1>3. S \in SUBSET Nat /\ S # {} /\ \A x \in S : x \in 0..NumCells
  BY <1>2 DEF ContentOK
<1>4. I \subseteq Ids /\ engine.ids \subseteq I
  BY <1>2, Zenon DEF ContentOK
<1>5. n = NumCells => Values(ext) \ {0} \subseteq I
  BY <1>2 DEF Values
<1>6. ASSUME NEW m \in Nat, engine.len <= m, Below(ext, m) PROVE \A x \in S : x <= m
  BY <1>6, Zenon DEF Below
<1> HIDE DEF S, I, K
<1>7. Max(S) \in S
  BY <1>3, MaxExists, Constants
<1>8. Staged(ext, n).len = Max(S) /\ Staged(ext, n).ids = I
  BY <1>1
<1>9. ContentOK(Staged(ext, n))
  BY <1>3, <1>4, <1>7, <1>8, Zenon DEF ContentOK
<1> QED
  BY <1>4, <1>5, <1>6, <1>7, <1>8, <1>9, Zenon

\* What a size change leaves; it meets the size asked for when the size it read is current.
LEMMA ResizeIs ==
  ASSUME ContentOK(engine), NEW n \in 0..NumCells, NEW current
  PROVE  /\ ContentOK(Resize(n, current))
         /\ Resize(n, current).ids = engine.ids
         /\ current = engine.len => Resize(n, current).len = n
<1> DEFINE l == engine.len
           L == IF n < current THEN Min({l, n}) ELSE IF n > current THEN Max({l, n}) ELSE l
           K == [c \in Cells |-> IF n < current /\ c > n THEN 0 ELSE engine.cells[c]]
<1>1. Resize(n, current) = [len |-> L, cells |-> K, ids |-> engine.ids]
  BY Zenon DEF Resize
<1>2. l \in 0..NumCells /\ engine.ids \subseteq Ids
  BY Zenon DEF ContentOK
<1> HIDE DEF l
<1>3. Min({l, n}) = (IF l <= n THEN l ELSE n) /\ Max({l, n}) = (IF l <= n THEN n ELSE l)
  BY <1>2, Constants, MinOfTwo, MaxOfTwo
<1>4. L \in 0..NumCells /\ (current = l => L = n)
  BY <1>2, <1>3
<1> HIDE DEF L, K
<1>5. Resize(n, current).len = L /\ Resize(n, current).ids = engine.ids
  BY <1>1
<1> QED
  BY <1>2, <1>4, <1>5, Zenon DEF ContentOK, l

-----------------------------------------------------------------------------
(* Every action keeps the types; and what it does to the threads and to the *)
(* dirty ranges.                                                            *)

\* Thread t goes from one point of its request to another, the others stay.
Moves(t, from, to) == thread[t].pc = from /\ thread'[t].pc = to /\ Others(t)
\* Handle h gets the ranges rs, the others keep theirs.
Sets(h, rs) == \A g \in Handles : cache'[g].ranges = IF g = h THEN rs ELSE cache[g].ranges
SameRanges == \A g \in Handles : cache'[g].ranges = cache[g].ranges

LEMMA IdleOK == ThreadOK(Idle) /\ Idle.pc = "idle"
BY Zenon DEF ThreadOK, Idle, FlushPcs, SizePcs

LEMMA FlushingOK ==
  ASSUME NEW r, ThreadOK(r), r.pc \in FlushPcs, NEW pc \in FlushPcs
  PROVE  /\ ThreadOK(Flushing(pc, r)) /\ Flushing(pc, r).pc = pc
         /\ Flushing(pc, r).want = r.want
BY Zenon DEF ThreadOK, Flushing, FlushPcs, SizePcs

LEMMA ResizingOK ==
  ASSUME NEW r, ThreadOK(r), r.pc \in SizePcs, NEW pc \in SizePcs
  PROVE  /\ ThreadOK(Resizing(pc, r)) /\ Resizing(pc, r).pc = pc
         /\ Resizing(pc, r).size = r.size
BY Zenon DEF ThreadOK, Resizing, FlushPcs, SizePcs

LEMMA OpenStartIs ==
  ASSUME Types, NEW t \in Threads, NEW h \in Handles, OpenStart(t, h)
  PROVE  Types' /\ Moves(t, "idle", "insert")
<1> DEFINE rec == [pc |-> "insert", h |-> h, len |-> engine.len]
<1>1. ThreadOK(rec) /\ rec.pc = "insert"
  BY Zenon DEF Types, ContentOK, ThreadOK, FlushPcs, SizePcs
<1>2. Goto(t, rec) /\ thread[t].pc = "idle"
  BY Zenon DEF OpenStart, Accept, At
<1> HIDE DEF rec
<1>3. ThreadTypes' /\ thread'[t] = rec /\ Others(t)
  BY <1>1, <1>2, GotoIs, Zenon DEF Types
<1>4. UNCHANGED <<cache, mine, engine, committed, limit, nextId, batching>>
  BY Zenon DEF OpenStart, handles, store, history
<1>5. Types'
  BY <1>3, <1>4, Zenon DEF Types, CacheTypes
<1> QED
  BY <1>1, <1>2, <1>3, <1>5, Zenon DEF Moves

LEMMA OpenInsertIs ==
  ASSUME Types, NEW t \in Threads, OpenInsert(t)
  PROVE  Types' /\ Moves(t, "insert", "idle") /\ thread[t].h \in Handles /\ Sets(thread[t].h, Nothing)
<1>1. thread[t].pc = "insert" /\ Goto(t, Idle)
  BY Zenon DEF OpenInsert, At
<1>2. ThreadTypes' /\ thread'[t] = Idle /\ Others(t)
  BY <1>1, IdleOK, GotoIs, Zenon DEF Types
<1>3. thread[t].h \in Handles /\ thread[t].len \in 0..NumCells
  BY <1>1, Zenon DEF Types, ThreadTypes, ThreadOK
<1>4. PICK h \in Handles : h = thread[t].h
  BY <1>3, Zenon
<1>5. PICK n \in 0..NumCells : n = thread[t].len
  BY <1>3, Zenon
<1>6. cache' = [cache EXCEPT ![h] = Opened(n)] /\ mine' = [mine EXCEPT ![h] = {}]
  BY <1>4, <1>5, Zenon DEF OpenInsert
<1>7. CacheTypes' /\ \A g \in Handles : cache'[g] = IF g = h THEN Opened(n) ELSE cache[g]
  BY <1>6, OpenedOK, CacheSet, Zenon DEF Types
<1>8. Sets(h, Nothing)
  BY <1>7, OpenedOK, Zenon DEF Sets
<1>9. mine' \in [Handles -> SUBSET Ids]
  BY <1>6, Zenon DEF Types
<1>10. UNCHANGED <<engine, committed, limit, nextId, batching>>
  BY Zenon DEF OpenInsert, store, budgets
<1>11. Types'
  BY <1>2, <1>7, <1>9, <1>10, Zenon DEF Types
<1> QED
  BY <1>1, <1>2, <1>4, <1>8, <1>11, IdleOK, Zenon DEF Moves

LEMMA WriteIs ==
  ASSUME Types, NEW h \in Handles, NEW c \in Cells, Write(h, c)
  PROVE  /\ Types' /\ \A u \in Threads : Like(thread'[u], thread[u])
         /\ nextId \in Ids
         /\ \A g \in Handles : g # h => cache'[g] = cache[g]
         /\ \A d \in Cells : cache'[h].ranges[d] = IF d = c THEN nextId ELSE cache[h].ranges[d]
         /\ limit' \in Nat /\ limit <= limit' /\ c <= limit'
<1>1. ThreadTypes' /\ \A u \in Threads : Like(thread'[u], thread[u])
  BY ToldAll, Zenon DEF Types, Write
<1>2. nextId \in Ids
  BY DEF Types, Write, Ids
<1>3. cache[h].state = "open" /\ CacheOK(cache[h])
  BY Zenon DEF Types, CacheTypes, Write, Live
<1>i. PICK id \in Ids : id = nextId
  BY <1>2, Zenon
<1>w. PICK old : old = cache[h]
  BY Zenon
<1>n. PICK wb : wb = WbWrite(old, c, id)
  BY Zenon
<1>4. CacheOK(wb) /\ \A d \in Cells : wb.ranges[d] = IF d = c THEN id ELSE old.ranges[d]
  BY <1>3, <1>w, <1>n, WbWriteOK
<1>5. cache' = [cache EXCEPT ![h] = wb]
  <2>1. cache' = [cache EXCEPT ![h] = WbWrite(cache[h], c, nextId)]
    BY Zenon DEF Write
  <2>2. wb = WbWrite(cache[h], c, nextId)
    BY <1>i, <1>w, <1>n, Zenon
  <2> QED
    BY <2>1, <2>2, Zenon
<1>6. CacheTypes' /\ \A g \in Handles : cache'[g] = IF g = h THEN wb ELSE cache[g]
  <2>1. CacheOK(wb) /\ CacheTypes
    BY <1>4, Zenon DEF Types
  <2> QED
    BY <2>1, <1>5, CacheSet, Zenon
<1>7. mine' \in [Handles -> SUBSET Ids]
  BY <1>2, Zenon DEF Types, Write
<1>8. limit' = Max({limit, c}) /\ limit \in 0..NumCells /\ c \in 0..NumCells
  BY Constants DEF Write, Types, Cells
<1>9. limit' \in 0..NumCells /\ limit <= limit' /\ c <= limit'
  BY <1>8, MaxOfTwo, Constants
<1>10. UNCHANGED <<engine, committed, batching>> /\ nextId' \in Nat \ {0}
  BY DEF Write, store, Types
<1>11. Types'
  BY <1>1, <1>6, <1>7, <1>9, <1>10, Zenon DEF Types
<1> QED
  BY <1>1, <1>2, <1>4, <1>6, <1>9, <1>11, <1>i, <1>w, Constants

LEMMA ReadStartIs ==
  ASSUME Types, NEW t \in Threads, NEW h \in Handles, NEW c \in Cells, ReadStart(t, h, c)
  PROVE  Types' /\ Moves(t, "idle", "read")
<1> DEFINE rec == [pc |-> "read", h |-> h, c |-> c, gen |-> writeGen,
                   may |-> {latest[h][c]}, own |-> Serving(h, {"stage"}) = {}]
<1>1. ThreadOK(rec) /\ rec.pc = "read"
  BY Zenon DEF ThreadOK, FlushPcs, SizePcs
<1>2. Goto(t, rec) /\ thread[t].pc = "idle"
  BY Zenon DEF ReadStart, Accept, At
<1> HIDE DEF rec
<1>3. ThreadTypes' /\ thread'[t] = rec /\ Others(t)
  BY <1>1, <1>2, GotoIs, Zenon DEF Types
<1>4. UNCHANGED <<cache, mine, engine, committed, limit, nextId, batching>>
  BY Zenon DEF ReadStart, handles, store, history
<1>5. Types'
  BY <1>3, <1>4, Zenon DEF Types, CacheTypes
<1> QED
  BY <1>1, <1>2, <1>3, <1>5, Zenon DEF Moves

LEMMA ReadServeIs ==
  ASSUME Types, NEW t \in Threads, ReadServe(t)
  PROVE  Types' /\ Moves(t, "read", "idle")
<1>1. thread[t].pc = "read" /\ Goto(t, Idle)
  BY Zenon DEF ReadServe, At
<1>2. ThreadTypes' /\ thread'[t] = Idle /\ Others(t)
  BY <1>1, IdleOK, GotoIs, Zenon DEF Types
<1>3. UNCHANGED <<cache, mine, engine, committed, limit, nextId, batching>>
  BY Zenon DEF ReadServe, store, budgets
<1>4. Types'
  BY <1>2, <1>3, Zenon DEF Types, CacheTypes
<1> QED
  BY <1>1, <1>2, <1>4, IdleOK, Zenon DEF Moves

LEMMA FlushTakeIs ==
  ASSUME Types, NEW t \in Threads, NEW h \in Handles, NEW op \in {"flush", "fsync", "release"},
         FlushTake(t, h, op)
  PROVE  /\ Types' /\ Others(t) /\ Sets(h, Nothing)
         /\ thread[t].pc = "idle"
         /\ thread'[t].pc \in {"stage", "commit", "flush", "release"}
         /\ thread'[t].pc # "stage" => cache[h].ranges = Nothing
         /\ thread'[t].h = h /\ thread'[t].ext = cache[h].ranges /\ thread'[t].want = mine[h]
<1>1. PICK wb : wb = cache[h]
  BY Zenon
<1>2. CacheOK(wb) /\ CacheTypes /\ ThreadTypes
  BY <1>1, Zenon DEF Types, CacheTypes
<1>3. PICK new : new = WbTake(wb)
  BY Zenon
<1>4. cache' = [cache EXCEPT ![h] = new]
  <2>1. cache' = [cache EXCEPT ![h] = WbTake(cache[h])]
    BY Zenon DEF FlushTake
  <2> QED
    BY <2>1, <1>1, <1>3, Zenon
<1>5. CacheOK(new) /\ new.ranges = Nothing
  BY <1>2, <1>3, WbTakeOK, Zenon
<1>6. CacheTypes' /\ \A g \in Handles : cache'[g] = IF g = h THEN new ELSE cache[g]
  BY <1>2, <1>4, <1>5, CacheSet, Zenon
<1>7. Sets(h, Nothing)
  BY <1>5, <1>6, Zenon DEF Sets
<1>8. PICK pc : pc = (IF wb.dirty THEN "stage" ELSE IF op = "fsync" THEN "commit" ELSE op)
  BY Zenon
<1>9. pc \in {"stage", "commit", "flush", "release"} /\ (pc # "stage" => wb.ranges = Nothing)
  BY <1>2, <1>8, Zenon DEF CacheOK
<1>10. PICK rec : rec = [pc |-> pc, op |-> op, h |-> h, ext |-> wb.ranges, want |-> mine[h]]
  BY Zenon
<1>11. rec.pc = pc /\ rec.h = h /\ rec.ext = wb.ranges /\ rec.want = mine[h]
  BY <1>10, Zenon
<1>12. ThreadOK(rec)
  BY <1>2, <1>9, <1>11, Zenon DEF ThreadOK, FlushPcs, SizePcs, CacheOK, Types
<1>13. thread' = [u \in Threads |-> IF u = t THEN rec
                    ELSE IF u \in Serving(h, {"read"}) THEN Reading(thread[u], thread[u].may, FALSE)
                    ELSE thread[u]]
  BY <1>1, <1>8, <1>10, Zenon DEF FlushTake
<1>14. \A u \in Threads : thread'[u] = IF u = t THEN rec
                    ELSE IF u \in Serving(h, {"read"}) THEN Reading(thread[u], thread[u].may, FALSE)
                    ELSE thread[u]
  BY <1>13, Zenon
<1>15. thread'[t] = rec /\ thread' = [u \in Threads |-> thread'[u]]
  BY <1>13, <1>14, Zenon
<1>16. \A u \in Threads : Reading(thread[u], thread[u].may, FALSE).pc = "read"
  BY Zenon DEF Reading
<1>17. Others(t)
  BY <1>14, <1>16, Zenon DEF Others, Like, Serving
<1>18. \A u \in Threads : ThreadOK(thread'[u])
  BY <1>2, <1>12, <1>15, <1>17, LikeOK, Zenon DEF Others, ThreadTypes
<1>19. UNCHANGED <<mine, engine, committed, limit, nextId, batching>>
  BY Zenon DEF FlushTake, store
<1>20. Types'
  BY <1>6, <1>15, <1>18, <1>19, Zenon DEF Types, ThreadTypes
<1>21. thread[t].pc = "idle"
  BY Zenon DEF FlushTake, Accept, At
<1> QED
  BY <1>1, <1>7, <1>9, <1>11, <1>15, <1>17, <1>20, <1>21, Zenon

LEMMA AfterStageOK ==
  ASSUME NEW r, ThreadOK(r), r.pc = "stage"
  PROVE  /\ ThreadOK(AfterStage(r)) /\ AfterStage(r).pc \in {"idle", "commit", "release"}
         /\ AfterStage(r).pc = "commit" => AfterStage(r).want = r.want
<1>1. "commit" \in FlushPcs /\ "release" \in FlushPcs /\ r.pc \in FlushPcs
  BY Zenon DEF FlushPcs
<1>2. CASE r.op = "fsync"
  <2>1. AfterStage(r) = Flushing("commit", r)
    BY <1>2, Zenon DEF AfterStage
  <2>2. ThreadOK(Flushing("commit", r)) /\ Flushing("commit", r).pc = "commit"
        /\ Flushing("commit", r).want = r.want
    BY <1>1, FlushingOK, Zenon
  <2> QED
    BY <2>1, <2>2, Zenon
<1>3. CASE r.op = "release"
  <2>1. AfterStage(r) = Flushing("release", r)
    BY <1>3, Zenon DEF AfterStage
  <2>2. "release" # "commit"
    BY Zenon
  <2> QED
    BY <1>1, <2>1, <2>2, FlushingOK, Zenon
<1>4. CASE r.op # "fsync" /\ r.op # "release"
  <2>1. AfterStage(r) = Idle
    BY <1>4, Zenon DEF AfterStage
  <2>2. "idle" # "commit"
    BY Zenon
  <2> QED
    BY <2>1, <2>2, IdleOK, Zenon
<1> QED
  BY <1>2, <1>3, <1>4, Zenon

\* An error of a flush or fsync leaves the ranges of the caches as they are.
LEMMA FailedIs ==
  ASSUME CacheTypes, mine \in [Handles -> SUBSET Ids], NEW r, r.h \in Handles, Failed(r)
  PROVE  CacheTypes' /\ SameRanges /\ mine' \in [Handles -> SUBSET Ids]
<1>1. mine' \in [Handles -> SUBSET Ids]
  BY Zenon DEF Failed
<1>2. CASE r.op = "release"
  <2>1. PICK h \in Handles : h = r.h
    BY Zenon
  <2>2. PICK new : new = Leaked(cache[h])
    BY Zenon
  <2>3. cache' = [cache EXCEPT ![r.h] = Leaked(cache[r.h])]
    BY <1>2, Zenon DEF Failed
  <2>4. cache' = [cache EXCEPT ![h] = new]
    BY <2>1, <2>2, <2>3, Zenon
  <2>5. CacheOK(new)
    BY <2>2, LeakedOK, Zenon DEF CacheTypes
  <2>6. new.ranges = cache[h].ranges
    BY <2>2, LeakedOK, Zenon DEF CacheTypes
  <2>7. CacheTypes' /\ \A g \in Handles : cache'[g] = IF g = h THEN new ELSE cache[g]
    BY <2>4, <2>5, CacheSet, Zenon
  <2> QED
    BY <2>6, <2>7, <1>1, Zenon DEF SameRanges
<1>3. CASE r.op # "release"
  <2>1. cache' = cache
    BY <1>3, Zenon DEF Failed
  <2> QED
    BY <2>1, <1>1, Zenon DEF CacheTypes, SameRanges
<1> QED
  BY <1>2, <1>3, Zenon

LEMMA FlushStageIs ==
  ASSUME Types, NEW t \in Threads, NEW due \in BOOLEAN, NEW fails \in BOOLEAN,
         FlushStage(t, due, fails)
  PROVE  /\ Types' /\ Others(t) /\ SameRanges
         /\ thread[t].pc = "stage" /\ thread[t].ext \in Ranges
         /\ thread'[t].pc \in {"idle", "commit", "release"}
         /\ thread'[t].pc = "commit" => thread'[t].want = thread[t].want
         /\ engine' = Staged(thread[t].ext, NumCells)
<1>1. PICK r : r = thread[t]
  BY Zenon
<1>2. r.pc = "stage" /\ ThreadOK(r) /\ ThreadTypes /\ CacheTypes
  BY <1>1, Zenon DEF FlushStage, At, Types, ThreadTypes
<1>3. r.h \in Handles /\ r.ext \in Ranges
  BY <1>2, Zenon DEF ThreadOK, FlushPcs
<1>4. PICK rec : rec = (IF fails THEN Idle ELSE AfterStage(r))
  BY Zenon
<1>5. ThreadOK(rec) /\ rec.pc \in {"idle", "commit", "release"} /\ (rec.pc = "commit" => rec.want = r.want)
  <2>1. "idle" # "commit"
    BY Zenon
  <2> QED
    BY <1>2, <1>4, <2>1, IdleOK, AfterStageOK, Zenon
<1>6. rec.pc # "read"
  BY <1>5, Zenon
<1>7. PICK cells : cells = latest'
  BY Zenon
<1>8. thread' = Told([thread EXCEPT ![t] = rec], cells)
  BY <1>1, <1>4, <1>7, Zenon DEF FlushStage
<1>9. ThreadTypes' /\ thread'[t] = rec /\ Others(t)
  BY <1>2, <1>5, <1>6, <1>8, ToldGoto, Zenon
<1>10. CacheTypes' /\ SameRanges /\ mine' \in [Handles -> SUBSET Ids]
  <2>1. CASE fails /\ Failed(r)
    BY <2>1, <1>2, <1>3, FailedIs, Zenon DEF Types
  <2>2. CASE UNCHANGED <<mine, cache>>
    BY <2>2, <1>2, Zenon DEF Types, CacheTypes, SameRanges
  <2> QED
    BY <2>1, <2>2, <1>1, Zenon DEF FlushStage
<1>11. PICK e : e = Staged(r.ext, NumCells)
  BY Zenon
<1>12. ContentOK(e)
  BY <1>3, <1>11, StagedIs, Constants DEF Types
<1>13. note_write(e, due, fails)
  BY <1>1, <1>11, Zenon DEF FlushStage
<1>14. engine' = e /\ ContentOK(engine') /\ ContentOK(committed') /\ batching' \in BOOLEAN
  BY <1>12, <1>13, Zenon DEF note_write, Types
<1>15. limit' = limit /\ nextId' = nextId
  BY Zenon DEF FlushStage
<1>16. Types'
  BY <1>9, <1>10, <1>14, <1>15, Zenon DEF Types, ContentOK
<1> QED
  BY <1>1, <1>2, <1>3, <1>5, <1>9, <1>10, <1>11, <1>14, <1>16, Zenon

LEMMA FlushFailsIs ==
  ASSUME Types, NEW t \in Threads, NEW n \in 0..NumCells, FlushFails(t, n)
  PROVE  /\ Types' /\ Moves(t, "stage", "idle") /\ SameRanges
         /\ limit <= limit' /\ engine'.len <= limit'
         /\ engine.ids \subseteq engine'.ids
<1>1. PICK r : r = thread[t]
  BY Zenon
<1>2. r.pc = "stage" /\ ThreadOK(r) /\ ThreadTypes /\ CacheTypes
  BY <1>1, Zenon DEF FlushFails, At, Types, ThreadTypes
<1>3. r.h \in Handles /\ r.ext \in Ranges
  BY <1>2, Zenon DEF ThreadOK, FlushPcs
<1>4. PICK cells : cells = latest'
  BY Zenon
<1>5. thread' = Told([thread EXCEPT ![t] = Idle], cells)
  BY <1>4, Zenon DEF FlushFails
<1>6. Idle.pc # "read"
  BY IdleOK, Zenon
<1>7. ThreadTypes' /\ thread'[t] = Idle /\ Others(t)
  BY <1>2, <1>5, <1>6, IdleOK, ToldGoto, Zenon
<1>8. CacheTypes' /\ SameRanges /\ mine' \in [Handles -> SUBSET Ids]
  <2>1. Failed(r)
    BY <1>1, Zenon DEF FlushFails
  <2> QED
    BY <2>1, <1>2, <1>3, FailedIs, Zenon DEF Types
<1>9. PICK e : e = engine'
  BY Zenon
<1>10. e = Staged(r.ext, n)
  BY <1>1, <1>9, Zenon DEF FlushFails
<1>11. ContentOK(e) /\ engine.ids \subseteq e.ids
  BY <1>3, <1>10, StagedIs, Zenon DEF Types
<1>12. limit' = Max({limit, e.len}) /\ limit \in 0..NumCells /\ e.len \in 0..NumCells
  BY <1>9, <1>11, Zenon DEF FlushFails, Types, ContentOK
<1>13. limit' \in 0..NumCells /\ limit <= limit' /\ e.len <= limit'
  BY <1>12, MaxOfTwo, Constants
<1>14. committed' = committed /\ batching' = TRUE /\ nextId' = nextId
  BY Zenon DEF FlushFails
<1>15. Types'
  BY <1>7, <1>8, <1>9, <1>11, <1>13, <1>14, Zenon DEF Types, ContentOK
<1> QED
  BY <1>1, <1>2, <1>7, <1>8, <1>9, <1>11, <1>13, <1>15, IdleOK, Zenon DEF Moves

LEMMA FsyncCommitIs ==
  ASSUME Types, NEW t \in Threads, NEW fails \in BOOLEAN, FsyncCommit(t, fails)
  PROVE  /\ Types' /\ Others(t) /\ cache' = cache
         /\ thread[t].pc = "commit" /\ thread'[t].pc \in {"idle", "reset"}
         /\ thread'[t].pc = "reset" => fails = FALSE /\ thread'[t].want = thread[t].want
<1>1. PICK r : r = thread[t]
  BY Zenon
<1>2. r.pc = "commit" /\ ThreadOK(r) /\ ThreadTypes
  BY <1>1, Zenon DEF FsyncCommit, At, Types, ThreadTypes
<1>3. r.h \in Handles /\ r.pc \in FlushPcs /\ "reset" \in FlushPcs
  BY <1>2, Zenon DEF ThreadOK, FlushPcs
<1>4. PICK rec : rec = (IF fails THEN Idle ELSE Flushing("reset", r))
  BY Zenon
<1>5. /\ ThreadOK(rec) /\ rec.pc \in {"idle", "reset"}
      /\ rec.pc = "reset" => fails = FALSE /\ rec.want = r.want
  <2>1. "idle" # "reset"
    BY Zenon
  <2>2. /\ ThreadOK(Flushing("reset", r)) /\ Flushing("reset", r).pc = "reset"
        /\ Flushing("reset", r).want = r.want
    BY <1>2, <1>3, FlushingOK, Zenon
  <2> QED
    BY <1>4, <2>1, <2>2, IdleOK, Zenon
<1>6. Goto(t, rec)
  BY <1>1, <1>4, Zenon DEF FsyncCommit
<1>7. ThreadTypes' /\ thread'[t] = rec /\ Others(t)
  BY <1>2, <1>5, <1>6, GotoIs, Zenon
<1>8. mine' \in [Handles -> SUBSET Ids]
  BY <1>3, <1>1, Zenon DEF FsyncCommit, Types
<1>9. cache' = cache /\ engine' = engine /\ limit' = limit /\ nextId' = nextId
  BY Zenon DEF FsyncCommit, handles
<1>10. ContentOK(committed') /\ batching' = FALSE
  BY Zenon DEF FsyncCommit, CommitBatch, Types
<1>11. Types'
  BY <1>7, <1>8, <1>9, <1>10, Zenon DEF Types, CacheTypes, ContentOK
<1> QED
  BY <1>1, <1>2, <1>5, <1>7, <1>9, <1>11, Zenon

LEMMA FsyncResetIs ==
  ASSUME Types, NEW t \in Threads, FsyncReset(t)
  PROVE  Types' /\ Moves(t, "reset", "idle")
<1>1. thread[t].pc = "reset" /\ Goto(t, Idle)
  BY Zenon DEF FsyncReset, At
<1>2. ThreadTypes' /\ thread'[t] = Idle /\ Others(t)
  BY <1>1, IdleOK, GotoIs, Zenon DEF Types
<1>3. UNCHANGED <<cache, mine, engine, committed, limit, nextId, batching>>
  BY Zenon DEF FsyncReset, handles, budgets
<1>4. Types'
  BY <1>2, <1>3, Zenon DEF Types, CacheTypes
<1> QED
  BY <1>1, <1>2, <1>4, IdleOK, Zenon DEF Moves

LEMMA FlushReturnIs ==
  ASSUME Types, NEW t \in Threads, FlushReturn(t)
  PROVE  Types' /\ Moves(t, "flush", "idle")
<1>1. thread[t].pc = "flush" /\ Goto(t, Idle)
  BY Zenon DEF FlushReturn, At
<1>2. ThreadTypes' /\ thread'[t] = Idle /\ Others(t)
  BY <1>1, IdleOK, GotoIs, Zenon DEF Types
<1>3. UNCHANGED <<cache, mine, engine, committed, limit, nextId, batching>>
  BY Zenon DEF FlushReturn, handles, store, history, budgets
<1>4. Types'
  BY <1>2, <1>3, Zenon DEF Types, CacheTypes
<1> QED
  BY <1>1, <1>2, <1>4, IdleOK, Zenon DEF Moves

LEMMA ReleaseIs ==
  ASSUME Types, NEW t \in Threads, Release(t)
  PROVE  /\ Types' /\ Moves(t, "release", "idle") /\ thread[t].h \in Handles
         /\ Sets(thread[t].h, Nothing)
<1>1. thread[t].pc = "release" /\ Goto(t, Idle)
  BY Zenon DEF Release, At
<1>2. ThreadTypes' /\ thread'[t] = Idle /\ Others(t)
  BY <1>1, IdleOK, GotoIs, Zenon DEF Types
<1>3. thread[t].h \in Handles
  BY <1>1, Zenon DEF Types, ThreadTypes, ThreadOK, FlushPcs
<1>4. PICK h \in Handles : h = thread[t].h
  BY <1>3, Zenon
<1>5. cache' = [cache EXCEPT ![h] = Closed] /\ mine' = [mine EXCEPT ![h] = {}]
  BY <1>4, Zenon DEF Release
<1>6. CacheTypes' /\ \A g \in Handles : cache'[g] = IF g = h THEN Closed ELSE cache[g]
  BY <1>5, ClosedOK, CacheSet, Zenon DEF Types
<1>7. Sets(h, Nothing)
  BY <1>6, ClosedOK, Zenon DEF Sets
<1>8. mine' \in [Handles -> SUBSET Ids]
  BY <1>5, Zenon DEF Types
<1>9. UNCHANGED <<engine, committed, limit, nextId, batching>>
  BY Zenon DEF Release, store, budgets
<1>10. Types'
  BY <1>2, <1>6, <1>8, <1>9, Zenon DEF Types
<1> QED
  BY <1>1, <1>2, <1>4, <1>7, <1>10, IdleOK, Zenon DEF Moves

LEMMA SetattrStartIs ==
  ASSUME Types, NEW t \in Threads, NEW n \in 0..NumCells, SetattrStart(t, n)
  PROVE  Types' /\ Moves(t, "idle", "size") /\ thread'[t].current = engine.len
<1> DEFINE rec == [pc |-> "size", h |-> 0, size |-> n, current |-> engine.len]
<1>1. ThreadOK(rec) /\ rec.pc = "size" /\ rec.current = engine.len
  BY Zenon DEF ThreadOK, FlushPcs, SizePcs
<1>2. Goto(t, rec) /\ thread[t].pc = "idle"
  BY Zenon DEF SetattrStart, Accept, At
<1> HIDE DEF rec
<1>3. ThreadTypes' /\ thread'[t] = rec /\ Others(t)
  BY <1>1, <1>2, GotoIs, Zenon DEF Types
<1>4. UNCHANGED <<cache, mine, engine, committed, limit, nextId, batching>>
  BY Zenon DEF SetattrStart, handles, store
<1>5. Types'
  BY <1>3, <1>4, Zenon DEF Types, CacheTypes
<1> QED
  BY <1>1, <1>2, <1>3, <1>5, Zenon DEF Moves

\* A size change goes on to its next point.
LEMMA ResizeMoves ==
  ASSUME Types, NEW t \in Threads, thread[t].pc \in SizePcs, NEW pc \in SizePcs,
         Goto(t, Resizing(pc, thread[t]))
  PROVE  /\ ThreadTypes' /\ thread[t].size \in 0..NumCells
         /\ thread'[t].pc = pc /\ thread'[t].size = thread[t].size /\ Others(t)
<1>1. PICK r : r = thread[t]
  BY Zenon
<1>2. ThreadOK(r) /\ ThreadTypes /\ r.pc \in SizePcs
  BY <1>1, Zenon DEF Types, ThreadTypes
<1>3. PICK rec : rec = Resizing(pc, r)
  BY Zenon
<1>4. ThreadOK(rec) /\ rec.pc = pc /\ rec.size = r.size
  BY <1>2, <1>3, ResizingOK, Zenon
<1>5. Goto(t, rec)
  BY <1>1, <1>3, Zenon
<1>6. ThreadTypes' /\ thread'[t] = rec /\ Others(t)
  BY <1>2, <1>4, <1>5, GotoIs, Zenon
<1>7. r.size \in 0..NumCells
  BY <1>2, Zenon DEF ThreadOK
<1> QED
  BY <1>1, <1>4, <1>6, <1>7, Zenon

LEMMA SetattrSizeIs ==
  ASSUME Types, NEW t \in Threads, SetattrSize(t)
  PROVE  /\ Types' /\ Moves(t, "size", "bump") /\ thread'[t].size = thread[t].size
         /\ cache' = cache
         /\ engine'.ids = engine.ids
         /\ thread[t].current = engine.len => engine'.len = thread[t].size
         /\ engine' = Resize(thread[t].size, thread[t].current)
<1>1. thread[t].pc = "size" /\ "bump" \in SizePcs /\ Goto(t, Resizing("bump", thread[t]))
  BY Zenon DEF SetattrSize, At, SizePcs
<1>2. thread[t].pc \in SizePcs
  BY <1>1, Zenon DEF SizePcs
<1>3. /\ ThreadTypes' /\ thread[t].size \in 0..NumCells
      /\ thread'[t].pc = "bump" /\ thread'[t].size = thread[t].size /\ Others(t)
  BY <1>1, <1>2, ResizeMoves, Zenon
<1>4. PICK n \in 0..NumCells : n = thread[t].size
  BY <1>3, Zenon
<1>5. PICK cur : cur = thread[t].current
  BY Zenon
<1>6. PICK e : e = Resize(n, cur)
  BY Zenon
<1>7. ContentOK(e) /\ e.ids = engine.ids /\ (cur = engine.len => e.len = n)
  BY <1>6, ResizeIs, Zenon DEF Types
<1>8. Mutate(e)
  BY <1>4, <1>5, <1>6, Zenon DEF SetattrSize
<1>9. engine' = e /\ ContentOK(committed')
  BY <1>7, <1>8, Zenon DEF Mutate, Types
<1>10. UNCHANGED <<cache, mine, limit, nextId, batching>>
  BY Zenon DEF SetattrSize, handles, history, budgets
<1>11. Types'
  BY <1>3, <1>7, <1>9, <1>10, Zenon DEF Types, CacheTypes, ContentOK
<1> QED
  BY <1>1, <1>3, <1>4, <1>5, <1>6, <1>7, <1>9, <1>10, <1>11, Zenon DEF Moves

LEMMA SetattrBumpIs ==
  ASSUME Types, NEW t \in Threads, SetattrBump(t)
  PROVE  Types' /\ Moves(t, "bump", "trim") /\ thread'[t].size = thread[t].size
<1>1. thread[t].pc = "bump" /\ "trim" \in SizePcs /\ Goto(t, Resizing("trim", thread[t]))
  BY Zenon DEF SetattrBump, At, SizePcs
<1>2. thread[t].pc \in SizePcs
  BY <1>1, Zenon DEF SizePcs
<1>3. /\ ThreadTypes'
      /\ thread'[t].pc = "trim" /\ thread'[t].size = thread[t].size /\ Others(t)
  BY <1>1, <1>2, ResizeMoves, Zenon
<1>4. UNCHANGED <<cache, mine, engine, committed, limit, nextId, batching>>
  BY Zenon DEF SetattrBump, handles, history, budgets
<1>5. Types'
  BY <1>3, <1>4, Zenon DEF Types, CacheTypes
<1> QED
  BY <1>1, <1>3, <1>5, Zenon DEF Moves

LEMMA SetattrTrimIs ==
  ASSUME Types, NEW t \in Threads, SetattrTrim(t)
  PROVE  /\ Types' /\ Moves(t, "trim", "meta") /\ limit' = thread[t].size
         /\ thread[t].size \in 0..NumCells
         /\ \A g \in Handles : Below(cache'[g].ranges, thread[t].size)
         /\ \A g \in Handles, d \in Cells :
              d <= thread[t].size => cache'[g].ranges[d] = cache[g].ranges[d]
<1>1. PICK r : r = thread[t]
  BY Zenon
<1>2. r.pc = "trim" /\ r.pc \in SizePcs /\ ThreadOK(r) /\ ThreadTypes /\ CacheTypes
  BY <1>1, Zenon DEF SetattrTrim, At, SizePcs, Types, ThreadTypes
<1>3. r.size \in 0..NumCells
  BY <1>2, Zenon DEF ThreadOK
<1>4. PICK n \in 0..NumCells : n = r.size
  BY <1>3, Zenon
<1>5. PICK rec : rec = Resizing("meta", r)
  BY Zenon
<1>6. ThreadOK(rec) /\ rec.pc = "meta"
  BY <1>2, <1>5, ResizingOK, Zenon DEF SizePcs
<1> DEFINE T == [u \in Threads |-> IF u = t THEN rec
                                   ELSE IF thread[u].pc = "read" /\ thread[u].c > n
                                   THEN Reading(thread[u], thread[u].may, FALSE) ELSE thread[u]]
<1>7. PICK cells : cells = latest'
  BY Zenon
<1>8. thread' = Told(T, cells)
  BY <1>1, <1>4, <1>5, <1>7, Zenon DEF SetattrTrim, At
<1>9. T[t] = rec /\ \A u \in Threads \ {t} : Like(T[u], thread[u])
  <2>1. \A u \in Threads : Reading(thread[u], thread[u].may, FALSE).pc = "read"
    BY Zenon DEF Reading
  <2> QED
    BY <2>1, Zenon DEF Like
<1> HIDE DEF T
<1>10. thread' = [u \in Threads |-> thread'[u]] /\ \A u \in Threads : Like(thread'[u], T[u])
  BY <1>8, ToldIs, Zenon
<1>11. thread'[t] = rec
  <2>1. rec.pc # "read"
    BY <1>6, Zenon
  <2> QED
    BY <2>1, <1>9, <1>10, Zenon DEF Like
<1>12. Others(t)
  BY <1>9, <1>10, Zenon DEF Others, Like
<1>13. ThreadTypes'
  <2>1. \A u \in Threads : ThreadOK(thread'[u])
    BY <1>2, <1>6, <1>11, <1>12, LikeOK, Zenon DEF ThreadTypes, Others
  <2> QED
    BY <1>10, <2>1, Zenon DEF ThreadTypes
<1>14. cache' = [h \in Handles |-> IF cache[h].state = "closed" THEN cache[h]
                                   ELSE WbTruncate(cache[h], n)]
  BY <1>1, <1>4, Zenon DEF SetattrTrim
<1>15. \A g \in Handles : cache'[g] = IF cache[g].state = "closed" THEN cache[g]
                                      ELSE WbTruncate(cache[g], n)
  BY <1>14, Zenon
<1>16. ASSUME NEW g \in Handles
       PROVE  /\ CacheOK(cache'[g]) /\ Below(cache'[g].ranges, n)
              /\ \A d \in Cells : d <= n => cache'[g].ranges[d] = cache[g].ranges[d]
  <2>1. PICK wb : wb = cache[g]
    BY Zenon
  <2>2. CacheOK(wb)
    BY <2>1, <1>2, Zenon DEF CacheTypes
  <2>3. PICK new : new = cache'[g]
    BY Zenon
  <2>4. CASE wb.state = "closed"
    <3>1. new = wb
      BY <2>1, <2>3, <2>4, <1>15, Zenon
    <3>2. wb.ranges = Nothing
      BY <2>2, <2>4, Zenon DEF CacheOK
    <3>3. Below(wb.ranges, n)
      BY <3>2, Zenon DEF Below, Nothing
    <3> QED
      BY <2>1, <2>2, <2>3, <3>1, <3>3, Zenon
  <2>5. CASE wb.state # "closed"
    <3>1. new = WbTruncate(wb, n)
      BY <2>1, <2>3, <2>5, <1>15, Zenon
    <3>2. CacheOK(new) /\ \A d \in Cells : new.ranges[d] = IF d > n THEN 0 ELSE wb.ranges[d]
      BY <2>2, <2>5, <3>1, WbTruncateOK, Zenon
    <3>3. Below(new.ranges, n) /\ \A d \in Cells : d <= n => new.ranges[d] = wb.ranges[d]
      <4>1. \A d \in Cells : d > n \/ d <= n
        BY Constants
      <4>2. \A d \in Cells : d <= n => ~(d > n)
        BY Constants
      <4> QED
        BY <3>2, <4>1, <4>2, Zenon DEF Below
    <3> QED
      BY <2>1, <2>3, <3>2, <3>3, Zenon
  <2> QED
    BY <2>4, <2>5, Zenon
<1>17. CacheTypes'
  BY <1>14, <1>15, <1>16, Zenon DEF CacheTypes
<1>18. UNCHANGED <<mine, engine, committed, nextId, batching>> /\ limit' = n
  BY <1>1, <1>4, Zenon DEF SetattrTrim, store, budgets
<1>19. Types'
  BY <1>13, <1>17, <1>18, Zenon DEF Types
<1> QED
  BY <1>1, <1>2, <1>4, <1>6, <1>11, <1>12, <1>16, <1>18, <1>19, Zenon DEF Moves

LEMMA SetattrMetaIs ==
  ASSUME Types, NEW t \in Threads, SetattrMeta(t)
  PROVE  Types' /\ Moves(t, "meta", "idle") /\ cache' = cache /\ engine' = engine
<1>1. thread[t].pc = "meta" /\ Goto(t, Idle)
  BY Zenon DEF SetattrMeta, At
<1>2. ThreadTypes' /\ thread'[t] = Idle /\ Others(t)
  BY <1>1, IdleOK, GotoIs, Zenon DEF Types
<1>3. UNCHANGED <<cache, mine, limit, nextId, batching>>
  BY Zenon DEF SetattrMeta, handles, history, budgets
<1>4. engine' = engine /\ ContentOK(committed')
  BY Zenon DEF SetattrMeta, Mutate, Types
<1>5. Types'
  BY <1>2, <1>3, <1>4, Zenon DEF Types, CacheTypes
<1> QED
  BY <1>1, <1>2, <1>3, <1>4, <1>5, IdleOK, Zenon DEF Moves

LEMMA OtherStageIs ==
  ASSUME Types, NEW due \in BOOLEAN, OtherStage(due)
  PROVE  Types' /\ thread' = thread /\ cache' = cache /\ engine' = engine
<1>1. UNCHANGED <<cache, mine, limit, nextId, thread>>
  BY Zenon DEF OtherStage, handles
<1>2. engine' = engine /\ ContentOK(committed') /\ batching' \in BOOLEAN
  BY Zenon DEF OtherStage, note_write, Types
<1> QED
  BY <1>1, <1>2, Zenon DEF Types, CacheTypes, ThreadTypes

LEMMA OtherPublishIs ==
  ASSUME Types, OtherPublish
  PROVE  Types' /\ thread' = thread /\ cache' = cache /\ engine' = engine
<1>1. UNCHANGED <<cache, mine, limit, nextId, thread, batching>>
  BY Zenon DEF OtherPublish, handles
<1>2. engine' = engine /\ ContentOK(committed')
  BY Zenon DEF OtherPublish, Mutate, Types
<1> QED
  BY <1>1, <1>2, Zenon DEF Types, CacheTypes, ThreadTypes

LEMMA RemountIs ==
  ASSUME Types, NEW c, ContentOK(c), Remount(c), nextId' = nextId
  PROVE  /\ Types' /\ \A t \in Threads : thread'[t].pc = "idle"
         /\ \A h \in Handles : cache'[h].ranges = Nothing /\ mine'[h] = {}
         /\ engine' = c /\ committed' = c /\ limit' = c.len
<1>1. thread' = [t \in Threads |-> Idle] /\ cache' = [h \in Handles |-> Closed]
      /\ mine' = [h \in Handles |-> {}]
  BY Zenon DEF Remount
<1>2. ThreadTypes' /\ \A t \in Threads : thread'[t].pc = "idle"
  BY <1>1, IdleOK, Zenon DEF ThreadTypes
<1>3. CacheTypes' /\ \A h \in Handles : cache'[h].ranges = Nothing /\ mine'[h] = {}
  BY <1>1, ClosedOK, Zenon DEF CacheTypes
<1>4. engine' = c /\ committed' = c /\ limit' = c.len /\ batching' = FALSE
  BY Zenon DEF Remount
<1>5. mine' \in [Handles -> SUBSET Ids]
  BY <1>1, Zenon
<1>6. Types'
  BY <1>2, <1>3, <1>4, <1>5, Zenon DEF Types, ContentOK
<1> QED
  BY <1>2, <1>3, <1>4, <1>6, Zenon

-----------------------------------------------------------------------------
(* The crash-loss window.                                                   *)

Faults(s) == s \cap {"late reset", "commit", "write"}
NoNewReset == \A u \in Threads : thread'[u].pc = "reset" => thread[u].pc = "reset"

LEMMA MovesNoReset ==
  ASSUME NEW t \in Threads, Others(t), thread'[t].pc # "reset" PROVE NoNewReset
BY Zenon DEF Others, Like, NoNewReset

\* Steps that leave the batch and the window alone.
LEMMA WindowFrame ==
  ASSUME Window, UNCHANGED <<window, staged, batching>>, seen \subseteq seen', NoNewReset
  PROVE  Window'
<1>1. Faults(seen') = {} => Faults(seen) = {}
  BY Zenon DEF Faults
<1>2. window \in 0..COMMIT_MAX_OPS - 1 /\ staged \in Nat
  BY Zenon DEF Window
<1>3. Faults(seen) = {} => /\ staged <= window
                           /\ batching = FALSE => staged = 0
                           /\ (\E t \in Threads : thread[t].pc = "reset") => staged = 0
  BY Zenon DEF Window, Faults, At
<1>4. Faults(seen') = {} => ((\E t \in Threads : thread'[t].pc = "reset") => staged = 0)
  BY <1>1, <1>3, Zenon DEF NoNewReset
<1>5. window' = window /\ staged' = staged /\ batching' = batching
  BY Zenon
<1> QED
  BY <1>1, <1>2, <1>3, <1>4, <1>5, Zenon DEF Window, Faults, At

\* The window counts with the operations staged, and starts again before it is full.
LEMMA CountWindow ==
  ASSUME NEW w \in 0..COMMIT_MAX_OPS - 1, NEW s \in Nat, NEW ww, NEW ss, ss = 0 \/ ss = s + 1,
         ww = 0 \/ (ww = w + 1 /\ ~(w + 1 >= COMMIT_MAX_OPS))
  PROVE  /\ ww \in 0..COMMIT_MAX_OPS - 1 /\ ss \in Nat
         /\ s <= w /\ ((ss = 0 /\ ww = 0) \/ (ss = s + 1 /\ ww = w + 1)) => ss <= ww
BY Constants

\* An operation is staged and counted.
LEMMA NoteWriteWindow ==
  ASSUME Window, NEW e, NEW due \in BOOLEAN, NEW fails \in BOOLEAN, note_write(e, due, fails),
         seen \subseteq seen', fails => "commit" \in seen',
         (\E u \in Threads : thread[u].pc = "reset") => "late reset" \in seen', NoNewReset
  PROVE  Window'
<1>1. window \in 0..COMMIT_MAX_OPS - 1 /\ staged \in Nat
  BY Zenon DEF Window
<1>d. due = TRUE => window' = 0
  BY Zenon DEF note_write
<1>n. due = FALSE => window' = window + 1 /\ ~(window + 1 >= COMMIT_MAX_OPS)
  BY Zenon DEF note_write
<1>s. staged' = 0 \/ staged' = staged + 1
  BY Zenon DEF note_write
<1>b. due = TRUE \/ due = FALSE
  BY Zenon
<1>2. window' \in 0..COMMIT_MAX_OPS - 1 /\ staged' \in Nat
  <2>1. window' = 0 \/ (window' = window + 1 /\ ~(window + 1 >= COMMIT_MAX_OPS))
    BY <1>d, <1>n, <1>b, Zenon
  <2> QED
    BY <2>1, <1>1, <1>s, CountWindow, Zenon
<1>3. ASSUME Faults(seen') = {}
      PROVE  /\ staged' <= window'
             /\ batching' = FALSE => staged' = 0
             /\ (\E t \in Threads : thread'[t].pc = "reset") => staged' = 0
  <2>1. Faults(seen) = {} /\ ~("commit" \in seen') /\ ~("late reset" \in seen')
    BY <1>3, Zenon DEF Faults
  <2>2. fails = FALSE /\ ~(\E u \in Threads : thread'[u].pc = "reset")
    BY <2>1, Zenon DEF NoNewReset
  <2>3. staged <= window
    BY <2>1, Zenon DEF Window, Faults
  <2>4. due = TRUE => staged' = 0
    BY <2>2, Zenon DEF note_write
  <2>5. due = FALSE => staged' = staged + 1 /\ batching' = TRUE
    BY Zenon DEF note_write
  <2>6. (staged' = 0 /\ window' = 0) \/ (staged' = staged + 1 /\ window' = window + 1)
    BY <2>4, <2>5, <1>d, <1>n, <1>b, Zenon
  <2>7. staged' <= window'
    <3>1. window' = 0 \/ (window' = window + 1 /\ ~(window + 1 >= COMMIT_MAX_OPS))
      BY <1>d, <1>n, <1>b, Zenon
    <3> QED
      BY <2>3, <2>6, <3>1, <1>1, <1>s, CountWindow, Zenon
  <2>8. batching' = FALSE => staged' = 0
    BY <2>4, <2>5, <1>b, Zenon
  <2> QED
    BY <2>2, <2>7, <2>8, Zenon
<1> QED
  BY <1>2, <1>3, Zenon DEF Window, Faults, At

LEMMA WindowStep == ASSUME Types, Window, Next PROVE Window'
<1>1. ASSUME NEW t \in Threads, NEW h \in Handles, OpenStart(t, h) PROVE Window'
  <2>1. Others(t) /\ thread'[t].pc # "reset"
    BY <1>1, OpenStartIs, Zenon DEF Moves
  <2>2. NoNewReset
    BY <2>1, MovesNoReset, Zenon
  <2>3. UNCHANGED <<window, staged, batching>> /\ seen \subseteq seen'
    BY <1>1, Zenon DEF OpenStart, store, history
  <2> QED
    BY <2>2, <2>3, WindowFrame, Zenon
<1>2. ASSUME NEW t \in Threads, OpenInsert(t) PROVE Window'
  <2>1. Others(t) /\ thread'[t].pc # "reset"
    BY <1>2, OpenInsertIs, Zenon DEF Moves
  <2>2. NoNewReset
    BY <2>1, MovesNoReset, Zenon
  <2>3. UNCHANGED <<window, staged, batching>> /\ seen \subseteq seen'
    BY <1>2, Zenon DEF OpenInsert, store
  <2> QED
    BY <2>2, <2>3, WindowFrame, Zenon
<1>3. ASSUME NEW h \in Handles, NEW c \in Cells, Write(h, c) PROVE Window'
  <2>1. \A u \in Threads : Like(thread'[u], thread[u])
    BY <1>3, WriteIs, Zenon
  <2>2. NoNewReset
    BY <2>1, Zenon DEF NoNewReset, Like
  <2>3. UNCHANGED <<window, staged, batching>> /\ seen \subseteq seen'
    BY <1>3, Zenon DEF Write, store
  <2> QED
    BY <2>2, <2>3, WindowFrame, Zenon
<1>4. ASSUME NEW t \in Threads, NEW h \in Handles, NEW c \in Cells, ReadStart(t, h, c) PROVE Window'
  <2>1. Others(t) /\ thread'[t].pc # "reset"
    BY <1>4, ReadStartIs, Zenon DEF Moves
  <2>2. NoNewReset
    BY <2>1, MovesNoReset, Zenon
  <2>3. UNCHANGED <<window, staged, batching>> /\ seen \subseteq seen'
    BY <1>4, Zenon DEF ReadStart, store, history
  <2> QED
    BY <2>2, <2>3, WindowFrame, Zenon
<1>5. ASSUME NEW t \in Threads, ReadServe(t) PROVE Window'
  <2>1. Others(t) /\ thread'[t].pc # "reset"
    BY <1>5, ReadServeIs, Zenon DEF Moves
  <2>2. NoNewReset
    BY <2>1, MovesNoReset, Zenon
  <2>3. UNCHANGED <<window, staged, batching>> /\ seen \subseteq seen'
    BY <1>5, Zenon DEF ReadServe, store
  <2> QED
    BY <2>2, <2>3, WindowFrame, Zenon
<1>6. ASSUME NEW t \in Threads, NEW h \in Handles, NEW op \in {"flush", "fsync", "release"},
             FlushTake(t, h, op)
      PROVE  Window'
  <2>1. Others(t) /\ thread'[t].pc \in {"stage", "commit", "flush", "release"}
    BY <1>6, FlushTakeIs
  <2>2. thread'[t].pc # "reset"
    BY <2>1, Zenon
  <2>3. NoNewReset
    BY <2>1, <2>2, MovesNoReset, Zenon
  <2>4. UNCHANGED <<window, staged, batching>> /\ seen \subseteq seen'
    BY <1>6, Zenon DEF FlushTake, store
  <2> QED
    BY <2>3, <2>4, WindowFrame, Zenon
<1>7. ASSUME NEW t \in Threads, NEW due \in BOOLEAN, NEW fails \in BOOLEAN, FlushStage(t, due, fails)
      PROVE  Window'
  <2>1. Others(t) /\ thread'[t].pc \in {"idle", "commit", "release"}
    BY <1>7, FlushStageIs, Zenon
  <2>2. thread'[t].pc # "reset"
    BY <2>1, Zenon
  <2>3. NoNewReset
    BY <2>1, <2>2, MovesNoReset, Zenon
  <2>4. PICK e : note_write(e, due, fails)
    BY <1>7, Zenon DEF FlushStage
  <2>5. seen \subseteq seen' /\ (fails => "commit" \in seen')
    BY <1>7, Zenon DEF FlushStage
  <2>6. (\E u \in Threads : thread[u].pc = "reset") => "late reset" \in seen'
    BY <1>7, Zenon DEF FlushStage, At
  <2> QED
    BY <2>3, <2>4, <2>5, <2>6, NoteWriteWindow, Zenon
<1>8. ASSUME NEW t \in Threads, NEW n \in 0..NumCells, FlushFails(t, n) PROVE Window'
  <2>1. window' = window /\ staged' = staged /\ "write" \in seen'
    BY <1>8, Zenon DEF FlushFails
  <2>2. ~(Faults(seen') = {})
    BY <2>1, Zenon DEF Faults
  <2> QED
    BY <2>1, <2>2, Zenon DEF Window, Faults
<1>9. ASSUME NEW t \in Threads, NEW fails \in BOOLEAN, FsyncCommit(t, fails) PROVE Window'
  <2>1. window' = window /\ staged' = (IF batching /\ ~fails THEN 0 ELSE staged)
        /\ seen' = IF fails THEN seen \cup {"commit"} ELSE seen
    BY <1>9, Zenon DEF FsyncCommit, CommitBatch
  <2>2. window \in 0..COMMIT_MAX_OPS - 1 /\ staged \in Nat
    BY Zenon DEF Window
  <2>3. window' \in 0..COMMIT_MAX_OPS - 1 /\ staged' \in Nat
    BY <2>1, <2>2, Zenon
  <2>4. CASE fails = TRUE
    <3>1. ~(Faults(seen') = {})
      BY <2>1, <2>4, Zenon DEF Faults
    <3> QED
      BY <2>3, <3>1, Zenon DEF Window, Faults
  <2>5. CASE fails = FALSE
    <3>1. seen' = seen
      BY <2>1, <2>5, Zenon
    <3>2. Faults(seen) = {} => staged' = 0
      BY <2>1, <2>5, Zenon DEF Window, Faults, Types
    <3>3. 0 <= window'
      BY <2>3
    <3> QED
      BY <2>3, <3>1, <3>2, <3>3, Zenon DEF Window, Faults
  <2> QED
    BY <2>4, <2>5, Zenon
<1>10. ASSUME NEW t \in Threads, FsyncReset(t) PROVE Window'
  <2>1. window' = 0 /\ staged' = staged /\ seen' = seen /\ thread[t].pc = "reset"
    BY <1>10, Zenon DEF FsyncReset, At
  <2>2. Faults(seen) = {} => staged = 0
    BY <2>1, Zenon DEF Window, Faults, At
  <2>3. 0 <= 0 /\ 0 \in 0..COMMIT_MAX_OPS - 1
    BY Constants
  <2>4. staged \in Nat
    BY Zenon DEF Window
  <2> QED
    BY <2>1, <2>2, <2>3, <2>4, Zenon DEF Window, Faults
<1>11. ASSUME NEW t \in Threads, FlushReturn(t) PROVE Window'
  <2>1. Others(t) /\ thread'[t].pc # "reset"
    BY <1>11, FlushReturnIs, Zenon DEF Moves
  <2>2. NoNewReset
    BY <2>1, MovesNoReset, Zenon
  <2>3. UNCHANGED <<window, staged, batching>> /\ seen \subseteq seen'
    BY <1>11, Zenon DEF FlushReturn, store, history
  <2> QED
    BY <2>2, <2>3, WindowFrame, Zenon
<1>12. ASSUME NEW t \in Threads, Release(t) PROVE Window'
  <2>1. Others(t) /\ thread'[t].pc # "reset"
    BY <1>12, ReleaseIs, Zenon DEF Moves
  <2>2. NoNewReset
    BY <2>1, MovesNoReset, Zenon
  <2>3. UNCHANGED <<window, staged, batching>> /\ seen \subseteq seen'
    BY <1>12, Zenon DEF Release, store
  <2> QED
    BY <2>2, <2>3, WindowFrame, Zenon
<1>13. ASSUME NEW t \in Threads, NEW n \in 0..NumCells, SetattrStart(t, n) PROVE Window'
  <2>1. Others(t) /\ thread'[t].pc # "reset"
    BY <1>13, SetattrStartIs, Zenon DEF Moves
  <2>2. NoNewReset
    BY <2>1, MovesNoReset, Zenon
  <2>3. UNCHANGED <<window, staged, batching>> /\ seen \subseteq seen'
    BY <1>13, Zenon DEF SetattrStart, store
  <2> QED
    BY <2>2, <2>3, WindowFrame, Zenon
<1>14. ASSUME NEW t \in Threads, SetattrSize(t) PROVE Window'
  <2>1. Others(t) /\ thread'[t].pc # "reset"
    BY <1>14, SetattrSizeIs, Zenon DEF Moves
  <2>2. NoNewReset
    BY <2>1, MovesNoReset, Zenon
  <2>3. UNCHANGED <<window, staged, batching>> /\ seen \subseteq seen'
    BY <1>14, Zenon DEF SetattrSize, history
  <2> QED
    BY <2>2, <2>3, WindowFrame, Zenon
<1>15. ASSUME NEW t \in Threads, SetattrBump(t) PROVE Window'
  <2>1. Others(t) /\ thread'[t].pc # "reset"
    BY <1>15, SetattrBumpIs, Zenon DEF Moves
  <2>2. NoNewReset
    BY <2>1, MovesNoReset, Zenon
  <2>3. UNCHANGED <<window, staged, batching>> /\ seen \subseteq seen'
    BY <1>15, Zenon DEF SetattrBump, history
  <2> QED
    BY <2>2, <2>3, WindowFrame, Zenon
<1>16. ASSUME NEW t \in Threads, SetattrTrim(t) PROVE Window'
  <2>1. Others(t) /\ thread'[t].pc # "reset"
    BY <1>16, SetattrTrimIs, Zenon DEF Moves
  <2>2. NoNewReset
    BY <2>1, MovesNoReset, Zenon
  <2>3. UNCHANGED <<window, staged, batching>> /\ seen \subseteq seen'
    BY <1>16, Zenon DEF SetattrTrim, store
  <2> QED
    BY <2>2, <2>3, WindowFrame, Zenon
<1>17. ASSUME NEW t \in Threads, SetattrMeta(t) PROVE Window'
  <2>1. Others(t) /\ thread'[t].pc # "reset"
    BY <1>17, SetattrMetaIs, Zenon DEF Moves
  <2>2. NoNewReset
    BY <2>1, MovesNoReset, Zenon
  <2>3. UNCHANGED <<window, staged, batching>> /\ seen \subseteq seen'
    BY <1>17, Zenon DEF SetattrMeta, history
  <2> QED
    BY <2>2, <2>3, WindowFrame, Zenon
<1>18. ASSUME NEW due \in BOOLEAN, OtherStage(due) PROVE Window'
  <2>1. NoNewReset
    BY <1>18, OtherStageIs, Zenon DEF NoNewReset
  <2>2. PICK fails \in BOOLEAN : fails = FALSE
    BY Zenon
  <2>3. PICK e : note_write(e, due, fails)
    BY <1>18, <2>2, Zenon DEF OtherStage
  <2>4. seen \subseteq seen' /\ (fails => "commit" \in seen')
    BY <1>18, <2>2, Zenon DEF OtherStage
  <2>5. (\E u \in Threads : thread[u].pc = "reset") => "late reset" \in seen'
    BY <1>18, Zenon DEF OtherStage, At
  <2> QED
    BY <2>1, <2>3, <2>4, <2>5, NoteWriteWindow, Zenon
<1>19. ASSUME OtherPublish PROVE Window'
  <2>1. window' = window /\ staged' = (IF batching THEN staged ELSE 0) /\ batching' = batching
        /\ seen' = seen /\ thread' = thread
    BY <1>19, Zenon DEF OtherPublish
  <2>2. window \in 0..COMMIT_MAX_OPS - 1 /\ staged \in Nat
    BY Zenon DEF Window
  <2>3. 0 <= window /\ 0 \in Nat
    BY <2>2, Constants
  <2> QED
    BY <2>1, <2>2, <2>3, Zenon DEF Window, At
<1>20. ASSUME NEW c, Remount(c) PROVE Window'
  <2>1. window' = 0 /\ staged' = 0
    BY <1>20, Zenon DEF Remount
  <2>2. 0 <= 0 /\ 0 \in 0..COMMIT_MAX_OPS - 1 /\ 0 \in Nat
    BY Constants
  <2> QED
    BY <2>1, <2>2, Zenon DEF Window
<1>21. ASSUME Crash PROVE Window'
  BY <1>20, <1>21, Zenon DEF Crash
<1>22. ASSUME NEW fails \in BOOLEAN, Unmount(fails) PROVE Window'
  BY <1>20, <1>22, Zenon DEF Unmount
<1> QED
  BY <1>1, <1>2, <1>3, <1>4, <1>5, <1>6, <1>7, <1>8, <1>9, <1>10, <1>11, <1>12, <1>13, <1>14,
     <1>15, <1>16, <1>17, <1>18, <1>19, <1>21, <1>22, Zenon DEF Next

-----------------------------------------------------------------------------
(* A size change is final.                                                  *)

\* The size changes and the flushes about to stage are the same before and after.
SamePending ==
  \A u \in Threads : thread[u].pc \in SizePcs \cup {"stage"} \/ thread'[u].pc \in SizePcs \cup {"stage"}
                       => thread'[u] = thread[u]

LEMMA MovesSamePending ==
  ASSUME NEW t \in Threads, Others(t),
         thread[t].pc \in {"idle", "insert", "read", "commit", "reset", "flush", "release"},
         thread'[t].pc \in {"idle", "insert", "read", "commit", "reset", "flush", "release"}
  PROVE  SamePending
BY Zenon DEF Others, Like, SamePending, SizePcs

LEMMA LikeSamePending == ASSUME \A u \in Threads : Like(thread'[u], thread[u]) PROVE SamePending
BY Zenon DEF Like, SamePending, SizePcs

\* Nothing dirty, or dirty cells below an end that moved up.
LEMMA BelowNothing == ASSUME NEW n PROVE Below(Nothing, n)
BY Zenon DEF Below, Nothing

LEMMA BelowMore == ASSUME NEW rs, NEW n \in Nat, NEW m \in Nat, Below(rs, n), n <= m PROVE Below(rs, m)
BY Constants DEF Below

\* Size changes still exclude each other when none begins.
LEMMA ExclusiveFrame ==
  ASSUME Exclusive, \A u \in Threads : thread'[u].pc \in SizePcs => thread[u].pc \in SizePcs
  PROVE  Exclusive'
BY Zenon DEF Exclusive

\* Steps that start no flush and no size change, and change neither the engine's length nor the end.
LEMMA BoundedFrame ==
  ASSUME Bounded, Exclusive, SamePending, seen \subseteq seen', limit' = limit, engine'.len = engine.len,
         \A g \in Handles : cache'[g].ranges = cache[g].ranges \/ cache'[g].ranges = Nothing
  PROVE  Bounded' /\ Exclusive'
<1>1. \A u \in Threads : thread'[u].pc \in SizePcs => thread[u].pc \in SizePcs
  BY Zenon DEF SamePending
<1>2. \A u \in Threads : Cutting(u)' <=> Cutting(u)
  BY Zenon DEF SamePending, Cutting, SizePcs
<1>3. \A u \in Threads : thread'[u].pc \in {"stage", "size", "bump", "trim"} => thread'[u] = thread[u]
  BY Zenon DEF SamePending, SizePcs
<1>4. Bounded'
  <2> SUFFICES ASSUME "truncate" \notin seen'
      PROVE  /\ (\A t \in Threads : ~Cutting(t)') => engine'.len <= limit'
             /\ \A h \in Handles : Below(cache'[h].ranges, limit')
             /\ \A t \in Threads :
                  /\ thread'[t].pc = "stage" => Below(thread'[t].ext, limit') /\ \A u \in Threads : ~Cutting(u)'
                  /\ thread'[t].pc = "size" => thread'[t].current = engine'.len
                  /\ thread'[t].pc \in {"bump", "trim"} => thread'[t].size = engine'.len
    BY Zenon DEF Bounded, Below
  <2>1. "truncate" \notin seen
    BY Zenon
  <2>2. (\A t \in Threads : ~Cutting(t)') => engine'.len <= limit'
    BY <2>1, <1>2, Zenon DEF Bounded
  <2>3. \A h \in Handles : Below(cache'[h].ranges, limit')
    BY <2>1, BelowNothing, Zenon DEF Bounded
  <2>4. ASSUME NEW t \in Threads, thread'[t].pc = "stage"
        PROVE  Below(thread'[t].ext, limit') /\ \A u \in Threads : ~Cutting(u)'
    <3>1. thread'[t] = thread[t] /\ thread[t].pc = "stage"
      BY <2>4, <1>3, Zenon
    <3> QED
      BY <2>1, <3>1, <1>2, Zenon DEF Bounded
  <2>5. ASSUME NEW t \in Threads, thread'[t].pc = "size" PROVE thread'[t].current = engine'.len
    <3>1. thread'[t] = thread[t] /\ thread[t].pc = "size"
      BY <2>5, <1>3, Zenon
    <3> QED
      BY <2>1, <3>1, Zenon DEF Bounded
  <2>6. ASSUME NEW t \in Threads, thread'[t].pc \in {"bump", "trim"} PROVE thread'[t].size = engine'.len
    <3>1. thread'[t] = thread[t] /\ thread[t].pc \in {"bump", "trim"}
      BY <2>6, <1>3, Zenon
    <3> QED
      BY <2>1, <3>1, Zenon DEF Bounded
  <2> QED
    BY <2>2, <2>3, <2>4, <2>5, <2>6, Zenon
<1> QED
  BY <1>1, <1>4, ExclusiveFrame, Zenon

\* A handle writes one cell: the end moves up with it.
LEMMA WriteBounded ==
  ASSUME Types, Bounded, Exclusive, NEW h \in Handles, NEW c \in Cells, Write(h, c)
  PROVE  Bounded' /\ Exclusive'
<1>1. /\ \A u \in Threads : Like(thread'[u], thread[u])
      /\ \A g \in Handles : g # h => cache'[g] = cache[g]
      /\ \A d \in Cells : cache'[h].ranges[d] = IF d = c THEN nextId ELSE cache[h].ranges[d]
      /\ limit' \in Nat /\ limit <= limit' /\ c <= limit'
  BY WriteIs, Zenon
<1>2. SamePending
  BY <1>1, LikeSamePending, Zenon
<1>3. limit \in Nat /\ engine.len \in Nat
  BY Constants DEF Types, ContentOK
<1>4. seen' = seen /\ engine' = engine
  BY Zenon DEF Write, store
<1>5. \A u \in Threads : thread'[u].pc \in SizePcs => thread[u].pc \in SizePcs
  BY <1>2, Zenon DEF SamePending
<1>6. \A u \in Threads : Cutting(u)' <=> Cutting(u)
  BY <1>2, Zenon DEF SamePending, Cutting, SizePcs
<1>7. \A u \in Threads : thread'[u].pc \in {"stage", "size", "bump", "trim"} => thread'[u] = thread[u]
  BY <1>2, Zenon DEF SamePending, SizePcs
<1>8. ASSUME "truncate" \notin seen'
      PROVE  /\ (\A t \in Threads : ~Cutting(t)') => engine'.len <= limit'
             /\ \A g \in Handles : Below(cache'[g].ranges, limit')
             /\ \A t \in Threads :
                  /\ thread'[t].pc = "stage" => Below(thread'[t].ext, limit') /\ \A u \in Threads : ~Cutting(u)'
                  /\ thread'[t].pc = "size" => thread'[t].current = engine'.len
                  /\ thread'[t].pc \in {"bump", "trim"} => thread'[t].size = engine'.len
  <2>1. "truncate" \notin seen
    BY <1>4, <1>8, Zenon
  <2>2. (\A t \in Threads : ~Cutting(t)') => engine'.len <= limit'
    <3>1. (\A t \in Threads : ~Cutting(t)') => engine.len <= limit
      BY <2>1, <1>6, Zenon DEF Bounded
    <3>2. engine.len <= limit => engine.len <= limit'
      BY <1>1, <1>3
    <3> QED
      BY <3>1, <3>2, <1>4, Zenon
  <2>3. ASSUME NEW g \in Handles PROVE Below(cache'[g].ranges, limit')
    <3>1. Below(cache[g].ranges, limit')
      BY <2>1, <1>1, <1>3, BelowMore, Zenon DEF Bounded
    <3>2. CASE g # h
      BY <3>1, <3>2, <1>1, Zenon
    <3>3. CASE g = h
      BY <3>1, <3>3, <1>1, Zenon DEF Below
    <3> QED
      BY <3>2, <3>3, Zenon
  <2>4. ASSUME NEW t \in Threads, thread'[t].pc = "stage"
        PROVE  Below(thread'[t].ext, limit') /\ \A u \in Threads : ~Cutting(u)'
    <3>1. thread'[t] = thread[t] /\ thread[t].pc = "stage"
      BY <2>4, <1>7, Zenon
    <3>2. Below(thread[t].ext, limit) /\ \A u \in Threads : ~Cutting(u)'
      BY <2>1, <3>1, <1>6, Zenon DEF Bounded
    <3> QED
      BY <3>1, <3>2, <1>1, <1>3, BelowMore, Zenon
  <2>5. ASSUME NEW t \in Threads, thread'[t].pc = "size" PROVE thread'[t].current = engine'.len
    <3>1. thread'[t] = thread[t] /\ thread[t].pc = "size"
      BY <2>5, <1>7, Zenon
    <3> QED
      BY <2>1, <3>1, <1>4, Zenon DEF Bounded
  <2>6. ASSUME NEW t \in Threads, thread'[t].pc \in {"bump", "trim"} PROVE thread'[t].size = engine'.len
    <3>1. thread'[t] = thread[t] /\ thread[t].pc \in {"bump", "trim"}
      BY <2>6, <1>7, Zenon
    <3> QED
      BY <2>1, <3>1, <1>4, Zenon DEF Bounded
  <2> QED
    BY <2>2, <2>3, <2>4, <2>5, <2>6, Zenon
<1>9. Bounded'
  BY <1>8, Zenon DEF Bounded, Below
<1> QED
  BY <1>5, <1>9, ExclusiveFrame, Zenon

\* A flush that takes ranges finds no size change in the middle, or the overlap is seen.
LEMMA FlushTakeBounded ==
  ASSUME Types, Bounded, Exclusive, NEW t \in Threads, NEW h \in Handles,
         NEW op \in {"flush", "fsync", "release"}, FlushTake(t, h, op)
  PROVE  Bounded' /\ Exclusive'
<1>1. /\ Others(t) /\ Sets(h, Nothing)
      /\ thread[t].pc = "idle" /\ thread'[t].pc \in {"stage", "commit", "flush", "release"}
      /\ thread'[t].ext = cache[h].ranges
  BY FlushTakeIs
<1>2. limit' = limit /\ engine' = engine /\ seen' = seen \cup Overlapping(h)
  BY Zenon DEF FlushTake, store
<1>3. \A g \in Handles : cache'[g].ranges = cache[g].ranges \/ cache'[g].ranges = Nothing
  BY <1>1, Zenon DEF Sets
<1>4. \A u \in Threads : /\ Cutting(u)' <=> Cutting(u)
                         /\ thread'[u].pc \in SizePcs => thread[u].pc \in SizePcs
  BY <1>1, Zenon DEF Others, Like, Cutting, SizePcs
<1>5. \A u \in Threads : u # t /\ thread'[u].pc \in {"stage", "size", "bump", "trim"} => thread'[u] = thread[u]
  BY <1>1, Zenon DEF Others, Like
<1>6. ASSUME "truncate" \notin seen'
      PROVE  /\ (\A u \in Threads : ~Cutting(u)') => engine'.len <= limit'
             /\ \A g \in Handles : Below(cache'[g].ranges, limit')
             /\ \A u \in Threads :
                  /\ thread'[u].pc = "stage" => Below(thread'[u].ext, limit') /\ \A w \in Threads : ~Cutting(w)'
                  /\ thread'[u].pc = "size" => thread'[u].current = engine'.len
                  /\ thread'[u].pc \in {"bump", "trim"} => thread'[u].size = engine'.len
  <2>1. "truncate" \notin seen /\ ~("truncate" \in Overlapping(h))
    BY <1>2, <1>6, Zenon
  <2>2. (\A u \in Threads : ~Cutting(u)') => engine'.len <= limit'
    BY <2>1, <1>2, <1>4, Zenon DEF Bounded
  <2>3. \A g \in Handles : Below(cache'[g].ranges, limit')
    BY <2>1, <1>2, <1>3, BelowNothing, Zenon DEF Bounded
  <2>4. ASSUME NEW u \in Threads, thread'[u].pc = "stage"
        PROVE  Below(thread'[u].ext, limit') /\ \A w \in Threads : ~Cutting(w)'
    <3>1. CASE u = t
      <4>1. \A w \in Threads : w \in Sizing => thread[w].pc = "meta"
        BY <2>1, Zenon DEF Overlapping, At
      <4>2. \A w \in Threads : ~Cutting(w)
        BY <4>1, Zenon DEF Sizing, Cutting
      <4>3. Below(cache[h].ranges, limit)
        BY <2>1, Zenon DEF Bounded
      <4> QED
        BY <3>1, <4>2, <4>3, <1>1, <1>2, <1>4, Zenon
    <3>2. CASE u # t
      <4>1. thread'[u] = thread[u] /\ thread[u].pc = "stage"
        BY <2>4, <3>2, <1>5, Zenon
      <4> QED
        BY <2>1, <4>1, <1>2, <1>4, Zenon DEF Bounded
    <3> QED
      BY <3>1, <3>2, Zenon
  <2>5. thread'[t].pc # "size" /\ ~(thread'[t].pc \in {"bump", "trim"})
    BY <1>1, Zenon
  <2>6. ASSUME NEW u \in Threads, thread'[u].pc = "size" PROVE thread'[u].current = engine'.len
    <3>1. thread'[u] = thread[u] /\ thread[u].pc = "size"
      BY <2>5, <2>6, <1>5, Zenon
    <3> QED
      BY <2>1, <3>1, <1>2, Zenon DEF Bounded
  <2>7. ASSUME NEW u \in Threads, thread'[u].pc \in {"bump", "trim"} PROVE thread'[u].size = engine'.len
    <3>1. thread'[u] = thread[u] /\ thread[u].pc \in {"bump", "trim"}
      BY <2>5, <2>7, <1>5, Zenon
    <3> QED
      BY <2>1, <3>1, <1>2, Zenon DEF Bounded
  <2> QED
    BY <2>2, <2>3, <2>4, <2>6, <2>7, Zenon
<1>7. Bounded'
  BY <1>6, Zenon DEF Bounded, Below
<1> QED
  BY <1>4, <1>7, ExclusiveFrame, Zenon

\* A flush stages what it took, or part of it: the end covers what the engine now holds.
LEMMA StagedBounded ==
  ASSUME Types, Bounded, Exclusive, NEW t \in Threads, Others(t), SameRanges, seen \subseteq seen',
         thread[t].pc = "stage", thread'[t].pc \in {"idle", "commit", "release"},
         limit' \in Nat, limit <= limit',
         "truncate" \notin seen /\ engine.len <= limit /\ Below(thread[t].ext, limit) => engine'.len <= limit'
  PROVE  Bounded' /\ Exclusive'
<1>1. \A u \in Threads : /\ Cutting(u)' <=> Cutting(u)
                         /\ thread'[u].pc \in SizePcs => thread[u].pc \in SizePcs
  BY Zenon DEF Others, Like, Cutting, SizePcs
<1>2. \A u \in Threads : thread'[u].pc = "stage" => thread'[u] = thread[u]
  BY Zenon DEF Others, Like
<1>3. \A u \in Threads : thread'[u].pc \in {"size", "bump", "trim"} => Cutting(u)'
  BY Zenon DEF Cutting
<1>4. limit \in Nat
  BY Constants DEF Types
<1>5. ASSUME "truncate" \notin seen'
      PROVE  /\ engine'.len <= limit'
             /\ \A g \in Handles : Below(cache'[g].ranges, limit')
             /\ \A u \in Threads : ~Cutting(u)'
             /\ \A u \in Threads : thread'[u].pc = "stage" => Below(thread'[u].ext, limit')
  <2>1. "truncate" \notin seen
    BY <1>5, Zenon
  <2>2. Below(thread[t].ext, limit) /\ \A u \in Threads : ~Cutting(u)
    BY <2>1, Zenon DEF Bounded
  <2>3. engine'.len <= limit'
    BY <2>1, <2>2, Zenon DEF Bounded
  <2>4. \A g \in Handles : Below(cache'[g].ranges, limit')
    BY <2>1, <1>4, BelowMore, Zenon DEF Bounded, SameRanges
  <2>5. ASSUME NEW u \in Threads, thread'[u].pc = "stage" PROVE Below(thread'[u].ext, limit')
    <3>1. thread'[u] = thread[u] /\ thread[u].pc = "stage"
      BY <2>5, <1>2, Zenon
    <3>2. Below(thread[u].ext, limit)
      BY <2>1, <3>1, Zenon DEF Bounded
    <3> QED
      BY <3>1, <3>2, <1>4, BelowMore, Zenon
  <2> QED
    BY <2>2, <2>3, <2>4, <2>5, <1>1, Zenon
<1>6. \A u \in Threads : /\ thread'[u].pc = "size" => Cutting(u)'
                         /\ thread'[u].pc \in {"bump", "trim"} => Cutting(u)'
  BY Zenon DEF Cutting
<1>7. Bounded'
  BY <1>5, <1>6, Zenon DEF Bounded, Below
<1> QED
  BY <1>1, <1>7, ExclusiveFrame, Zenon

LEMMA FlushStageBounded ==
  ASSUME Types, Bounded, Exclusive, NEW t \in Threads, NEW due \in BOOLEAN, NEW fails \in BOOLEAN,
         FlushStage(t, due, fails)
  PROVE  Bounded' /\ Exclusive'
<1>1. /\ Others(t) /\ SameRanges
      /\ thread[t].pc = "stage" /\ thread[t].ext \in Ranges
      /\ thread'[t].pc \in {"idle", "commit", "release"}
      /\ engine' = Staged(thread[t].ext, NumCells)
  BY FlushStageIs, Zenon
<1>2. PICK ext \in Ranges : ext = thread[t].ext
  BY <1>1, Zenon
<1>3. limit' = limit /\ seen \subseteq seen'
  BY Zenon DEF FlushStage
<1>4. limit \in Nat /\ limit <= limit /\ NumCells \in 0..NumCells
  BY Constants DEF Types
<1>5. engine.len <= limit /\ Below(ext, limit) => Staged(ext, NumCells).len <= limit
  BY <1>4, StagedIs, Zenon DEF Types
<1> QED
  BY <1>1, <1>2, <1>3, <1>4, <1>5, StagedBounded, Zenon

LEMMA FlushFailsBounded ==
  ASSUME Types, Bounded, Exclusive, NEW t \in Threads, NEW n \in 0..NumCells, FlushFails(t, n)
  PROVE  Bounded' /\ Exclusive'
<1>1. Types' /\ Moves(t, "stage", "idle") /\ SameRanges /\ limit <= limit' /\ engine'.len <= limit'
  BY FlushFailsIs, Zenon
<1>2. limit' \in Nat
  BY <1>1, Constants DEF Types
<1>3. seen \subseteq seen'
  BY Zenon DEF FlushFails
<1>4. "idle" \in {"idle", "commit", "release"}
  BY Zenon
<1> QED
  BY <1>1, <1>2, <1>3, <1>4, StagedBounded, Zenon DEF Moves

\* A size change begins.
LEMMA SetattrStartBounded ==
  ASSUME Types, Bounded, Exclusive, NEW t \in Threads, NEW n \in 0..NumCells, SetattrStart(t, n)
  PROVE  Bounded' /\ Exclusive'
<1>1. Moves(t, "idle", "size") /\ thread'[t].current = engine.len
  BY SetattrStartIs, Zenon
<1>2. cache' = cache /\ engine' = engine /\ limit' = limit /\ seen \subseteq seen'
  BY Zenon DEF SetattrStart, handles, store
<1>3. (\E u \in Threads : thread[u].pc = "stage") => "truncate" \in seen'
  BY Zenon DEF SetattrStart, At
<1>4. \A u \in Threads : ~(thread[u].pc \in SizePcs)
  BY Zenon DEF SetattrStart, InodeLocked, Sizing, SizePcs
<1>5. \A u \in Threads \ {t} : ~(thread'[u].pc \in SizePcs) /\ (thread'[u].pc = "stage" => thread[u].pc = "stage")
  BY <1>1, <1>4, Zenon DEF Moves, Others, Like, SizePcs
<1>6. thread'[t].pc = "size" /\ Cutting(t)' /\ thread'[t].pc # "stage" /\ ~(thread'[t].pc \in {"bump", "trim"})
  BY <1>1, Zenon DEF Moves, Cutting
<1>7. \A u \in Threads \ {t} : thread'[u].pc # "size" /\ ~(thread'[u].pc \in {"bump", "trim"})
  BY <1>5, Zenon DEF SizePcs
<1>8. Exclusive'
  BY <1>5, Zenon DEF Exclusive
<1>9. ASSUME "truncate" \notin seen'
      PROVE  /\ \A g \in Handles : Below(cache'[g].ranges, limit')
             /\ \A u \in Threads : thread'[u].pc # "stage"
  BY <1>9, <1>2, <1>3, <1>5, <1>6, Zenon DEF Bounded
<1>10. \A u \in Threads : thread'[u].pc = "size" => thread'[u].current = engine'.len
  BY <1>1, <1>2, <1>7, Zenon
<1>11. Bounded'
  BY <1>6, <1>7, <1>9, <1>10, Zenon DEF Bounded, Below
<1> QED
  BY <1>8, <1>11, Zenon

\* A size change goes on.
LEMMA CutBounded ==
  ASSUME Bounded, Exclusive, NEW t \in Threads, Others(t), thread[t].pc \in {"size", "bump"},
         thread'[t].pc \in {"bump", "trim"},
         "truncate" \notin seen => thread'[t].size = engine'.len,
         cache' = cache, limit' = limit, seen' = seen
  PROVE  Bounded' /\ Exclusive'
<1>1. Cutting(t) /\ thread[t].pc \in SizePcs /\ Cutting(t)' /\ thread'[t].pc # "stage" /\ thread'[t].pc # "size"
  BY Zenon DEF Cutting, SizePcs
<1>2. \A u \in Threads \ {t} : ~(thread[u].pc \in SizePcs)
  BY <1>1, Zenon DEF Exclusive
<1>3. \A u \in Threads \ {t} : ~(thread'[u].pc \in SizePcs) /\ (thread'[u].pc = "stage" => thread[u].pc = "stage")
  BY <1>2, Zenon DEF Others, Like, SizePcs
<1>4. \A u \in Threads \ {t} : thread'[u].pc # "size" /\ ~(thread'[u].pc \in {"bump", "trim"})
  BY <1>3, Zenon DEF SizePcs
<1>5. Exclusive'
  BY <1>3, Zenon DEF Exclusive
<1>6. ASSUME "truncate" \notin seen'
      PROVE  /\ \A g \in Handles : Below(cache'[g].ranges, limit')
             /\ \A u \in Threads : thread'[u].pc # "stage"
  BY <1>6, <1>1, <1>3, Zenon DEF Bounded
<1>7. Bounded'
  BY <1>1, <1>4, <1>6, Zenon DEF Bounded, Below
<1> QED
  BY <1>5, <1>7, Zenon

LEMMA SetattrSizeBounded ==
  ASSUME Types, Bounded, Exclusive, NEW t \in Threads, SetattrSize(t)
  PROVE  Bounded' /\ Exclusive'
<1>1. /\ Moves(t, "size", "bump") /\ thread'[t].size = thread[t].size /\ cache' = cache
      /\ thread[t].current = engine.len => engine'.len = thread[t].size
  BY SetattrSizeIs, Zenon
<1>2. limit' = limit /\ seen' = seen
  BY Zenon DEF SetattrSize, history
<1>3. "truncate" \notin seen => thread'[t].size = engine'.len
  BY <1>1, Zenon DEF Bounded, Moves
<1>4. "size" \in {"size", "bump"} /\ "bump" \in {"bump", "trim"}
  BY Zenon
<1> QED
  BY <1>1, <1>2, <1>3, <1>4, CutBounded, Zenon DEF Moves

LEMMA SetattrBumpBounded ==
  ASSUME Types, Bounded, Exclusive, NEW t \in Threads, SetattrBump(t)
  PROVE  Bounded' /\ Exclusive'
<1>1. Moves(t, "bump", "trim") /\ thread'[t].size = thread[t].size
  BY SetattrBumpIs, Zenon
<1>2. limit' = limit /\ seen' = seen /\ cache' = cache /\ engine' = engine
  BY Zenon DEF SetattrBump, history, handles
<1>3. "truncate" \notin seen => thread'[t].size = engine'.len
  BY <1>1, <1>2, Zenon DEF Bounded, Moves
<1>4. "bump" \in {"size", "bump"} /\ "trim" \in {"bump", "trim"}
  BY Zenon
<1> QED
  BY <1>1, <1>2, <1>3, <1>4, CutBounded, Zenon DEF Moves

\* The caches are trimmed: from here the new size is the end.
LEMMA SetattrTrimBounded ==
  ASSUME Types, Bounded, Exclusive, NEW t \in Threads, SetattrTrim(t)
  PROVE  Bounded' /\ Exclusive'
<1>1. /\ Moves(t, "trim", "meta") /\ limit' = thread[t].size /\ thread[t].size \in 0..NumCells
      /\ \A g \in Handles : Below(cache'[g].ranges, thread[t].size)
  BY SetattrTrimIs, Zenon
<1>2. seen' = seen /\ engine' = engine
  BY Zenon DEF SetattrTrim, store
<1>3. Cutting(t) /\ thread[t].pc \in SizePcs
  BY <1>1, Zenon DEF Moves, Cutting, SizePcs
<1>4. \A u \in Threads \ {t} : ~(thread[u].pc \in SizePcs)
  BY <1>3, Zenon DEF Exclusive
<1>5. \A u \in Threads \ {t} : ~(thread'[u].pc \in SizePcs) /\ (thread'[u].pc = "stage" => thread[u].pc = "stage")
  BY <1>1, <1>4, Zenon DEF Moves, Others, Like, SizePcs
<1>6. thread'[t].pc # "stage" /\ thread'[t].pc # "size" /\ ~(thread'[t].pc \in {"bump", "trim"})
  BY <1>1, Zenon DEF Moves
<1>7. \A u \in Threads \ {t} : thread'[u].pc # "size" /\ ~(thread'[u].pc \in {"bump", "trim"})
  BY <1>5, Zenon DEF SizePcs
<1>8. Exclusive'
  BY <1>5, Zenon DEF Exclusive
<1>9. ASSUME "truncate" \notin seen'
      PROVE  engine'.len <= limit' /\ \A u \in Threads : thread'[u].pc # "stage"
  <2>1. thread[t].size = engine.len
    BY <1>9, <1>1, <1>2, Zenon DEF Bounded, Moves
  <2>2. engine'.len <= limit'
    BY <2>1, <1>1, <1>2, Constants
  <2> QED
    BY <2>2, <1>9, <1>2, <1>3, <1>5, <1>6, Zenon DEF Bounded
<1>10. Bounded'
  BY <1>1, <1>6, <1>7, <1>9, Zenon DEF Bounded, Below
<1> QED
  BY <1>8, <1>10, Zenon

LEMMA SetattrMetaBounded ==
  ASSUME Types, Bounded, Exclusive, NEW t \in Threads, SetattrMeta(t)
  PROVE  Bounded' /\ Exclusive'
<1>1. Moves(t, "meta", "idle") /\ cache' = cache /\ engine' = engine
  BY SetattrMetaIs, Zenon
<1>2. limit' = limit /\ seen' = seen
  BY Zenon DEF SetattrMeta, history
<1>3. \A u \in Threads : /\ Cutting(u)' <=> Cutting(u)
                         /\ thread'[u].pc \in SizePcs => thread[u].pc \in SizePcs
  BY <1>1, Zenon DEF Moves, Others, Like, Cutting, SizePcs
<1>4. \A u \in Threads : thread'[u].pc \in {"stage", "size", "bump", "trim"} => thread'[u] = thread[u]
  BY <1>1, Zenon DEF Moves, Others, Like
<1>5. ASSUME "truncate" \notin seen'
      PROVE  /\ (\A u \in Threads : ~Cutting(u)') => engine'.len <= limit'
             /\ \A g \in Handles : Below(cache'[g].ranges, limit')
  BY <1>5, <1>1, <1>2, <1>3, Zenon DEF Bounded
<1>6. ASSUME "truncate" \notin seen', NEW u \in Threads, thread'[u].pc = "stage"
      PROVE  Below(thread'[u].ext, limit') /\ \A w \in Threads : ~Cutting(w)'
  <2>1. thread'[u] = thread[u] /\ thread[u].pc = "stage"
    BY <1>4, <1>6, Zenon
  <2> QED
    BY <2>1, <1>6, <1>2, <1>3, Zenon DEF Bounded
<1>7. ASSUME "truncate" \notin seen', NEW u \in Threads, thread'[u].pc = "size"
      PROVE  thread'[u].current = engine'.len
  <2>1. thread'[u] = thread[u] /\ thread[u].pc = "size"
    BY <1>4, <1>7, Zenon
  <2> QED
    BY <2>1, <1>7, <1>1, <1>2, Zenon DEF Bounded
<1>8. ASSUME "truncate" \notin seen', NEW u \in Threads, thread'[u].pc \in {"bump", "trim"}
      PROVE  thread'[u].size = engine'.len
  <2>1. thread'[u] = thread[u] /\ thread[u].pc \in {"bump", "trim"}
    BY <1>4, <1>8, Zenon
  <2> QED
    BY <2>1, <1>8, <1>1, <1>2, Zenon DEF Bounded
<1>9. Bounded'
  BY <1>5, <1>6, <1>7, <1>8, Zenon DEF Bounded, Below
<1> QED
  BY <1>3, <1>9, ExclusiveFrame, Zenon

LEMMA RemountBounded ==
  ASSUME Types, NEW c, ContentOK(c), Remount(c), nextId' = nextId
  PROVE  Bounded' /\ Exclusive'
<1>1. /\ \A t \in Threads : thread'[t].pc = "idle"
      /\ \A h \in Handles : cache'[h].ranges = Nothing
      /\ engine' = c /\ limit' = c.len
  BY RemountIs, Zenon
<1>2. \A t \in Threads : /\ thread'[t].pc # "stage" /\ thread'[t].pc # "size"
                         /\ ~(thread'[t].pc \in {"bump", "trim"}) /\ ~(thread'[t].pc \in SizePcs)
  BY <1>1, Zenon DEF SizePcs
<1>3. engine'.len <= limit'
  BY <1>1, Constants DEF ContentOK
<1>4. \A h \in Handles : Below(cache'[h].ranges, limit')
  BY <1>1, BelowNothing, Zenon
<1> QED
  BY <1>2, <1>3, <1>4, Zenon DEF Bounded, Exclusive, Below

\* The steps of a thread outside flushes about to stage and size changes.
LEMMA ElsewhereBounded ==
  ASSUME Bounded, Exclusive, NEW t \in Threads, NEW from, NEW to, Moves(t, from, to),
         {from, to} \subseteq {"idle", "insert", "read", "commit", "reset", "flush", "release"},
         seen \subseteq seen', limit' = limit, engine' = engine,
         \A g \in Handles : cache'[g].ranges = cache[g].ranges \/ cache'[g].ranges = Nothing
  PROVE  Bounded' /\ Exclusive'
<1>1. SamePending
  BY MovesSamePending, Zenon DEF Moves
<1>2. engine'.len = engine.len
  BY Zenon
<1> QED
  BY <1>1, <1>2, BoundedFrame, Zenon

LEMMA BoundedStep == ASSUME Types, Bounded, Exclusive, Next PROVE Bounded' /\ Exclusive'
<1>1. ASSUME NEW t \in Threads, NEW h \in Handles, OpenStart(t, h) PROVE Bounded' /\ Exclusive'
  <2>1. Moves(t, "idle", "insert")
    BY <1>1, OpenStartIs, Zenon
  <2>2. seen \subseteq seen' /\ limit' = limit /\ engine' = engine /\ cache' = cache
    BY <1>1, Zenon DEF OpenStart, handles, store, history
  <2>3. {"idle", "insert"} \subseteq {"idle", "insert", "read", "commit", "reset", "flush", "release"}
    BY Zenon
  <2>4. \A g \in Handles : cache'[g].ranges = cache[g].ranges \/ cache'[g].ranges = Nothing
    BY <2>2, Zenon
  <2> QED
    BY <2>1, <2>2, <2>3, <2>4, ElsewhereBounded, Zenon
<1>2. ASSUME NEW t \in Threads, OpenInsert(t) PROVE Bounded' /\ Exclusive'
  <2>1. Moves(t, "insert", "idle") /\ Sets(thread[t].h, Nothing)
    BY <1>2, OpenInsertIs, Zenon
  <2>2. seen \subseteq seen' /\ limit' = limit /\ engine' = engine
    BY <1>2, Zenon DEF OpenInsert, store
  <2>3. {"insert", "idle"} \subseteq {"idle", "insert", "read", "commit", "reset", "flush", "release"}
    BY Zenon
  <2>4. \A g \in Handles : cache'[g].ranges = cache[g].ranges \/ cache'[g].ranges = Nothing
    BY <2>1, Zenon DEF Sets
  <2> QED
    BY <2>1, <2>2, <2>3, <2>4, ElsewhereBounded, Zenon
<1>4. ASSUME NEW t \in Threads, NEW h \in Handles, NEW c \in Cells, ReadStart(t, h, c) PROVE Bounded' /\ Exclusive'
  <2>1. Moves(t, "idle", "read")
    BY <1>4, ReadStartIs, Zenon
  <2>2. seen \subseteq seen' /\ limit' = limit /\ engine' = engine /\ cache' = cache
    BY <1>4, Zenon DEF ReadStart, handles, store, history
  <2>3. {"idle", "read"} \subseteq {"idle", "insert", "read", "commit", "reset", "flush", "release"}
    BY Zenon
  <2>4. \A g \in Handles : cache'[g].ranges = cache[g].ranges \/ cache'[g].ranges = Nothing
    BY <2>2, Zenon
  <2> QED
    BY <2>1, <2>2, <2>3, <2>4, ElsewhereBounded, Zenon
<1>5. ASSUME NEW t \in Threads, ReadServe(t) PROVE Bounded' /\ Exclusive'
  <2>1. Moves(t, "read", "idle")
    BY <1>5, ReadServeIs, Zenon
  <2>2. seen \subseteq seen' /\ limit' = limit /\ engine' = engine /\ cache' = cache
    BY <1>5, Zenon DEF ReadServe, store
  <2>3. {"read", "idle"} \subseteq {"idle", "insert", "read", "commit", "reset", "flush", "release"}
    BY Zenon
  <2>4. \A g \in Handles : cache'[g].ranges = cache[g].ranges \/ cache'[g].ranges = Nothing
    BY <2>2, Zenon
  <2> QED
    BY <2>1, <2>2, <2>3, <2>4, ElsewhereBounded, Zenon
<1>9. ASSUME NEW t \in Threads, NEW fails \in BOOLEAN, FsyncCommit(t, fails) PROVE Bounded' /\ Exclusive'
  <2>1. Others(t) /\ cache' = cache /\ thread[t].pc = "commit" /\ thread'[t].pc \in {"idle", "reset"}
    BY <1>9, FsyncCommitIs, Zenon
  <2>2. seen \subseteq seen' /\ limit' = limit /\ engine'.len = engine.len
    BY <1>9, Zenon DEF FsyncCommit
  <2>3. /\ thread[t].pc \in {"idle", "insert", "read", "commit", "reset", "flush", "release"}
        /\ thread'[t].pc \in {"idle", "insert", "read", "commit", "reset", "flush", "release"}
    BY <2>1, Zenon
  <2>4. SamePending
    BY <2>1, <2>3, MovesSamePending, Zenon
  <2> QED
    BY <2>1, <2>2, <2>4, BoundedFrame, Zenon
<1>10. ASSUME NEW t \in Threads, FsyncReset(t) PROVE Bounded' /\ Exclusive'
  <2>1. Moves(t, "reset", "idle")
    BY <1>10, FsyncResetIs, Zenon
  <2>2. seen \subseteq seen' /\ limit' = limit /\ engine' = engine /\ cache' = cache
    BY <1>10, Zenon DEF FsyncReset, handles
  <2>3. {"reset", "idle"} \subseteq {"idle", "insert", "read", "commit", "reset", "flush", "release"}
    BY Zenon
  <2>4. \A g \in Handles : cache'[g].ranges = cache[g].ranges \/ cache'[g].ranges = Nothing
    BY <2>2, Zenon
  <2> QED
    BY <2>1, <2>2, <2>3, <2>4, ElsewhereBounded, Zenon
<1>11. ASSUME NEW t \in Threads, FlushReturn(t) PROVE Bounded' /\ Exclusive'
  <2>1. Moves(t, "flush", "idle")
    BY <1>11, FlushReturnIs, Zenon
  <2>2. seen \subseteq seen' /\ limit' = limit /\ engine' = engine /\ cache' = cache
    BY <1>11, Zenon DEF FlushReturn, handles, store, history
  <2>3. {"flush", "idle"} \subseteq {"idle", "insert", "read", "commit", "reset", "flush", "release"}
    BY Zenon
  <2>4. \A g \in Handles : cache'[g].ranges = cache[g].ranges \/ cache'[g].ranges = Nothing
    BY <2>2, Zenon
  <2> QED
    BY <2>1, <2>2, <2>3, <2>4, ElsewhereBounded, Zenon
<1>12. ASSUME NEW t \in Threads, Release(t) PROVE Bounded' /\ Exclusive'
  <2>1. Moves(t, "release", "idle") /\ Sets(thread[t].h, Nothing)
    BY <1>12, ReleaseIs, Zenon
  <2>2. seen \subseteq seen' /\ limit' = limit /\ engine' = engine
    BY <1>12, Zenon DEF Release, store
  <2>3. {"release", "idle"} \subseteq {"idle", "insert", "read", "commit", "reset", "flush", "release"}
    BY Zenon
  <2>4. \A g \in Handles : cache'[g].ranges = cache[g].ranges \/ cache'[g].ranges = Nothing
    BY <2>1, Zenon DEF Sets
  <2> QED
    BY <2>1, <2>2, <2>3, <2>4, ElsewhereBounded, Zenon
<1>18. ASSUME NEW due \in BOOLEAN, OtherStage(due) PROVE Bounded' /\ Exclusive'
  <2>1. thread' = thread /\ cache' = cache /\ engine' = engine
    BY <1>18, OtherStageIs, Zenon
  <2>2. seen \subseteq seen' /\ limit' = limit
    BY <1>18, Zenon DEF OtherStage
  <2>3. SamePending /\ engine'.len = engine.len
    BY <2>1, Zenon DEF SamePending
  <2> QED
    BY <2>1, <2>2, <2>3, BoundedFrame, Zenon
<1>19. ASSUME OtherPublish PROVE Bounded' /\ Exclusive'
  <2>1. thread' = thread /\ cache' = cache /\ engine' = engine
    BY <1>19, OtherPublishIs, Zenon
  <2>2. seen \subseteq seen' /\ limit' = limit
    BY <1>19, Zenon DEF OtherPublish
  <2>3. SamePending /\ engine'.len = engine.len
    BY <2>1, Zenon DEF SamePending
  <2> QED
    BY <2>1, <2>2, <2>3, BoundedFrame, Zenon
<1>20. ContentOK(engine) /\ ContentOK(committed)
  BY Zenon DEF Types
<1>21. ASSUME Crash PROVE Bounded' /\ Exclusive'
  BY <1>20, <1>21, RemountBounded, Zenon DEF Crash
<1>22. ASSUME NEW fails \in BOOLEAN, Unmount(fails) PROVE Bounded' /\ Exclusive'
  <2>1. PICK c : c = IF batching /\ ~fails THEN engine ELSE committed
    BY Zenon
  <2>2. ContentOK(c)
    BY <1>20, <2>1, Zenon
  <2> QED
    BY <1>22, <2>1, <2>2, RemountBounded, Zenon DEF Unmount
<1> QED
  BY <1>1, <1>2, <1>4, <1>5, <1>9, <1>10, <1>11, <1>12, <1>18, <1>19,
     WriteBounded, FlushTakeBounded, FlushStageBounded, FlushFailsBounded, SetattrStartBounded,
     SetattrSizeBounded, SetattrBumpBounded, SetattrTrimBounded, SetattrMetaBounded, <1>21, <1>22, Zenon DEF Next
-----------------------------------------------------------------------------
(* What an fsync answered for is durable.                                   *)

\* Neither two flushes of a handle nor an error were seen.
Calm(s) == s \cap {"two flushes", "commit", "write"} = {}

\* The ids of the engine only grow, the published ones are among them, nothing is taken back.
Grows ==
  /\ engine.ids \subseteq engine'.ids
  /\ committed.ids \subseteq committed'.ids
  /\ committed'.ids \subseteq engine'.ids
  /\ dropped \subseteq dropped'

\* A handle's ids have somewhere to be: what left its cache or its flushes is settled.
Kept(g) ==
  \/ mine'[g] = {}
  \/ /\ mine'[g] \subseteq mine[g] \cup Values(cache'[g].ranges)
     /\ Values(cache[g].ranges) \subseteq {0} \cup Settled' \cup Values(cache'[g].ranges) \cup Taken(g)'
     /\ Taken(g) \subseteq {0} \cup Settled' \cup Taken(g)'

\* What the fsyncs want is where it was, or where Accounted asks it to be.
Wanted(u) ==
  \/ thread'[u] = thread[u]
  \/ /\ thread'[u].pc = "stage" => thread'[u].want \subseteq Settled' \cup Values(thread'[u].ext)
     /\ thread'[u].pc = "commit" => thread'[u].want \subseteq Settled'
     /\ thread'[u].pc = "reset" => thread'[u].want \subseteq committed'.ids \cup dropped'

LEMMA CalmMore == ASSUME NEW s, NEW r, s \subseteq r, Calm(r) PROVE Calm(s)
BY Zenon DEF Calm

LEMMA AccountedFrame ==
  ASSUME Accounted, Types', seen \subseteq seen', Grows,
         Calm(seen') => /\ batching' = FALSE => committed'.ids = engine'.ids
                        /\ promised' \subseteq promised \cup committed'.ids \cup dropped'
                        /\ \A g \in Handles : Kept(g)
                        /\ \A u \in Threads : Wanted(u)
  PROVE  Accounted'
<1>1. committed'.ids \subseteq engine'.ids /\ Settled \subseteq Settled'
  BY Zenon DEF Grows, Settled
<1>2. ASSUME Calm(seen')
      PROVE  /\ batching' = FALSE => committed'.ids = engine'.ids
             /\ promised' \subseteq committed'.ids \cup dropped'
             /\ \A h \in Handles : mine'[h] \subseteq Settled' \cup Values(cache'[h].ranges) \cup Taken(h)'
             /\ \A t \in Threads :
                  /\ thread'[t].pc = "stage" => thread'[t].want \subseteq Settled' \cup Values(thread'[t].ext)
                  /\ thread'[t].pc = "commit" => thread'[t].want \subseteq Settled'
                  /\ thread'[t].pc = "reset" => thread'[t].want \subseteq committed'.ids \cup dropped'
  <2>1. Calm(seen)
    BY <1>2, CalmMore, Zenon
  <2>2. promised' \subseteq committed'.ids \cup dropped'
    <3>1. promised \subseteq committed.ids \cup dropped
      BY <2>1, Zenon DEF Accounted, Calm
    <3> QED
      BY <1>2, <3>1, Zenon DEF Grows
  <2>3. ASSUME NEW h \in Handles
        PROVE  mine'[h] \subseteq Settled' \cup Values(cache'[h].ranges) \cup Taken(h)'
    <3>1. mine[h] \subseteq Settled \cup Values(cache[h].ranges) \cup Taken(h)
      BY <2>1, Zenon DEF Accounted, Calm
    <3>2. ~(0 \in mine'[h])
      BY Constants, Zenon DEF Types
    <3>3. Kept(h)
      BY <1>2, Zenon
    <3> QED
      BY <1>1, <3>1, <3>2, <3>3, Zenon DEF Kept
  <2>4. ASSUME NEW t \in Threads
        PROVE  /\ thread'[t].pc = "stage" => thread'[t].want \subseteq Settled' \cup Values(thread'[t].ext)
               /\ thread'[t].pc = "commit" => thread'[t].want \subseteq Settled'
               /\ thread'[t].pc = "reset" => thread'[t].want \subseteq committed'.ids \cup dropped'
    <3>1. /\ thread[t].pc = "stage" => thread[t].want \subseteq Settled \cup Values(thread[t].ext)
          /\ thread[t].pc = "commit" => thread[t].want \subseteq Settled
          /\ thread[t].pc = "reset" => thread[t].want \subseteq committed.ids \cup dropped
      BY <2>1, Zenon DEF Accounted, Calm, At
    <3>2. CASE thread'[t] = thread[t]
      BY <1>1, <3>1, <3>2, Zenon DEF Grows
    <3>3. CASE thread'[t] # thread[t]
      BY <1>2, <3>3, Zenon DEF Wanted
    <3> QED
      BY <3>2, <3>3, Zenon
  <2> QED
    BY <1>2, <2>2, <2>3, <2>4, Zenon
<1> QED
  BY <1>1, <1>2, Zenon DEF Accounted, Calm, At, Settled, Values, Taken, Serving

\* The flushes about to stage go on waiting.
Waiting == \A u \in Threads : thread[u].pc = "stage" => thread'[u] = thread[u]

LEMMA WaitingTaken == ASSUME Waiting, NEW g \in Handles PROVE Taken(g) \subseteq Taken(g)'
BY Zenon DEF Waiting, Taken, Serving

\* A thread that takes part in no fsync wants nothing.
LEMMA OthersWanted ==
  ASSUME NEW t \in Threads, Others(t), ~(thread'[t].pc \in {"stage", "commit", "reset"})
  PROVE  \A u \in Threads : Wanted(u)
<1>1. \A u \in Threads : \/ thread'[u] = thread[u]
                         \/ thread'[u].pc # "stage" /\ thread'[u].pc # "commit" /\ thread'[u].pc # "reset"
  BY Zenon DEF Others, Like
<1> QED
  BY <1>1, Zenon DEF Wanted

LEMMA OthersWaiting == ASSUME NEW t \in Threads, Others(t), thread[t].pc # "stage" PROVE Waiting
BY Zenon DEF Others, Like, Waiting

\* Steps that settle nothing new: handles keep their ids and ranges, or are emptied.
LEMMA QuietAccounted ==
  ASSUME Accounted, Types', seen \subseteq seen', Waiting, dropped' = dropped, promised' = promised,
         engine'.ids = engine.ids, committed'.ids \in {committed.ids, engine.ids},
         batching' = FALSE => batching = FALSE \/ committed'.ids = engine.ids,
         \A g \in Handles : mine'[g] = {} \/ (mine'[g] = mine[g] /\ cache'[g].ranges = cache[g].ranges),
         \A u \in Threads : Wanted(u)
  PROVE  Accounted'
<1>1. committed.ids \subseteq engine.ids
  BY Zenon DEF Accounted
<1>2. Grows
  BY <1>1, Zenon DEF Grows
<1>3. ASSUME Calm(seen'), batching' = FALSE PROVE committed'.ids = engine'.ids
  <2>1. Calm(seen)
    BY <1>3, CalmMore, Zenon
  <2>2. batching = FALSE => committed.ids = engine.ids
    BY <2>1, Zenon DEF Accounted, Calm
  <2>3. committed'.ids = committed.ids \/ committed'.ids = engine.ids
    BY Zenon
  <2> QED
    BY <1>3, <2>2, <2>3, Zenon
<1>4. \A g \in Handles : Taken(g) \subseteq Taken(g)'
  BY WaitingTaken, Zenon
<1>5. \A g \in Handles : Kept(g)
  BY <1>4, Zenon DEF Kept
<1>6. promised' \subseteq promised \cup committed'.ids \cup dropped'
  BY Zenon
<1> QED
  BY <1>2, <1>3, <1>5, <1>6, AccountedFrame, Zenon

\* A write: the id it covers in the cache is given up, its own is dirty.
LEMMA WriteAccounted ==
  ASSUME Types, Accounted, NEW h \in Handles, NEW c \in Cells, Write(h, c)
  PROVE  Accounted'
<1>1. /\ Types' /\ \A u \in Threads : Like(thread'[u], thread[u])
      /\ \A g \in Handles : g # h => cache'[g] = cache[g]
      /\ \A d \in Cells : cache'[h].ranges[d] = IF d = c THEN nextId ELSE cache[h].ranges[d]
  BY WriteIs, Zenon
<1>2. /\ engine' = engine /\ committed' = committed /\ batching' = batching /\ seen' = seen /\ promised' = promised
      /\ mine' = [mine EXCEPT ![h] = mine[h] \cup {nextId}]
      /\ dropped' = dropped \cup ({cache[h].ranges[c]} \ {0})
  BY Zenon DEF Write, store
<1>3. \A g \in Handles : mine'[g] = IF g = h THEN mine[h] \cup {nextId} ELSE mine[g]
  BY <1>2, Zenon DEF Types
<1>4. \A u \in Threads : Wanted(u)
  <2>1. \A u \in Threads : \/ thread'[u] = thread[u]
                           \/ thread'[u].pc # "stage" /\ thread'[u].pc # "commit" /\ thread'[u].pc # "reset"
    BY <1>1, Zenon DEF Like
  <2> QED
    BY <2>1, Zenon DEF Wanted
<1>5. Waiting
  BY <1>1, Zenon DEF Waiting, Like
<1>6. \A g \in Handles : Taken(g) \subseteq Taken(g)'
  BY <1>5, WaitingTaken, Zenon
<1>7. Grows
  <2>1. committed.ids \subseteq engine.ids
    BY Zenon DEF Accounted
  <2> QED
    BY <1>2, <2>1, Zenon DEF Grows
<1>8. ASSUME NEW g \in Handles PROVE Kept(g)
  <2>1. CASE g # h
    <3>1. mine'[g] = mine[g] /\ cache'[g] = cache[g]
      BY <1>1, <1>3, <2>1, Zenon
    <3> QED
      BY <3>1, <1>6, Zenon DEF Kept
  <2>2. CASE g = h
    <3>1. nextId \in Values(cache'[h].ranges)
      BY <1>1, Zenon DEF Values
    <3>2. ASSUME NEW d \in Cells PROVE cache[h].ranges[d] \in {0} \cup dropped' \cup Values(cache'[h].ranges)
      <4>1. d # c => cache'[h].ranges[d] = cache[h].ranges[d]
        BY <1>1, Zenon
      <4>2. d = c => cache[h].ranges[d] \in {0} \cup dropped'
        BY <1>2, Zenon
      <4> QED
        BY <4>1, <4>2, Zenon DEF Values
    <3>3. Values(cache[h].ranges) \subseteq {0} \cup Settled' \cup Values(cache'[h].ranges)
      BY <3>2, Zenon DEF Values, Settled
    <3>4. mine'[h] \subseteq mine[h] \cup Values(cache'[h].ranges)
      BY <1>3, <3>1, Zenon
    <3> QED
      BY <2>2, <3>3, <3>4, <1>6, Zenon DEF Kept
  <2> QED
    BY <2>1, <2>2, Zenon
<1>9. Calm(seen') /\ batching' = FALSE => committed'.ids = engine'.ids
  BY <1>2, Zenon DEF Accounted, Calm
<1>10. seen \subseteq seen' /\ promised' \subseteq promised \cup committed'.ids \cup dropped'
  BY <1>2, Zenon
<1> QED
  BY <1>1, <1>4, <1>7, <1>8, <1>9, <1>10, AccountedFrame, Zenon

\* A flush takes the dirty ranges of its handle: they are in its hands, or there were none.
LEMMA FlushTakeAccounted ==
  ASSUME Types, Accounted, NEW t \in Threads, NEW h \in Handles,
         NEW op \in {"flush", "fsync", "release"}, FlushTake(t, h, op)
  PROVE  Accounted'
<1>1. /\ Types' /\ Others(t) /\ Sets(h, Nothing)
      /\ thread[t].pc = "idle"
      /\ thread'[t].pc \in {"stage", "commit", "flush", "release"}
      /\ thread'[t].pc # "stage" => cache[h].ranges = Nothing
      /\ thread'[t].h = h /\ thread'[t].ext = cache[h].ranges /\ thread'[t].want = mine[h]
  BY FlushTakeIs
<1>2. /\ engine' = engine /\ committed' = committed /\ batching' = batching /\ promised' = promised
      /\ mine' = mine /\ dropped' = dropped /\ seen' = seen \cup Overlapping(h)
  BY Zenon DEF FlushTake, store
<1>3. Grows
  <2>1. committed.ids \subseteq engine.ids
    BY Zenon DEF Accounted
  <2> QED
    BY <1>2, <2>1, Zenon DEF Grows
<1>4. Waiting
  <2>1. thread[t].pc # "stage"
    BY <1>1, Zenon
  <2> QED
    BY <1>1, <2>1, OthersWaiting, Zenon
<1>5. \A g \in Handles : Taken(g) \subseteq Taken(g)'
  BY <1>4, WaitingTaken, Zenon
<1>6. Values(Nothing) \subseteq {0}
  BY Zenon DEF Values, Nothing
<1>7. Settled' = Settled
  BY <1>2, Zenon DEF Settled
<1>8. ASSUME NEW g \in Handles PROVE Kept(g)
  <2>1. mine'[g] = mine[g]
    BY <1>2, Zenon
  <2>2. CASE g # h
    <3>1. cache'[g].ranges = cache[g].ranges
      BY <1>1, <2>2, Zenon DEF Sets
    <3> QED
      BY <2>1, <3>1, <1>5, Zenon DEF Kept
  <2>3. CASE g = h
    <3>1. Values(cache[h].ranges) \subseteq {0} \cup Taken(h)'
      <4>1. CASE thread'[t].pc = "stage"
        <5>1. Values(thread'[t].ext) \subseteq Taken(h)'
          BY <1>1, <4>1, Zenon DEF Taken, Serving
        <5> QED
          BY <5>1, <1>1, Zenon
      <4>2. CASE thread'[t].pc # "stage"
        BY <1>1, <1>6, <4>2, Zenon
      <4> QED
        BY <4>1, <4>2, Zenon
    <3> QED
      BY <2>1, <2>3, <3>1, <1>5, Zenon DEF Kept
  <2> QED
    BY <2>2, <2>3, Zenon
<1>9. ASSUME Calm(seen'), NEW u \in Threads PROVE Wanted(u)
  <2>1. CASE u # t
    <3>1. \/ thread'[u] = thread[u]
          \/ thread'[u].pc # "stage" /\ thread'[u].pc # "commit" /\ thread'[u].pc # "reset"
      BY <1>1, <2>1, Zenon DEF Others, Like
    <3> QED
      BY <3>1, Zenon DEF Wanted
  <2>2. CASE u = t
    <3>1. Calm(seen)
      <4>1. seen \subseteq seen'
        BY <1>2, Zenon
      <4> QED
        BY <1>9, <4>1, CalmMore, Zenon
    <3>2. Serving(h, {"stage"}) = {}
      <4>1. ~("two flushes" \in Overlapping(h))
        BY <1>9, <1>2, Zenon DEF Calm
      <4> QED
        BY <4>1, Zenon DEF Overlapping
    <3>3. Taken(h) = {}
      BY <3>2, Zenon DEF Taken
    <3>4. mine[h] \subseteq Settled \cup Values(cache[h].ranges)
      BY <3>1, <3>3, Zenon DEF Accounted, Calm
    <3>5. ~(0 \in mine[h])
      BY Constants, Zenon DEF Types
    <3>6. thread'[t].pc = "commit" => mine[h] \subseteq Settled
      <4>1. thread'[t].pc = "commit" => cache[h].ranges = Nothing
        BY <1>1, Zenon
      <4> QED
        BY <4>1, <3>4, <3>5, <1>6, Zenon
    <3>7. thread'[t].pc # "reset"
      BY <1>1, Zenon
    <3> QED
      BY <2>2, <3>4, <3>6, <3>7, <1>1, <1>7, Zenon DEF Wanted
  <2> QED
    BY <2>1, <2>2, Zenon
<1>10. seen \subseteq seen' /\ promised' \subseteq promised \cup committed'.ids \cup dropped'
  BY <1>2, Zenon
<1>11. ASSUME Calm(seen'), batching' = FALSE PROVE committed'.ids = engine'.ids
  <2>1. Calm(seen)
    BY <1>10, <1>11, CalmMore, Zenon
  <2> QED
    BY <2>1, <1>2, <1>11, Zenon DEF Accounted, Calm
<1> QED
  BY <1>1, <1>3, <1>8, <1>9, <1>10, <1>11, AccountedFrame, Zenon

\* Everyone but t wants what they wanted.
LEMMA WantedElse ==
  ASSUME NEW t \in Threads, Others(t), NEW u \in Threads, u # t PROVE Wanted(u)
<1>1. \/ thread'[u] = thread[u]
      \/ thread'[u].pc # "stage" /\ thread'[u].pc # "commit" /\ thread'[u].pc # "reset"
  BY Zenon DEF Others, Like
<1> QED
  BY <1>1, Zenon DEF Wanted

\* A flush stages what it took: it is in the engine now.
LEMMA FlushStageAccounted ==
  ASSUME Types, Accounted, NEW t \in Threads, NEW due \in BOOLEAN, NEW fails \in BOOLEAN,
         FlushStage(t, due, fails)
  PROVE  Accounted'
<1>1. /\ Types' /\ Others(t) /\ SameRanges
      /\ thread[t].pc = "stage" /\ thread[t].ext \in Ranges
      /\ thread'[t].pc \in {"idle", "commit", "release"}
      /\ thread'[t].pc = "commit" => thread'[t].want = thread[t].want
      /\ engine' = Staged(thread[t].ext, NumCells)
  BY FlushStageIs, Zenon
<1>2. PICK ext \in Ranges : ext = thread[t].ext
  BY <1>1, Zenon
<1>3. engine.ids \subseteq engine'.ids /\ Values(ext) \ {0} \subseteq engine'.ids
  <2>1. NumCells \in 0..NumCells
    BY Constants
  <2> QED
    BY <1>1, <1>2, <2>1, StagedIs, Zenon DEF Types
<1>4. /\ committed' = (IF due /\ ~fails THEN engine' ELSE committed)
      /\ batching' = ~due /\ dropped' = dropped /\ promised' = promised
      /\ ~fails => mine' = mine
  BY Zenon DEF FlushStage, note_write
<1>5. seen \subseteq seen' /\ (fails => "commit" \in seen')
  BY Zenon DEF FlushStage
<1>6. Grows
  <2>1. committed.ids \subseteq engine.ids
    BY Zenon DEF Accounted
  <2>2. committed' = engine' \/ committed' = committed
    BY <1>4, Zenon
  <2> QED
    BY <1>3, <1>4, <2>1, <2>2, Zenon DEF Grows
<1>7. ASSUME Calm(seen')
      PROVE  /\ batching' = FALSE => committed'.ids = engine'.ids
             /\ promised' \subseteq promised \cup committed'.ids \cup dropped'
             /\ \A g \in Handles : Kept(g)
             /\ \A u \in Threads : Wanted(u)
  <2>1. Calm(seen) /\ ~fails
    <3>1. ~("commit" \in seen')
      BY <1>7, Zenon DEF Calm
    <3> QED
      BY <1>5, <1>7, <3>1, CalmMore, Zenon
  <2>2. batching' = FALSE => committed'.ids = engine'.ids
    BY <1>4, <2>1, Zenon
  <2>3. ASSUME NEW g \in Handles PROVE Kept(g)
    <3>1. ASSUME NEW u \in Serving(g, {"stage"}), NEW x \in Values(thread[u].ext)
          PROVE  x \in {0} \cup Settled' \cup Taken(g)'
      <4>1. u \in Threads /\ thread[u].pc = "stage" /\ thread[u].h = g
        BY Zenon DEF Serving
      <4>2. CASE u = t
        <5>1. x = 0 \/ x \in engine'.ids
          BY <3>1, <4>2, <1>2, <1>3, Zenon
        <5> QED
          BY <5>1, Zenon DEF Settled
      <4>3. CASE u # t
        <5>1. thread'[u] = thread[u]
          BY <1>1, <4>1, <4>3, Zenon DEF Others, Like
        <5> QED
          BY <5>1, <4>1, <3>1, Zenon DEF Taken, Serving
      <4> QED
        BY <4>2, <4>3, Zenon
    <3>2. Taken(g) \subseteq {0} \cup Settled' \cup Taken(g)'
      BY <3>1, Zenon DEF Taken
    <3>3. mine'[g] = mine[g] /\ cache'[g].ranges = cache[g].ranges
      BY <1>1, <1>4, <2>1, Zenon DEF SameRanges
    <3> QED
      BY <3>2, <3>3, Zenon DEF Kept
  <2>4. Wanted(t)
    <3>1. thread'[t].pc # "stage" /\ thread'[t].pc # "reset"
      BY <1>1, Zenon
    <3>2. ASSUME thread'[t].pc = "commit" PROVE thread'[t].want \subseteq Settled'
      <4>1. thread'[t].want = thread[t].want
        BY <1>1, <3>2, Zenon
      <4>2. thread[t].want \subseteq Settled \cup Values(ext)
        BY <1>1, <1>2, <2>1, Zenon DEF Accounted, Calm, At
      <4>3. ~(0 \in thread[t].want)
        BY <1>1, Constants, Zenon DEF Types, ThreadTypes, ThreadOK, FlushPcs
      <4> QED
        BY <4>1, <4>2, <4>3, <1>3, <1>4, Zenon DEF Settled
    <3> QED
      BY <3>1, <3>2, Zenon DEF Wanted
  <2>5. \A u \in Threads : Wanted(u)
    BY <1>1, <2>4, WantedElse, Zenon
  <2> QED
    BY <1>4, <2>2, <2>3, <2>5, Zenon
<1> QED
  BY <1>1, <1>5, <1>6, <1>7, AccountedFrame, Zenon

\* A flush fails half way: the error is seen.
LEMMA FlushFailsAccounted ==
  ASSUME Types, Accounted, NEW t \in Threads, NEW n \in 0..NumCells, FlushFails(t, n)
  PROVE  Accounted'
<1>1. engine.ids \subseteq engine'.ids
  BY FlushFailsIs, Zenon
<1>2. committed' = committed /\ "write" \in seen'
  BY Zenon DEF FlushFails
<1>3. ~(seen' \cap {"two flushes", "commit", "write"} = {})
  BY <1>2, Zenon
<1>4. committed.ids \subseteq engine.ids
  BY Zenon DEF Accounted
<1> QED
  BY <1>1, <1>2, <1>3, <1>4, Zenon DEF Accounted

\* An fsync commits the batch: what it wants is published.
LEMMA FsyncCommitAccounted ==
  ASSUME Types, Accounted, NEW t \in Threads, NEW fails \in BOOLEAN, FsyncCommit(t, fails)
  PROVE  Accounted'
<1>1. /\ Types' /\ Others(t) /\ cache' = cache
      /\ thread[t].pc = "commit" /\ thread'[t].pc \in {"idle", "reset"}
      /\ thread'[t].pc = "reset" => fails = FALSE /\ thread'[t].want = thread[t].want
  BY FsyncCommitIs, Zenon
<1>2. /\ engine' = engine /\ dropped' = dropped /\ promised' = promised
      /\ committed' = (IF batching /\ ~fails THEN engine ELSE committed)
      /\ ~fails => mine' = mine
  BY Zenon DEF FsyncCommit, CommitBatch
<1>3. seen \subseteq seen' /\ (fails => "commit" \in seen')
  BY Zenon DEF FsyncCommit
<1>4. committed.ids \subseteq engine.ids
  BY Zenon DEF Accounted
<1>5. Grows
  <2>1. committed' = engine \/ committed' = committed
    BY <1>2, Zenon
  <2> QED
    BY <1>2, <1>4, <2>1, Zenon DEF Grows
<1>6. Waiting
  <2>1. thread[t].pc # "stage"
    BY <1>1, Zenon
  <2> QED
    BY <1>1, <2>1, OthersWaiting, Zenon
<1>7. ASSUME Calm(seen')
      PROVE  /\ committed'.ids = engine'.ids
             /\ promised' \subseteq promised \cup committed'.ids \cup dropped'
             /\ \A g \in Handles : Kept(g)
             /\ \A u \in Threads : Wanted(u)
  <2>1. Calm(seen) /\ ~fails
    <3>1. ~("commit" \in seen')
      BY <1>7, Zenon DEF Calm
    <3> QED
      BY <1>3, <1>7, <3>1, CalmMore, Zenon
  <2>2. committed'.ids = engine'.ids
    <3>1. batching = FALSE => committed.ids = engine.ids
      BY <2>1, Zenon DEF Accounted, Calm
    <3>2. batching = TRUE \/ batching = FALSE
      BY Zenon DEF Types
    <3> QED
      BY <1>2, <2>1, <3>1, <3>2, Zenon
  <2>3. \A g \in Handles : Kept(g)
    <3>1. \A g \in Handles : Taken(g) \subseteq Taken(g)'
      BY <1>6, WaitingTaken, Zenon
    <3>2. mine' = mine
      BY <1>2, <2>1, Zenon
    <3> QED
      BY <1>1, <3>1, <3>2, Zenon DEF Kept
  <2>4. Wanted(t)
    <3>1. thread'[t].pc # "stage" /\ thread'[t].pc # "commit"
      BY <1>1, Zenon
    <3>2. thread[t].want \subseteq engine.ids \cup dropped
      BY <1>1, <2>1, Zenon DEF Accounted, Calm, At, Settled
    <3>3. thread'[t].pc = "reset" => thread'[t].want \subseteq committed'.ids \cup dropped'
      BY <1>1, <1>2, <2>2, <3>2, Zenon
    <3> QED
      BY <3>1, <3>3, Zenon DEF Wanted
  <2>5. \A u \in Threads : Wanted(u)
    BY <1>1, <2>4, WantedElse, Zenon
  <2> QED
    BY <1>2, <2>2, <2>3, <2>5, Zenon
<1> QED
  BY <1>1, <1>3, <1>5, <1>7, AccountedFrame, Zenon

\* The fsync returns: what it wanted is promised, and published already.
LEMMA FsyncResetAccounted ==
  ASSUME Types, Accounted, NEW t \in Threads, FsyncReset(t) PROVE Accounted'
<1>1. Types' /\ Moves(t, "reset", "idle")
  BY FsyncResetIs, Zenon
<1>2. /\ engine' = engine /\ committed' = committed /\ batching' = batching /\ dropped' = dropped
      /\ promised' = promised \cup thread[t].want /\ mine' = mine /\ cache' = cache /\ seen' = seen
  BY Zenon DEF FsyncReset, handles
<1>3. thread[t].pc = "reset" /\ thread[t].pc # "stage" /\ ~(thread'[t].pc \in {"stage", "commit", "reset"})
  BY <1>1, Zenon DEF Moves
<1>4. Waiting /\ \A u \in Threads : Wanted(u)
  BY <1>1, <1>3, OthersWaiting, OthersWanted, Zenon DEF Moves
<1>5. \A g \in Handles : Kept(g)
  <2>1. \A g \in Handles : Taken(g) \subseteq Taken(g)'
    BY <1>4, WaitingTaken, Zenon
  <2> QED
    BY <1>2, <2>1, Zenon DEF Kept
<1>6. Grows
  <2>1. committed.ids \subseteq engine.ids
    BY Zenon DEF Accounted
  <2> QED
    BY <1>2, <2>1, Zenon DEF Grows
<1>7. ASSUME Calm(seen')
      PROVE  /\ batching' = FALSE => committed'.ids = engine'.ids
             /\ promised' \subseteq promised \cup committed'.ids \cup dropped'
  <2>1. thread[t].want \subseteq committed.ids \cup dropped
    BY <1>2, <1>3, <1>7, Zenon DEF Accounted, Calm, At
  <2>2. promised' \subseteq promised \cup committed'.ids \cup dropped'
    BY <1>2, <2>1, Zenon
  <2> QED
    BY <1>2, <1>7, <2>2, Zenon DEF Accounted, Calm
<1>8. seen \subseteq seen'
  BY <1>2, Zenon
<1> QED
  BY <1>1, <1>4, <1>5, <1>6, <1>7, <1>8, AccountedFrame, Zenon

\* The caches are trimmed: the dirty ids past the end are given up.
LEMMA SetattrTrimAccounted ==
  ASSUME Types, Accounted, NEW t \in Threads, SetattrTrim(t) PROVE Accounted'
<1>1. /\ Types' /\ Moves(t, "trim", "meta") /\ thread[t].size \in 0..NumCells
      /\ \A g \in Handles, d \in Cells : d <= thread[t].size => cache'[g].ranges[d] = cache[g].ranges[d]
  BY SetattrTrimIs, Zenon
<1>2. /\ engine' = engine /\ committed' = committed /\ batching' = batching /\ promised' = promised
      /\ mine' = mine /\ seen' = seen
      /\ dropped' = dropped \cup {id \in Ids : \E h \in Handles, c \in Cells :
                                     c > thread[t].size /\ cache[h].ranges[c] = id}
  BY Zenon DEF SetattrTrim, store
<1>3. thread[t].pc # "stage" /\ ~(thread'[t].pc \in {"stage", "commit", "reset"})
  BY <1>1, Zenon DEF Moves
<1>4. Waiting /\ \A u \in Threads : Wanted(u)
  BY <1>1, <1>3, OthersWaiting, OthersWanted, Zenon DEF Moves
<1>5. ASSUME NEW g \in Handles PROVE Kept(g)
  <2>1. ASSUME NEW d \in Cells PROVE cache[g].ranges[d] \in {0} \cup dropped' \cup Values(cache'[g].ranges)
    <3>1. CASE d <= thread[t].size
      BY <3>1, <1>1, Zenon DEF Values
    <3>2. CASE ~(d <= thread[t].size)
      <4>1. d > thread[t].size
        BY <3>2, <1>1, Constants
      <4>2. cache[g].ranges[d] \in {0} \cup Ids
        BY Zenon DEF Types, CacheTypes, CacheOK, Ranges
      <4> QED
        BY <4>1, <4>2, <1>2, Zenon
    <3> QED
      BY <3>1, <3>2, Zenon
  <2>2. Values(cache[g].ranges) \subseteq {0} \cup Settled' \cup Values(cache'[g].ranges)
    BY <2>1, Zenon DEF Values, Settled
  <2>3. Taken(g) \subseteq Taken(g)'
    BY <1>4, WaitingTaken, Zenon
  <2> QED
    BY <1>2, <2>2, <2>3, Zenon DEF Kept
<1>6. Grows
  <2>1. committed.ids \subseteq engine.ids
    BY Zenon DEF Accounted
  <2> QED
    BY <1>2, <2>1, Zenon DEF Grows
<1>7. Calm(seen') /\ batching' = FALSE => committed'.ids = engine'.ids
  BY <1>2, Zenon DEF Accounted, Calm
<1>8. seen \subseteq seen' /\ promised' \subseteq promised \cup committed'.ids \cup dropped'
  BY <1>2, Zenon
<1> QED
  BY <1>1, <1>4, <1>5, <1>6, <1>7, <1>8, AccountedFrame, Zenon

\* A process starts over: nothing is dirty or wanted, and what was promised is published.
LEMMA RemountAccounted ==
  ASSUME Types, Accounted, NEW c, ContentOK(c), Remount(c), nextId' = nextId,
         Calm(seen') => promised' \subseteq c.ids \cup dropped'
  PROVE  Accounted'
<1>1. /\ \A t \in Threads : thread'[t].pc = "idle"
      /\ \A h \in Handles : mine'[h] = {}
      /\ engine' = c /\ committed' = c
  BY RemountIs, Zenon
<1>2. \A t \in Threads : thread'[t].pc # "stage" /\ thread'[t].pc # "commit" /\ thread'[t].pc # "reset"
  BY <1>1, Zenon
<1> QED
  BY <1>1, <1>2, Zenon DEF Accounted, Calm, At

LEMMA CrashAccounted == ASSUME Types, Accounted, Crash PROVE Accounted'
<1>1. Remount(committed) /\ nextId' = nextId /\ seen' = seen /\ promised' = promised /\ dropped' = dropped
  BY Zenon DEF Crash
<1>2. Calm(seen') => promised' \subseteq committed.ids \cup dropped'
  BY <1>1, Zenon DEF Accounted, Calm
<1>3. ContentOK(committed)
  BY Zenon DEF Types
<1> QED
  BY <1>1, <1>2, <1>3, RemountAccounted, Zenon

LEMMA UnmountAccounted ==
  ASSUME Types, Accounted, NEW fails \in BOOLEAN, Unmount(fails) PROVE Accounted'
<1>1. PICK c : c = IF batching /\ ~fails THEN engine ELSE committed
  BY Zenon
<1>2. /\ Remount(c) /\ nextId' = nextId /\ seen' = seen /\ dropped' = dropped
      /\ promised' = IF fails THEN promised ELSE promised \cup engine.ids
  BY <1>1, Zenon DEF Unmount
<1>3. ContentOK(c)
  BY <1>1, Zenon DEF Types
<1>4. ASSUME Calm(seen') PROVE promised' \subseteq c.ids \cup dropped'
  <2>1. /\ promised \subseteq committed.ids \cup dropped /\ committed.ids \subseteq engine.ids
        /\ batching = FALSE => committed.ids = engine.ids
    BY <1>2, <1>4, Zenon DEF Accounted, Calm
  <2>2. CASE fails
    <3>1. c = committed /\ promised' = promised
      BY <1>1, <1>2, <2>2, Zenon
    <3> QED
      BY <1>2, <2>1, <3>1, Zenon
  <2>3. CASE ~fails
    <3>1. c.ids = engine.ids
      <4>1. batching = TRUE \/ batching = FALSE
        BY Zenon DEF Types
      <4> QED
        BY <1>1, <2>1, <2>3, <4>1, Zenon
    <3>2. promised' = promised \cup engine.ids
      BY <1>2, <2>3, Zenon
    <3> QED
      BY <1>2, <2>1, <3>1, <3>2, Zenon
  <2> QED
    BY <2>2, <2>3, Zenon
<1> QED
  BY <1>2, <1>3, <1>4, RemountAccounted, Zenon

\* The steps of a thread outside fsyncs that leave the engine alone.
LEMMA ElsewhereAccounted ==
  ASSUME Accounted, Types', NEW t \in Threads, NEW from, NEW to, Moves(t, from, to), from # "stage",
         ~(to \in {"stage", "commit", "reset"}), seen \subseteq seen', engine' = engine, committed' = committed,
         batching' = batching, dropped' = dropped, promised' = promised,
         \A g \in Handles : mine'[g] = {} \/ (mine'[g] = mine[g] /\ cache'[g].ranges = cache[g].ranges)
  PROVE  Accounted'
<1>1. Waiting /\ \A u \in Threads : Wanted(u)
  BY OthersWaiting, OthersWanted, Zenon DEF Moves
<1>2. engine'.ids = engine.ids /\ committed'.ids \in {committed.ids, engine.ids}
  BY Zenon
<1> QED
  BY <1>1, <1>2, QuietAccounted, Zenon

LEMMA AccountedStep == ASSUME Types, Accounted, Next PROVE Accounted'
<1>1. ASSUME NEW t \in Threads, NEW h \in Handles, OpenStart(t, h) PROVE Accounted'
  <2>1. Types' /\ Moves(t, "idle", "insert")
    BY <1>1, OpenStartIs, Zenon
  <2>2. /\ seen \subseteq seen' /\ engine' = engine /\ committed' = committed /\ batching' = batching
        /\ dropped' = dropped /\ promised' = promised /\ mine' = mine /\ cache' = cache
    BY <1>1, Zenon DEF OpenStart, handles, store, history
  <2>3. "idle" # "stage" /\ ~("insert" \in {"stage", "commit", "reset"})
    BY Zenon
  <2>4. \A g \in Handles : mine'[g] = {} \/ (mine'[g] = mine[g] /\ cache'[g].ranges = cache[g].ranges)
    BY <2>2, Zenon
  <2> QED
    BY <2>1, <2>2, <2>3, <2>4, ElsewhereAccounted, Zenon
<1>2. ASSUME NEW t \in Threads, OpenInsert(t) PROVE Accounted'
  <2>1. Types' /\ Moves(t, "insert", "idle") /\ thread[t].h \in Handles /\ Sets(thread[t].h, Nothing)
    BY <1>2, OpenInsertIs, Zenon
  <2>2. /\ seen \subseteq seen' /\ engine' = engine /\ committed' = committed /\ batching' = batching
        /\ dropped' = dropped /\ promised' = promised /\ mine' = [mine EXCEPT ![thread[t].h] = {}]
    BY <1>2, Zenon DEF OpenInsert, store
  <2>3. "insert" # "stage" /\ ~("idle" \in {"stage", "commit", "reset"})
    BY Zenon
  <2>4. \A g \in Handles : mine'[g] = {} \/ (mine'[g] = mine[g] /\ cache'[g].ranges = cache[g].ranges)
    BY <2>1, <2>2, Zenon DEF Sets, Types
  <2> QED
    BY <2>1, <2>2, <2>3, <2>4, ElsewhereAccounted, Zenon
<1>4. ASSUME NEW t \in Threads, NEW h \in Handles, NEW c \in Cells, ReadStart(t, h, c) PROVE Accounted'
  <2>1. Types' /\ Moves(t, "idle", "read")
    BY <1>4, ReadStartIs, Zenon
  <2>2. /\ seen \subseteq seen' /\ engine' = engine /\ committed' = committed /\ batching' = batching
        /\ dropped' = dropped /\ promised' = promised /\ mine' = mine /\ cache' = cache
    BY <1>4, Zenon DEF ReadStart, handles, store, history
  <2>3. "idle" # "stage" /\ ~("read" \in {"stage", "commit", "reset"})
    BY Zenon
  <2>4. \A g \in Handles : mine'[g] = {} \/ (mine'[g] = mine[g] /\ cache'[g].ranges = cache[g].ranges)
    BY <2>2, Zenon
  <2> QED
    BY <2>1, <2>2, <2>3, <2>4, ElsewhereAccounted, Zenon
<1>5. ASSUME NEW t \in Threads, ReadServe(t) PROVE Accounted'
  <2>1. Types' /\ Moves(t, "read", "idle")
    BY <1>5, ReadServeIs, Zenon
  <2>2. /\ seen \subseteq seen' /\ engine' = engine /\ committed' = committed /\ batching' = batching
        /\ dropped' = dropped /\ promised' = promised /\ mine' = mine /\ cache' = cache
    BY <1>5, Zenon DEF ReadServe, store
  <2>3. "read" # "stage" /\ ~("idle" \in {"stage", "commit", "reset"})
    BY Zenon
  <2>4. \A g \in Handles : mine'[g] = {} \/ (mine'[g] = mine[g] /\ cache'[g].ranges = cache[g].ranges)
    BY <2>2, Zenon
  <2> QED
    BY <2>1, <2>2, <2>3, <2>4, ElsewhereAccounted, Zenon
<1>11. ASSUME NEW t \in Threads, FlushReturn(t) PROVE Accounted'
  <2>1. Types' /\ Moves(t, "flush", "idle")
    BY <1>11, FlushReturnIs, Zenon
  <2>2. /\ seen \subseteq seen' /\ engine' = engine /\ committed' = committed /\ batching' = batching
        /\ dropped' = dropped /\ promised' = promised /\ mine' = mine /\ cache' = cache
    BY <1>11, Zenon DEF FlushReturn, handles, store, history
  <2>3. "flush" # "stage" /\ ~("idle" \in {"stage", "commit", "reset"})
    BY Zenon
  <2>4. \A g \in Handles : mine'[g] = {} \/ (mine'[g] = mine[g] /\ cache'[g].ranges = cache[g].ranges)
    BY <2>2, Zenon
  <2> QED
    BY <2>1, <2>2, <2>3, <2>4, ElsewhereAccounted, Zenon
<1>12. ASSUME NEW t \in Threads, Release(t) PROVE Accounted'
  <2>1. Types' /\ Moves(t, "release", "idle") /\ thread[t].h \in Handles /\ Sets(thread[t].h, Nothing)
    BY <1>12, ReleaseIs, Zenon
  <2>2. /\ seen \subseteq seen' /\ engine' = engine /\ committed' = committed /\ batching' = batching
        /\ dropped' = dropped /\ promised' = promised /\ mine' = [mine EXCEPT ![thread[t].h] = {}]
    BY <1>12, Zenon DEF Release, store
  <2>3. "release" # "stage" /\ ~("idle" \in {"stage", "commit", "reset"})
    BY Zenon
  <2>4. \A g \in Handles : mine'[g] = {} \/ (mine'[g] = mine[g] /\ cache'[g].ranges = cache[g].ranges)
    BY <2>1, <2>2, Zenon DEF Sets, Types
  <2> QED
    BY <2>1, <2>2, <2>3, <2>4, ElsewhereAccounted, Zenon
<1>13. ASSUME NEW t \in Threads, NEW n \in 0..NumCells, SetattrStart(t, n) PROVE Accounted'
  <2>1. Types' /\ Moves(t, "idle", "size")
    BY <1>13, SetattrStartIs, Zenon
  <2>2. /\ seen \subseteq seen' /\ engine' = engine /\ committed' = committed /\ batching' = batching
        /\ dropped' = dropped /\ promised' = promised /\ mine' = mine /\ cache' = cache
    BY <1>13, Zenon DEF SetattrStart, handles, store
  <2>3. "idle" # "stage" /\ ~("size" \in {"stage", "commit", "reset"})
    BY Zenon
  <2>4. \A g \in Handles : mine'[g] = {} \/ (mine'[g] = mine[g] /\ cache'[g].ranges = cache[g].ranges)
    BY <2>2, Zenon
  <2> QED
    BY <2>1, <2>2, <2>3, <2>4, ElsewhereAccounted, Zenon
<1>14. ASSUME NEW t \in Threads, SetattrSize(t) PROVE Accounted'
  <2>1. Types' /\ Moves(t, "size", "bump") /\ cache' = cache /\ engine'.ids = engine.ids
    BY <1>14, SetattrSizeIs, Zenon
  <2>2. seen' = seen /\ dropped' = dropped /\ promised' = promised /\ mine' = mine /\ batching' = batching
    BY <1>14, Zenon DEF SetattrSize, history
  <2>3. committed' = committed \/ committed' = engine'
    BY <1>14, Zenon DEF SetattrSize, Mutate
  <2>4. committed'.ids \in {committed.ids, engine.ids}
    BY <2>1, <2>3, Zenon
  <2>5. thread[t].pc # "stage" /\ ~(thread'[t].pc \in {"stage", "commit", "reset"})
    BY <2>1, Zenon DEF Moves
  <2>6. Waiting /\ \A u \in Threads : Wanted(u)
    BY <2>1, <2>5, OthersWaiting, OthersWanted, Zenon DEF Moves
  <2>7. \A g \in Handles : mine'[g] = mine[g] /\ cache'[g].ranges = cache[g].ranges
    BY <2>1, <2>2, Zenon
  <2> QED
    BY <2>1, <2>2, <2>4, <2>6, <2>7, QuietAccounted, Zenon
<1>15. ASSUME NEW t \in Threads, SetattrBump(t) PROVE Accounted'
  <2>1. Types' /\ Moves(t, "bump", "trim")
    BY <1>15, SetattrBumpIs, Zenon
  <2>2. /\ seen \subseteq seen' /\ engine' = engine /\ committed' = committed /\ batching' = batching
        /\ dropped' = dropped /\ promised' = promised /\ mine' = mine /\ cache' = cache
    BY <1>15, Zenon DEF SetattrBump, handles, history
  <2>3. "bump" # "stage" /\ ~("trim" \in {"stage", "commit", "reset"})
    BY Zenon
  <2>4. \A g \in Handles : mine'[g] = {} \/ (mine'[g] = mine[g] /\ cache'[g].ranges = cache[g].ranges)
    BY <2>2, Zenon
  <2> QED
    BY <2>1, <2>2, <2>3, <2>4, ElsewhereAccounted, Zenon
<1>17. ASSUME NEW t \in Threads, SetattrMeta(t) PROVE Accounted'
  <2>1. Types' /\ Moves(t, "meta", "idle") /\ cache' = cache /\ engine'.ids = engine.ids
    BY <1>17, SetattrMetaIs, Zenon
  <2>2. seen' = seen /\ dropped' = dropped /\ promised' = promised /\ mine' = mine /\ batching' = batching
    BY <1>17, Zenon DEF SetattrMeta, history
  <2>3. committed' = committed \/ committed' = engine'
    BY <1>17, Zenon DEF SetattrMeta, Mutate
  <2>4. committed'.ids \in {committed.ids, engine.ids}
    BY <2>1, <2>3, Zenon
  <2>5. thread[t].pc # "stage" /\ ~(thread'[t].pc \in {"stage", "commit", "reset"})
    BY <2>1, Zenon DEF Moves
  <2>6. Waiting /\ \A u \in Threads : Wanted(u)
    BY <2>1, <2>5, OthersWaiting, OthersWanted, Zenon DEF Moves
  <2>7. \A g \in Handles : mine'[g] = mine[g] /\ cache'[g].ranges = cache[g].ranges
    BY <2>1, <2>2, Zenon
  <2> QED
    BY <2>1, <2>2, <2>4, <2>6, <2>7, QuietAccounted, Zenon
<1>18. ASSUME NEW due \in BOOLEAN, OtherStage(due) PROVE Accounted'
  <2>1. Types' /\ thread' = thread /\ cache' = cache /\ engine' = engine
    BY <1>18, OtherStageIs, Zenon
  <2>2. dropped' = dropped /\ promised' = promised /\ mine' = mine /\ seen \subseteq seen'
    BY <1>18, Zenon DEF OtherStage
  <2>3. committed' = (IF due THEN engine ELSE committed) /\ batching' = ~due
    BY <1>18, Zenon DEF OtherStage, note_write
  <2>4. batching' = FALSE => committed'.ids = engine.ids
    BY <2>3, Zenon
  <2>5. committed'.ids \in {committed.ids, engine.ids}
    BY <2>3, Zenon
  <2>6. Waiting /\ \A u \in Threads : Wanted(u)
    BY <2>1, Zenon DEF Waiting, Wanted
  <2>7. engine'.ids = engine.ids /\ \A g \in Handles : mine'[g] = mine[g] /\ cache'[g].ranges = cache[g].ranges
    BY <2>1, <2>2, Zenon
  <2> QED
    BY <2>1, <2>2, <2>4, <2>5, <2>6, <2>7, QuietAccounted, Zenon
<1>19. ASSUME OtherPublish PROVE Accounted'
  <2>1. Types' /\ thread' = thread /\ cache' = cache /\ engine' = engine
    BY <1>19, OtherPublishIs, Zenon
  <2>2. dropped' = dropped /\ promised' = promised /\ mine' = mine /\ seen \subseteq seen'
    BY <1>19, Zenon DEF OtherPublish
  <2>3. committed' = (IF batching THEN committed ELSE engine) /\ batching' = batching
    BY <1>19, Zenon DEF OtherPublish, Mutate
  <2>4. batching' = FALSE => batching = FALSE
    BY <2>3, Zenon
  <2>5. committed'.ids \in {committed.ids, engine.ids}
    BY <2>3, Zenon
  <2>6. Waiting /\ \A u \in Threads : Wanted(u)
    BY <2>1, Zenon DEF Waiting, Wanted
  <2>7. engine'.ids = engine.ids /\ \A g \in Handles : mine'[g] = mine[g] /\ cache'[g].ranges = cache[g].ranges
    BY <2>1, <2>2, Zenon
  <2> QED
    BY <2>1, <2>2, <2>4, <2>5, <2>6, <2>7, QuietAccounted, Zenon
<1> QED
  BY <1>1, <1>2, <1>4, <1>5, <1>11, <1>12, <1>13, <1>14, <1>15, <1>17, <1>18, <1>19, WriteAccounted, FlushTakeAccounted, FlushStageAccounted, FlushFailsAccounted, FsyncCommitAccounted, FsyncResetAccounted, SetattrTrimAccounted,
     CrashAccounted, UnmountAccounted, Zenon DEF Next

-----------------------------------------------------------------------------
(* The theorems.                                                            *)

LEMMA TypesStep == ASSUME Types, Next PROVE Types'
<1>1. ContentOK(engine) /\ ContentOK(committed)
  BY Zenon DEF Types
<1>2. ASSUME Crash PROVE Types'
  BY <1>1, <1>2, RemountIs, Zenon DEF Crash
<1>3. ASSUME NEW fails \in BOOLEAN, Unmount(fails) PROVE Types'
  <2>1. PICK c : c = IF batching /\ ~fails THEN engine ELSE committed
    BY Zenon
  <2>2. ContentOK(c)
    BY <1>1, <2>1, Zenon
  <2> QED
    BY <1>3, <2>1, <2>2, RemountIs, Zenon DEF Unmount
<1>4. ASSUME \/ \E t \in Threads, h \in Handles : OpenStart(t, h)
             \/ \E t \in Threads : OpenInsert(t)
             \/ \E h \in Handles, c \in Cells : Write(h, c)
             \/ \E t \in Threads, h \in Handles, c \in Cells : ReadStart(t, h, c)
             \/ \E t \in Threads : ReadServe(t)
      PROVE  Types'
  BY <1>4, OpenStartIs, OpenInsertIs, WriteIs, ReadStartIs, ReadServeIs, Zenon
<1>5. ASSUME \/ \E t \in Threads, h \in Handles, op \in {"flush", "fsync", "release"} : FlushTake(t, h, op)
             \/ \E t \in Threads, due, fails \in BOOLEAN : FlushStage(t, due, fails)
             \/ \E t \in Threads, n \in 0..NumCells : FlushFails(t, n)
             \/ \E t \in Threads, fails \in BOOLEAN : FsyncCommit(t, fails)
             \/ \E t \in Threads : FsyncReset(t)
             \/ \E t \in Threads : FlushReturn(t)
             \/ \E t \in Threads : Release(t)
      PROVE  Types'
  BY <1>5, FlushTakeIs, FlushStageIs, FlushFailsIs, FsyncCommitIs, FsyncResetIs, FlushReturnIs, ReleaseIs, Zenon
<1>6. ASSUME \/ \E t \in Threads, n \in 0..NumCells : SetattrStart(t, n)
             \/ \E t \in Threads : SetattrSize(t)
             \/ \E t \in Threads : SetattrBump(t)
             \/ \E t \in Threads : SetattrTrim(t)
             \/ \E t \in Threads : SetattrMeta(t)
             \/ \E due \in BOOLEAN : OtherStage(due)
             \/ OtherPublish
      PROVE  Types'
  BY <1>6, SetattrStartIs, SetattrSizeIs, SetattrBumpIs, SetattrTrimIs, SetattrMetaIs, OtherStageIs, OtherPublishIs,
     Zenon
<1> QED
  BY <1>2, <1>3, <1>4, <1>5, <1>6, Zenon DEF Next

LEMMA InitTypes == ASSUME Init PROVE Types
<1>1. PICK n \in 0..NumCells, Open \in SUBSET Handles :
        /\ engine = [len |-> n, cells |-> Nothing, ids |-> {}]
        /\ cache = [h \in Handles |-> IF h \in Open THEN Opened(n) ELSE Closed]
        /\ limit = n
  BY Zenon DEF Init
<1>2. /\ thread = [t \in Threads |-> Idle] /\ mine = [h \in Handles |-> {}] /\ committed = engine
      /\ batching = FALSE /\ nextId = 1
  BY Zenon DEF Init
<1>3. ThreadTypes
  BY <1>2, Zenon DEF ThreadTypes, ThreadOK, Idle, FlushPcs, SizePcs
<1>4. CacheTypes
  <2>1. 0 \in 0..NumCells
    BY Constants
  <2>2. CacheOK(Opened(n)) /\ CacheOK(Closed)
    BY <2>1, Constants, Zenon DEF CacheOK, Opened, Closed
  <2> QED
    BY <1>1, <2>2, Zenon DEF CacheTypes
<1>5. ContentOK(engine) /\ ContentOK(committed)
  BY <1>1, <1>2, Zenon DEF ContentOK
<1>6. mine \in [Handles -> SUBSET Ids] /\ limit \in 0..NumCells /\ nextId \in Nat \ {0}
  BY <1>1, <1>2
<1>7. batching \in BOOLEAN
  BY <1>2, Zenon
<1> QED
  BY <1>3, <1>4, <1>5, <1>6, <1>7, Zenon DEF Types

LEMMA InitHolds == ASSUME Init PROVE Window /\ Accounted /\ Bounded /\ Exclusive
<1>1. PICK n \in 0..NumCells, Open \in SUBSET Handles :
        /\ engine = [len |-> n, cells |-> Nothing, ids |-> {}]
        /\ cache = [h \in Handles |-> IF h \in Open THEN Opened(n) ELSE Closed]
        /\ limit = n
  BY Zenon DEF Init
<1>2. /\ thread = [t \in Threads |-> Idle] /\ mine = [h \in Handles |-> {}] /\ committed = engine
      /\ promised = {} /\ window = 0 /\ staged = 0
  BY Zenon DEF Init
<1>3. \A t \in Threads : thread[t].pc = "idle"
  BY <1>2, Zenon DEF Idle
<1>4. Window
  BY <1>2, Constants DEF Window
<1>5. \A t \in Threads : ~At(t, "stage") /\ ~At(t, "commit") /\ ~At(t, "reset")
  BY <1>3, Zenon DEF At
<1>6. Accounted
  BY <1>1, <1>2, <1>5, Zenon DEF Accounted
<1>7. \A h \in Handles : cache[h].ranges = Nothing
  BY <1>1, Zenon DEF Opened, Closed
<1>8. \A h \in Handles : Below(cache[h].ranges, limit)
  BY <1>7, Zenon DEF Below, Nothing
<1>9. engine.len <= limit
  BY <1>1
<1>10. Bounded
  BY <1>3, <1>8, <1>9, Zenon DEF Bounded
<1>11. Exclusive
  BY <1>3, Zenon DEF Exclusive, SizePcs
<1> QED
  BY <1>4, <1>6, <1>10, <1>11, Zenon

LEMMA StutterTypes == ASSUME Types, UNCHANGED vars PROVE Types'
<1>1. /\ thread' = thread /\ cache' = cache /\ mine' = mine /\ engine' = engine /\ committed' = committed
      /\ limit' = limit /\ nextId' = nextId /\ batching' = batching
  BY Zenon DEF vars, handles, store, history, budgets
<1> QED
  BY <1>1, Zenon DEF Types, ThreadTypes, CacheTypes

LEMMA StutterHolds ==
  ASSUME UNCHANGED vars
  PROVE  (Window => Window') /\ (Accounted => Accounted') /\ (Bounded => Bounded') /\ (Exclusive => Exclusive')
<1>1. /\ thread' = thread /\ cache' = cache /\ mine' = mine /\ engine' = engine /\ committed' = committed
      /\ limit' = limit /\ batching' = batching /\ seen' = seen /\ dropped' = dropped /\ promised' = promised
      /\ window' = window /\ staged' = staged
  BY Zenon DEF vars, handles, store, history
<1>2. Window => Window'
  BY <1>1, Zenon DEF Window, At
<1>3. Settled' = Settled /\ \A h : Taken(h)' = Taken(h)
  BY <1>1, Zenon DEF Settled, Taken, Serving, At
<1>4. Accounted => Accounted'
  BY <1>1, <1>3, Zenon DEF Accounted, At
<1>5. Bounded => Bounded'
  BY <1>1, Zenon DEF Bounded, Cutting
<1>6. Exclusive => Exclusive'
  BY <1>1, Zenon DEF Exclusive
<1> QED
  BY <1>2, <1>4, <1>5, <1>6, Zenon

LEMMA AlwaysTypes == Spec => []Types
<1>1. Init => Types
  BY InitTypes, Zenon
<1>2. Types /\ [Next]_vars => Types'
  BY TypesStep, StutterTypes, Zenon
<1> QED
  BY <1>1, <1>2, PTL DEF Spec

\* The crash-loss window is bounded: with COMMIT_MAX_OPS the limit of note_write, at
\* most COMMIT_MAX_OPS - 1 operations are staged and not committed at any moment, for
\* any number of threads and handles, except after an operation was counted before an
\* fsync reset the window or after a commit failed.
THEOREM LossIsBounded == Spec => []LossWindow
<1>1. Init => Window
  BY InitHolds, Zenon
<1>2. Types /\ Window /\ [Next]_vars => Window'
  BY WindowStep, StutterHolds, Zenon
<1>3. ASSUME Window PROVE LossWindow
  <2>1. window \in 0..COMMIT_MAX_OPS - 1 /\ staged \in Nat
    BY <1>3, Zenon DEF Window
  <2>2. ASSUME staged <= window PROVE staged < COMMIT_MAX_OPS
    BY <2>1, <2>2, Constants
  <2> QED
    BY <1>3, <2>2, Zenon DEF Window, LossWindow
<1> QED
  BY AlwaysTypes, <1>1, <1>2, <1>3, PTL DEF Spec

\* After fsync returned, what was written through the handle is committed, unless it was
\* overwritten or cut off: no interleaving of writes, flushes and fsyncs of several
\* handles, of size changes and of crashes loses it, except after two flushes of one
\* handle overlapped or a commit or an engine write failed (fsync, flush_handle, Drop).
THEOREM FsyncIsDurable == Spec => []FsyncDurable
<1>1. Init => Accounted
  BY InitHolds, Zenon
<1>2. Types /\ Accounted /\ [Next]_vars => Accounted'
  BY AccountedStep, StutterHolds, Zenon
<1>3. Accounted => FsyncDurable
  BY Zenon DEF Accounted, FsyncDurable
<1> QED
  BY AlwaysTypes, <1>1, <1>2, <1>3, PTL DEF Spec

\* A size change is final: once setattr returned, no flush of any handle brings back
\* content past the end the application knows, unless that flush was in flight during
\* the size change (WbCache::truncate, SfsFs::setattr).
THEOREM NothingIsResurrected == Spec => []NoResurrection
<1>1. Init => Bounded /\ Exclusive
  BY InitHolds, Zenon
<1>2. Types /\ Bounded /\ Exclusive /\ [Next]_vars => Bounded' /\ Exclusive'
  BY BoundedStep, StutterHolds, Zenon
<1>3. ASSUME Bounded PROVE NoResurrection
  <2>1. Sizing = {} => \A t \in Threads : ~Cutting(t)
    BY Zenon DEF Sizing, Cutting, At
  <2> QED
    BY <1>3, <2>1, Zenon DEF Bounded, NoResurrection
<1> QED
  BY AlwaysTypes, <1>1, <1>2, <1>3, PTL DEF Spec
=============================================================================
