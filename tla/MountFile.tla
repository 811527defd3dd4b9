------------------------------ MODULE MountFile ------------------------------
(***************************************************************************)
(* One regular file of a mounted container, as the FUSE threads of         *)
(* crates/sfs-mount/src/adapter.rs serve it: the write-back cache and the  *)
(* read-ahead buffer of every open handle, the engine behind them with its *)
(* open write batch, and the commit window.  FUSE requests run on several  *)
(* threads, so a request is split where it releases a lock.                *)
(*                                                                         *)
(* A file is a sequence of Cells; a write stores a fresh id in one cell    *)
(* and 0 is a hole.  Linux holds the inode lock over write, fsync and      *)
(* setattr, not over read and flush, and sends release after every other   *)
(* request of the handle.                                                  *)
(***************************************************************************)
EXTENDS Naturals, FiniteSets, FiniteSetsExt

CONSTANTS Threads,          \* FUSE worker threads
          Handles,          \* slots for open file handles
          NumCells,         \* cells of the file
          COMMIT_MAX_OPS,   \* operations of a commit window
          MaxWrites,        \* bound: application writes
          MaxRequests,      \* bound: opens, reads, flushes and size changes
          MaxEvents         \* bound: size changes, operations on other files,
                            \* engine errors, crashes and unmounts together

ASSUME MountFileAssumption ==
  /\ IsFiniteSet(Threads) /\ Threads # {}
  /\ IsFiniteSet(Handles) /\ Handles # {}
  /\ {NumCells, COMMIT_MAX_OPS} \subseteq Nat \ {0}
  /\ {MaxWrites, MaxRequests, MaxEvents} \subseteq Nat

VARIABLES
  cache,       \* handle -> WbCache: state, logical len, dirty ranges, dirty flag
  readahead,   \* handle -> read-ahead buffer; start = 0 when there is none
  seqNext,     \* handle -> the cell after the last one served
  engine,      \* what the engine serves: len, cells, the ids it has taken in
  committed,   \* the same, as the published header names it
  batching,    \* suppress_commit: a write batch is open
  window,      \* BatchWindow.ops
  writeGen,    \* write_gen
  thread,      \* thread -> the request it serves and where it stands
  latest,      \* history: handle -> cell -> the id a reader must find there
  mine,        \* history: handle -> ids written through it and not failed
  dropped,     \* history: ids overwritten in a cache or cut off by setattr
  promised,    \* history: ids a successful fsync or unmount answered for
  limit,       \* history: the end of the file as the application knows it
  staged,      \* history: operations counted since the last commit
  misread,     \* history: a read returned a value nobody could expect
  nextId,      \* the next write's id
  requests,    \* requests so far
  events,      \* size changes, other operations, faults, crashes so far
  seen         \* history: overlaps and faults the code does not mask

budgets == <<nextId, requests, events>>
history == <<latest, mine, dropped, promised, limit, staged, misread, seen>>
handles == <<cache, readahead, seqNext>>
store == <<engine, committed, batching, window, writeGen>>
vars == <<handles, store, thread, history, budgets>>

Cells == 1..NumCells
Ids == 1..MaxWrites
Nothing == [c \in Cells |-> 0]
Content == [len : 0..NumCells, cells : [Cells -> {0} \cup Ids], ids : SUBSET Ids]

NoAhead == [gen |-> 0, start |-> 0, data |-> Nothing, end |-> 0]
Closed == [state |-> "closed", len |-> 0, ranges |-> Nothing, dirty |-> FALSE]
Leaked(wb) == [state |-> "leaked", len |-> wb.len, ranges |-> wb.ranges, dirty |-> wb.dirty]
Opened(n) == [state |-> "open", len |-> n, ranges |-> Nothing, dirty |-> FALSE]

\* What a thread does: nothing, a read, a flush (or fsync, or release), a size change.
\* A read keeps the values it may return, and is its own master (own) unless a flush of
\* the handle or a size change that cuts the cell off overlaps it.
Idle == [pc |-> "idle"]
Reading(r, may, own) ==
  [pc |-> "read", h |-> r.h, c |-> r.c, gen |-> r.gen, may |-> may, own |-> own]
Flushing(pc, r) == [pc |-> pc, op |-> r.op, h |-> r.h, ext |-> r.ext, want |-> r.want]
Resizing(pc, r) == [pc |-> pc, h |-> 0, size |-> r.size, current |-> r.current]

\* The container was mounted with a file of n holes, some handles are open.
Init ==
  /\ \E n \in 0..NumCells, Open \in SUBSET Handles :
       /\ engine = [len |-> n, cells |-> Nothing, ids |-> {}]
       /\ cache = [h \in Handles |-> IF h \in Open THEN Opened(n) ELSE Closed]
       /\ limit = n
  /\ readahead = [h \in Handles |-> NoAhead]
  /\ seqNext = [h \in Handles |-> 1]
  /\ committed = engine
  /\ batching = FALSE /\ window = 0 /\ writeGen = 0
  /\ thread = [t \in Threads |-> Idle]
  /\ latest = [h \in Handles |-> Nothing]
  /\ mine = [h \in Handles |-> {}]
  /\ dropped = {} /\ promised = {} /\ staged = 0
  /\ misread = FALSE /\ seen = {}
  /\ nextId = 1 /\ requests = 0 /\ events = 0

At(t, pc) == thread[t].pc = pc
\* Thread t takes up a request.
Accept(t) == At(t, "idle") /\ requests < MaxRequests /\ requests' = requests + 1
Goto(t, rec) == thread' = [thread EXCEPT ![t] = rec]
Serving(h, pcs) == {t \in Threads : thread[t].pc \in pcs /\ thread[t].h = h}
Sizing == {t \in Threads : thread[t].pc \in {"size", "bump", "trim", "meta"}}
Fsyncing == {t \in Threads : thread[t].pc \in {"stage", "commit", "reset"}
                             /\ thread[t].op = "fsync"}
\* The kernel may still send requests for the handle.
Live(h) ==
  /\ cache[h].state = "open"
  /\ \A t \in Serving(h, {"stage", "release"}) : thread[t].op # "release"
InodeLocked == Sizing \cup Fsyncing # {}

\* The reads in flight that may return what the cells hold from now on.
Told(threads, cells) ==
  [t \in Threads |-> IF threads[t].pc = "read"
                     THEN Reading(threads[t], threads[t].may \cup {cells[threads[t].h][threads[t].c]},
                                  threads[t].own)
                     ELSE threads[t]]

-----------------------------------------------------------------------------
(* The engine: Engine::begin_batch, commit_batch, publish.                  *)

\* A mutation outside a batch publishes at once; inside one it is staged.
Mutate(e) ==
  /\ engine' = e
  /\ committed' = IF batching THEN committed ELSE e

\* Mutant of note_write: write_gen is not bumped.
note_write_quiet(e, due, fails) ==
  /\ window + 1 >= COMMIT_MAX_OPS => due
  /\ fails => due /\ events < MaxEvents
  /\ writeGen' = writeGen
  /\ window' = IF due THEN 0 ELSE window + 1
  /\ engine' = e
  /\ committed' = IF due /\ ~fails THEN e ELSE committed
  /\ batching' = ~due
  /\ staged' = IF due /\ ~fails THEN 0 ELSE staged + 1

\* Mutant of note_write: the window is compared before it is counted.
note_write_late(e, due, fails) ==
  /\ window >= COMMIT_MAX_OPS => due
  /\ fails => due /\ events < MaxEvents
  /\ writeGen' = writeGen + 1
  /\ window' = IF due THEN 0 ELSE window + 1
  /\ engine' = e
  /\ committed' = IF due /\ ~fails THEN e ELSE committed
  /\ batching' = ~due
  /\ staged' = IF due /\ ~fails THEN 0 ELSE staged + 1

\* FsAdapter::note_write after a batch was opened: the window is counted, and
\* the batch is committed when it is full or, at any time, when it is old.
note_write(e, due, fails) ==
  /\ window + 1 >= COMMIT_MAX_OPS => due
  /\ fails => due /\ events < MaxEvents
  /\ writeGen' = writeGen + 1
  /\ window' = IF due THEN 0 ELSE window + 1
  /\ engine' = e
  /\ committed' = IF due /\ ~fails THEN e ELSE committed
  /\ batching' = ~due
  /\ staged' = IF due /\ ~fails THEN 0 ELSE staged + 1

-----------------------------------------------------------------------------
(* WbCache.                                                                 *)

\* What a reader of cell c sees: the dirty range, else the base.
Overlay(wb, c, base) == IF wb.ranges[c] # 0 THEN wb.ranges[c] ELSE base

WbWrite(wb, c, id) ==
  [state |-> wb.state, len |-> Max({wb.len, c}), ranges |-> [wb.ranges EXCEPT ![c] = id], dirty |-> TRUE]

\* Mutant of WbTruncate: the dirty ranges past the new end stay.
WbTruncateLen(wb, n) == [state |-> wb.state, len |-> n, ranges |-> wb.ranges, dirty |-> TRUE]

WbTruncate(wb, n) ==
  [state |-> wb.state, len |-> n, ranges |-> [c \in Cells |-> IF c > n THEN 0 ELSE wb.ranges[c]],
   dirty |-> TRUE]

WbTake(wb) == [state |-> wb.state, len |-> wb.len, ranges |-> Nothing, dirty |-> FALSE]

-----------------------------------------------------------------------------
(* open_fh: the size is read under the engine lock, the handle is inserted  *)
(* under the table lock.                                                    *)

OpenStart(t, h) ==
  /\ Accept(t) /\ cache[h].state = "closed"
  /\ Serving(h, {"insert"}) = {}
  /\ Goto(t, [pc |-> "insert", h |-> h, len |-> engine.len])
  /\ UNCHANGED <<handles, store, history, nextId, events>>

OpenInsert(t) ==
  /\ At(t, "insert")
  /\ LET h == thread[t].h IN
     /\ cache' = [cache EXCEPT ![h] = Opened(thread[t].len)]
     /\ readahead' = [readahead EXCEPT ![h] = NoAhead]
     /\ seqNext' = [seqNext EXCEPT ![h] = 1]
     /\ latest' = [latest EXCEPT ![h] = engine.cells]
     /\ mine' = [mine EXCEPT ![h] = {}]
  /\ Goto(t, Idle)
  /\ UNCHANGED <<store, dropped, promised, limit, staged, misread, seen, budgets>>

\* write: into the cache only, under the handle lock.
Write(h, c) ==
  /\ Live(h) /\ ~InodeLocked
  /\ nextId <= MaxWrites
  /\ cache' = [cache EXCEPT ![h] = WbWrite(@, c, nextId)]
  /\ nextId' = nextId + 1
  /\ latest' = [latest EXCEPT ![h][c] = nextId]
  /\ thread' = Told(thread, latest')
  /\ mine' = [mine EXCEPT ![h] = @ \cup {nextId}]
  /\ dropped' = dropped \cup ({cache[h].ranges[c]} \ {0})
  /\ limit' = Max({limit, c})
  /\ UNCHANGED <<readahead, seqNext, store, promised, staged, misread, seen,
                 requests, events>>

-----------------------------------------------------------------------------
(* read_through: write_gen is loaded first; the cache, the read-ahead       *)
(* buffer and the engine are then read under the handle and engine locks.   *)

ReadStart(t, h, c) ==
  /\ Accept(t) /\ Live(h)
  /\ Goto(t, [pc |-> "read", h |-> h, c |-> c, gen |-> writeGen,
              may |-> {latest[h][c]}, own |-> Serving(h, {"stage"}) = {}])
  /\ UNCHANGED <<handles, store, history, nextId, events>>

\* The buffer serves a cell it covers while no mutation was seen since.
AheadServes(ra, gen, c) == ra.start # 0 /\ ra.gen = gen /\ c \in ra.start..ra.end

\* What a miss leaves in the buffer: a window only on a sequential read.
Prefetch(h, gen, c) ==
  IF c = seqNext[h] /\ engine.len > c
  THEN [gen |-> gen, start |-> c, end |-> engine.len, data |-> engine.cells]
  ELSE NoAhead

ReadServe(t) ==
  /\ At(t, "read")
  /\ LET r    == thread[t]
         h    == r.h
         hit  == AheadServes(readahead[h], r.gen, r.c)
         base == IF hit THEN readahead[h].data[r.c] ELSE engine.cells[r.c]
         eof  == r.c > cache[h].len
         miss == ~eof /\ cache[h].ranges[r.c] = 0 /\ ~hit
         got  == Overlay(cache[h], r.c, base)
         \* a size change in progress may already have emptied the cell
         may  == r.may \cup (IF \E u \in Sizing : r.c > thread[u].size
                             THEN {0} ELSE {})
     IN /\ readahead' = IF miss
                        THEN [readahead EXCEPT ![h] = Prefetch(h, r.gen, r.c)]
                        ELSE readahead
        /\ seqNext' = [seqNext EXCEPT ![h] = IF eof THEN r.c ELSE r.c + 1]
        /\ misread' = (misread \/ (~eof /\ r.own /\ got \notin may))
  /\ Goto(t, Idle)
  /\ UNCHANGED <<cache, store, latest, mine, dropped, promised, limit, staged,
                 seen, budgets>>

-----------------------------------------------------------------------------
(* flush, fsync and release: the dirty ranges are taken under the handle    *)
(* lock, staged under the engine lock; fsync then commits the batch and,    *)
(* after releasing the engine, resets the window.                           *)

Overlapping(h) ==
  (IF Serving(h, {"stage"}) # {} THEN {"two flushes"} ELSE {})
    \cup (IF \E t \in Sizing : ~At(t, "meta") THEN {"truncate"} ELSE {})

FlushTake(t, h, op) ==
  /\ Accept(t) /\ Live(h)
  /\ op = "fsync" => ~InodeLocked
  /\ op = "release" => {u \in Threads : ~At(u, "idle") /\ thread[u].h = h} = {}
  /\ cache' = [cache EXCEPT ![h] = WbTake(@)]
  /\ thread' = [u \in Threads |->
       IF u = t
       THEN [pc |-> IF cache[h].dirty THEN "stage"
                    ELSE IF op = "fsync" THEN "commit" ELSE op,
             op |-> op, h |-> h, ext |-> cache[h].ranges, want |-> mine[h]]
       ELSE IF u \in Serving(h, {"read"}) THEN Reading(thread[u], thread[u].may, FALSE)
       ELSE thread[u]]
  /\ seen' = seen \cup Overlapping(h)
  /\ UNCHANGED <<readahead, seqNext, store, latest, mine, dropped, promised,
                 limit, staged, misread, nextId, events>>

\* The engine after the first extents up to cell n were written: it is
\* extended to the last extent before the first is written.
Staged(ext, n) ==
  LET dirty == {c \in Cells : ext[c] # 0}
  IN [len |-> Max({engine.len} \cup dirty),
      cells |-> [c \in Cells |-> IF c \in dirty /\ c <= n THEN ext[c]
                                 ELSE engine.cells[c]],
      ids |-> engine.ids \cup {ext[c] : c \in {d \in dirty : d <= n}}]

\* Every handle without a newer dirty range at c now has the staged id there.
Visible(ext, n) ==
  [g \in Handles |-> [c \in Cells |->
     IF ext[c] # 0 /\ c <= n /\ cache[g].ranges[c] = 0 THEN ext[c] ELSE latest[g][c]]]

\* Where a request goes once its data is staged.
AfterStage(r) ==
  CASE r.op = "fsync"   -> Flushing("commit", r)
    [] r.op = "release" -> Flushing("release", r)
    [] OTHER            -> Idle

\* The handle's owner learns of an error; release leaves the handle behind.
Failed(r) ==
  /\ mine' = [mine EXCEPT ![r.h] = {}]
  /\ cache' = IF r.op = "release" THEN [cache EXCEPT ![r.h] = Leaked(@)] ELSE cache

FlushStage(t, due, fails) ==
  /\ At(t, "stage")
  /\ LET r == thread[t] IN
     /\ note_write(Staged(r.ext, NumCells), due, fails)
     /\ latest' = Visible(r.ext, NumCells)
     /\ thread' = Told([thread EXCEPT ![t] = IF fails THEN Idle ELSE AfterStage(r)], latest')
     /\ \/ fails /\ Failed(r)
        \/ ~fails /\ UNCHANGED <<mine, cache>>
     /\ events' = events + (IF fails THEN 1 ELSE 0)
     /\ seen' = seen \cup (IF fails THEN {"commit"} ELSE {})
                     \cup (IF \E u \in Threads : At(u, "reset") THEN {"late reset"} ELSE {})
  /\ UNCHANGED <<readahead, seqNext, dropped, promised, limit, misread, nextId, requests>>

\* engine.write fails at an extent: those before it are staged, the rest is
\* lost with the taken ranges, and note_write is never reached.
FlushFails(t, n) ==
  /\ At(t, "stage") /\ events < MaxEvents
  /\ \E c \in Cells : c > n /\ thread[t].ext[c] # 0
  /\ LET r == thread[t] IN
     /\ engine' = Staged(r.ext, n)
     /\ latest' = [g \in Handles |-> [c \in Cells |->
                     IF cache[g].ranges[c] = 0 THEN engine'.cells[c] ELSE latest[g][c]]]
     /\ thread' = Told([thread EXCEPT ![t] = Idle], latest')
     /\ Failed(r)
     /\ limit' = Max({limit, engine'.len})
  /\ batching' = TRUE
  /\ seen' = seen \cup {"write"}
  /\ events' = events + 1
  /\ UNCHANGED <<readahead, seqNext, committed, window, writeGen, dropped, promised,
                 staged, misread, nextId, requests>>

\* Mutant of CommitBatch: the batch is closed, nothing is published.
CommitBatchCloses(fails) ==
  /\ fails => batching /\ events < MaxEvents
  /\ batching' = FALSE
  /\ committed' = committed
  /\ staged' = IF batching /\ ~fails THEN 0 ELSE staged
  /\ events' = events + (IF fails THEN 1 ELSE 0)

\* commit_batch: a no-op unless a batch is open.
CommitBatch(fails) ==
  /\ fails => batching /\ events < MaxEvents
  /\ batching' = FALSE
  /\ committed' = IF batching /\ ~fails THEN engine ELSE committed
  /\ staged' = IF batching /\ ~fails THEN 0 ELSE staged
  /\ events' = events + (IF fails THEN 1 ELSE 0)

\* commit_now, first half: under the engine lock.
FsyncCommit(t, fails) ==
  /\ At(t, "commit")
  /\ CommitBatch(fails)
  /\ mine' = IF fails THEN [mine EXCEPT ![thread[t].h] = {}] ELSE mine
  /\ seen' = IF fails THEN seen \cup {"commit"} ELSE seen
  /\ Goto(t, IF fails THEN Idle ELSE Flushing("reset", thread[t]))
  /\ UNCHANGED <<handles, engine, window, writeGen, latest, dropped, promised,
                 limit, misread, nextId, requests>>

\* commit_now, second half: the window is reset after the engine is released.
FsyncReset(t) ==
  /\ At(t, "reset")
  /\ window' = 0
  /\ promised' = promised \cup thread[t].want
  /\ Goto(t, Idle)
  /\ UNCHANGED <<handles, engine, committed, batching, writeGen, latest, mine,
                 dropped, limit, staged, misread, seen, budgets>>

\* flush returns; release removes the handle from the table.
FlushReturn(t) ==
  /\ At(t, "flush")
  /\ Goto(t, Idle)
  /\ UNCHANGED <<handles, store, history, budgets>>

Release(t) ==
  /\ At(t, "release")
  /\ cache' = [cache EXCEPT ![thread[t].h] = Closed]
  /\ mine' = [mine EXCEPT ![thread[t].h] = {}]
  /\ latest' = [latest EXCEPT ![thread[t].h] = Nothing]
  /\ Goto(t, Idle)
  /\ UNCHANGED <<readahead, seqNext, store, dropped, promised, limit, staged,
                 misread, seen, budgets>>

-----------------------------------------------------------------------------
(* setattr with a size: the current size is read, the engine is resized     *)
(* against it, write_gen is bumped, every open handle's cache is trimmed    *)
(* and the metadata written, each under its own lock.                       *)

SetattrStart(t, n) ==
  /\ Accept(t) /\ ~InodeLocked /\ events < MaxEvents
  /\ events' = events + 1
  /\ seen' = seen \cup (IF \E u \in Threads : At(u, "stage") THEN {"truncate"} ELSE {})
  /\ Goto(t, [pc |-> "size", h |-> 0, size |-> n, current |-> engine.len])
  /\ UNCHANGED <<handles, store, latest, mine, dropped, promised, limit, staged,
                 misread, nextId>>

\* Engine::truncate and extend do nothing when the size already fits.
Resize(n, current) ==
  [len |-> IF n < current THEN Min({engine.len, n})
           ELSE IF n > current THEN Max({engine.len, n}) ELSE engine.len,
   cells |-> [c \in Cells |-> IF n < current /\ c > n THEN 0 ELSE engine.cells[c]],
   ids |-> engine.ids]

SetattrSize(t) ==
  /\ At(t, "size")
  /\ Mutate(Resize(thread[t].size, thread[t].current))
  /\ Goto(t, Resizing("bump", thread[t]))
  /\ UNCHANGED <<handles, batching, window, writeGen, history, budgets>>

SetattrBump(t) ==
  /\ At(t, "bump")
  /\ writeGen' = IF thread[t].size # thread[t].current THEN writeGen + 1 ELSE writeGen
  /\ Goto(t, Resizing("trim", thread[t]))
  /\ UNCHANGED <<handles, engine, committed, batching, window, history, budgets>>

SetattrTrim(t) ==
  /\ At(t, "trim")
  /\ LET n == thread[t].size IN
     /\ cache' = [h \in Handles |-> IF cache[h].state = "closed" THEN cache[h]
                                    ELSE WbTruncate(cache[h], n)]
     /\ dropped' = dropped \cup {id \in Ids : \E h \in Handles, c \in Cells :
                                    c > n /\ cache[h].ranges[c] = id}
     /\ latest' = [h \in Handles |-> [c \in Cells |-> IF c > n THEN 0 ELSE latest[h][c]]]
     /\ thread' = Told([u \in Threads |->
                         IF u = t THEN Resizing("meta", thread[t])
                         ELSE IF At(u, "read") /\ thread[u].c > n
                         THEN Reading(thread[u], thread[u].may, FALSE)
                         ELSE thread[u]], latest')
     /\ limit' = n
  /\ UNCHANGED <<readahead, seqNext, store, mine, promised, staged, misread, seen, budgets>>

SetattrMeta(t) ==
  /\ At(t, "meta")
  /\ Mutate(engine)
  /\ Goto(t, Idle)
  /\ UNCHANGED <<handles, batching, window, writeGen, history, budgets>>

-----------------------------------------------------------------------------
(* The other files of the mount share the batch and the window: create,     *)
(* mkdir, symlink and setxattr stage and count an operation, link, unlink   *)
(* and rename neither open a batch nor count.                               *)

OtherStage(due) ==
  /\ events < MaxEvents
  /\ events' = events + 1
  /\ note_write(engine, due, FALSE)
  /\ seen' = seen \cup (IF \E u \in Threads : At(u, "reset") THEN {"late reset"} ELSE {})
  /\ UNCHANGED <<handles, thread, latest, mine, dropped, promised, limit, misread,
                 nextId, requests>>

OtherPublish ==
  /\ events < MaxEvents
  /\ events' = events + 1
  /\ Mutate(engine)
  /\ staged' = IF batching THEN staged ELSE 0
  /\ UNCHANGED <<handles, batching, window, writeGen, thread, latest, mine, dropped,
                 promised, limit, misread, seen, nextId, requests>>

-----------------------------------------------------------------------------
\* A new process opens the container on the content c.
Remount(c) ==
  /\ engine' = c /\ committed' = c
  /\ batching' = FALSE /\ window' = 0 /\ writeGen' = 0 /\ staged' = 0
  /\ cache' = [h \in Handles |-> Closed]
  /\ readahead' = [h \in Handles |-> NoAhead]
  /\ seqNext' = [h \in Handles |-> 1]
  /\ thread' = [t \in Threads |-> Idle]
  /\ latest' = [h \in Handles |-> Nothing]
  /\ mine' = [h \in Handles |-> {}]
  /\ limit' = c.len
  /\ events' = events + 1

Crash ==
  /\ events < MaxEvents
  /\ Remount(committed)
  /\ UNCHANGED <<dropped, promised, misread, seen, nextId, requests>>

\* Drop: a clean unmount has no open handle left and commits the batch; an
\* error is only printed.
Unmount(fails) ==
  /\ events < MaxEvents
  /\ \A t \in Threads : At(t, "idle")
  /\ \A h \in Handles : cache[h].state # "open"
  /\ fails => batching /\ events < MaxEvents
  /\ Remount(IF batching /\ ~fails THEN engine ELSE committed)
  /\ promised' = IF fails THEN promised ELSE promised \cup engine.ids
  /\ UNCHANGED <<dropped, misread, seen, nextId, requests>>

Next ==
  \/ \E t \in Threads, h \in Handles : OpenStart(t, h)
  \/ \E t \in Threads : OpenInsert(t)
  \/ \E h \in Handles, c \in Cells : Write(h, c)
  \/ \E t \in Threads, h \in Handles, c \in Cells : ReadStart(t, h, c)
  \/ \E t \in Threads : ReadServe(t)
  \/ \E t \in Threads, h \in Handles, op \in {"flush", "fsync", "release"} : FlushTake(t, h, op)
  \/ \E t \in Threads, due, fails \in BOOLEAN : FlushStage(t, due, fails)
  \/ \E t \in Threads, n \in 0..NumCells : FlushFails(t, n)
  \/ \E t \in Threads, fails \in BOOLEAN : FsyncCommit(t, fails)
  \/ \E t \in Threads : FsyncReset(t)
  \/ \E t \in Threads : FlushReturn(t)
  \/ \E t \in Threads : Release(t)
  \/ \E t \in Threads, n \in 0..NumCells : SetattrStart(t, n)
  \/ \E t \in Threads : SetattrSize(t)
  \/ \E t \in Threads : SetattrBump(t)
  \/ \E t \in Threads : SetattrTrim(t)
  \/ \E t \in Threads : SetattrMeta(t)
  \/ \E due \in BOOLEAN : OtherStage(due)
  \/ OtherPublish
  \/ Crash
  \/ \E fails \in BOOLEAN : Unmount(fails)

Spec == Init /\ [][Next]_vars

-----------------------------------------------------------------------------
(* A read through an open handle returns, for a cell inside the handle's    *)
(* length, a value the cell had through that handle at some moment of the   *)
(* read: its own unflushed write, else what was last staged by any handle.  *)
(* The read-ahead buffer never answers for an older generation (read_through *)
(* and note_write).  Left out: a read that overlaps a flush of its own      *)
(* handle or a size change that cuts its cell off, a flush in flight during *)
(* a size change, and an engine error in the middle of a flush.             *)
ReadsLatest == seen \cap {"truncate", "write"} = {} => ~misread

(* After fsync returns, the data written through the handle survives a      *)
(* crash, and a clean unmount keeps everything that was staged (fsync and   *)
(* Drop of FsAdapter), unless it was overwritten or cut off.  Left out: two *)
(* flushes of one handle, and a failed commit.                              *)
FsyncDurable ==
  seen \cap {"two flushes", "commit", "write"} = {}
    => promised \subseteq committed.ids \cup dropped

(* A size change never leaves, and no later flush brings back, content past *)
(* the end the application knows (WbCache's C1 guarantee and setattr's      *)
(* "resurrect the dropped tail").  Left out: a flush in flight during the   *)
(* size change.                                                             *)
NoResurrection ==
  "truncate" \notin seen /\ Sizing = {} => engine.len <= limit

(* At most COMMIT_MAX_OPS - 1 counted operations are staged and not         *)
(* committed (the crash-loss window of note_write).  Left out: operations   *)
(* counted before fsync resets the window, and failed commits.              *)
LossWindow ==
  seen \cap {"late reset", "commit", "write"} = {} => staged < COMMIT_MAX_OPS

(* What the code does not guarantee (README, Divergences).                  *)

(* After fsync returns, the data survives a crash, whatever failed before   *)
(* for another handle (the comment on fsync).                               *)
FsyncAlwaysDurable == promised \subseteq committed.ids \cup dropped
=============================================================================
