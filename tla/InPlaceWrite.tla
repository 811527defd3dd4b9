--------------------------- MODULE InPlaceWrite ---------------------------
(***************************************************************************)
(* The write path of the engine (version/store.rs): fragments overwritten  *)
(* in place behind an undo image in the eviction tail (D-17), relocation,  *)
(* re-chunking with publish-gated frees, write batches, publish, eviction, *)
(* and the recovery that rebuild_allocator runs on open.                   *)
(*                                                                         *)
(* Storage is a page cache over a disk: flush makes the two equal, a power *)
(* failure keeps, writes or tears each dirty block independently.  The     *)
(* header is the register AtomicHeader promises (HeaderCommit implements   *)
(* it): hdr is current, prop the proposed successor.  Records and catalog  *)
(* nodes are copy-on-write blocks that nothing overwrites, so a root is    *)
(* simply the map from fragments to their location and version.            *)
(*                                                                         *)
(* A block is known by the fragment and the write that sealed it, so       *)
(* reading back anything but the version a record names is visible.        *)
(* Data slots are numbered upwards, tail positions downwards from the end  *)
(* of the container: position p + 1 is the block just below position p.    *)
(***************************************************************************)
EXTENDS Integers, FiniteSets, FiniteSetsExt

CONSTANTS
  Frags,        \* fragment indices of the unit, a range 1 .. n
  BatchCap,     \* INPLACE_BATCH_BYTES in blocks: deferred overwrites per barrier
  MaxSlot,      \* bound: data slots
  MaxTail,      \* bound: tail positions
  MaxSeq,       \* bound: header commits
  MaxWrites,    \* bound: writes and re-chunks
  MaxCrash,     \* bound: power failures
  Faults,       \* errors the environment may cause, at most one per behaviour
  WriterSetIn   \* when the writer set may change: TRUE, with undo images of uncommitted
                \* writes in the tail; FALSE, without any

ASSUME ConstantsAssumption ==
  /\ Frags \subseteq Nat \ {0} /\ 1 \in Frags /\ \A f \in Frags : 1 .. f \subseteq Frags
  /\ BatchCap \in Nat \ {0}
  /\ MaxSlot \in Nat \ {0}
  /\ MaxTail \in Nat /\ MaxSeq \in Nat /\ MaxWrites \in Nat /\ MaxCrash \in Nat
  /\ Faults \subseteq {"transaction", "write", "publish", "header"}
  /\ WriterSetIn \subseteq BOOLEAN

VARIABLES
  cache,      \* [slot, tail]: blocks as read_at sees them
  disk,       \* [slot, tail]: blocks on stable storage
  hdr,        \* current header: [seq, root, tail]
  prop,       \* header written to the inactive slot and not yet flushed
  root,       \* in-memory catalogs: where each fragment is and which version
  seq,        \* Engine.header.commit_seq
  journaled,  \* Engine.inplace_undo_journaled
  batch,      \* Engine.suppress_commit
  op,         \* the write in progress: stage_write's locals
  alloc,      \* Allocator: frontier, freelists, deferred frees, tail_low
  pc,         \* where the engine is
  writes,     \* writes so far; each seals its blocks under a fresh dot
  crashes,    \* power failures so far
  fault,      \* the error that has happened, or "none"
  acked,      \* history variable: versions some caller was told are committed
  dropped,    \* history variable: versions evict or re-chunk may forget
  aborted     \* history variable: versions staged by a failed transaction

engine == <<root, seq, journaled, batch, op, alloc, pc>>
ghosts == <<acked, dropped, aborted>>
vars == <<cache, disk, hdr, prop, root, seq, journaled, batch, op, alloc, pc,
          writes, crashes, fault, acked, dropped, aborted>>

Slots == 1 .. MaxSlot
Positions == 1 .. MaxTail

Hole == [loc |-> 0, id |-> 0]
Loc == [loc : 0 .. MaxSlot, id : 0 .. MaxWrites]

\* A sealed content block; Blank is zeroed space, Torn a half-written block.
Block == [frag : Frags, id : 0 .. MaxWrites]
Blank == [frag |-> 0, id |-> 0]
Torn == [frag |-> 0, id |-> -1]

\* An EvictedBlock: the copied bytes, the version they are filed under, and
\* for an undo image the slot it restores and the commit that retires it.
Image == [frag : Frags, id : 0 .. MaxWrites, bytes : Block \cup {Blank, Torn},
          inplace : 0 .. MaxSlot, target : Nat]
IsImage(b) == b # Blank /\ b # Torn

None == [seq |-> -1, root |-> [f \in Frags |-> Hole], tail |-> 0]
NoOp == [kind |-> "none", todo |-> {}, rec |-> [f \in Frags |-> Hole], pending |-> {}]

Live(r) == {r[f].loc : f \in Frags} \ {0}
Versions(r) == {<<f, r[f].id>> : f \in {g \in Frags : r[g].loc # 0}}

-----------------------------------------------------------------------------
\* Allocator::new and set_forward_frontier: nothing free, the frontier above
\* the live set, the tail down to position low.
Emptied(low, r) ==
  [frontier |-> Max({1} \cup Live(r)) + 1, free |-> {}, deferred |-> {},
   low |-> low, freeTail |-> {}]

\* A committed container: fragment 1 has a whole-block slot, the others are
\* holes left by extend.
Init ==
  /\ cache = [slot |-> [s \in Slots |-> IF s = 1 THEN [frag |-> 1, id |-> 0] ELSE Blank],
              tail |-> [p \in Positions |-> Blank]]
  /\ disk = cache
  /\ root = [f \in Frags |-> IF f = 1 THEN [loc |-> 1, id |-> 0] ELSE Hole]
  /\ hdr = [seq |-> 0, root |-> root, tail |-> 0]
  /\ prop = None
  /\ seq = 0
  /\ journaled = {}
  /\ batch = FALSE
  /\ op = NoOp
  /\ alloc = Emptied(0, root)
  /\ pc = "idle"
  /\ writes = 0 /\ crashes = 0 /\ fault = "none"
  /\ acked = Versions(root) /\ dropped = {} /\ aborted = {}

\* Allocator::alloc_aligned for LiveMid: freelist first-fit, then the frontier.
FreshSlot == IF alloc.free # {} THEN Min(alloc.free) ELSE alloc.frontier
TakeSlot(a) == IF a.free # {} THEN [a EXCEPT !.free = @ \ {Min(a.free)}]
                              ELSE [a EXCEPT !.frontier = @ + 1]

\* Allocator::alloc_aligned for EvictionTail: first fit by address is the
\* lowest free block, that is the highest position; then one block further down.
FreshTail == IF alloc.freeTail # {} THEN Max(alloc.freeTail) ELSE alloc.low + 1
TakeTail(a) == IF a.freeTail # {} THEN [a EXCEPT !.freeTail = @ \ {Max(a.freeTail)}]
                                  ELSE [a EXCEPT !.low = @ + 1]

\* evict_block: copy the block at l to the tail.
Evicted(f, l, inplace, target) ==
  [frag |-> f, id |-> l.id, bytes |-> cache.slot[l.loc], inplace |-> inplace, target |-> target]

\* The environment makes an operation fail in the way k.
Fault(k) == k \in Faults /\ fault = "none" /\ fault' = k

\* begin_batch (and entering an outermost transaction).
BeginBatch ==
  /\ pc = "idle" /\ ~batch
  /\ batch' = TRUE
  /\ UNCHANGED <<cache, disk, hdr, prop, root, seq, journaled, op, alloc, pc,
                 writes, crashes, fault, acked, dropped, aborted>>

\* commit_batch (and leaving an outermost transaction with Ok).
CommitBatch ==
  /\ pc = "idle" /\ batch
  /\ seq < MaxSeq
  /\ batch' = FALSE
  /\ pc' = "publish"
  /\ UNCHANGED <<cache, disk, hdr, prop, root, seq, journaled, op, alloc,
                 writes, crashes, fault, acked, dropped, aborted>>

\* transaction: the closure returned Err.  Deferred frees are dropped and
\* suppress_commit is restored; the in-memory roots stay where they are.
AbortTransaction ==
  /\ pc = "idle" /\ batch
  /\ Fault("transaction")
  /\ batch' = FALSE
  /\ alloc' = [alloc EXCEPT !.deferred = {}]
  /\ aborted' = aborted \cup (Versions(root) \ Versions(hdr.root))
  /\ UNCHANGED <<cache, disk, hdr, prop, root, seq, journaled, op, pc,
                 writes, crashes, acked, dropped>>

\* write: fragments F are touched.  stage_rechunk replaces all of them.
BeginWrite(kind, F) ==
  /\ pc = "idle"
  /\ writes < MaxWrites /\ seq < MaxSeq
  /\ kind = "rechunk" => F = Frags
  /\ op' = [kind |-> kind, todo |-> F, rec |-> root, pending |-> {}]
  /\ writes' = writes + 1
  /\ pc' = "stage"
  /\ UNCHANGED <<cache, disk, hdr, prop, root, seq, journaled, batch, alloc,
                 crashes, fault, acked, dropped, aborted>>

Staging(kind, f) ==
  /\ pc = "stage"
  /\ op.kind = kind
  /\ Cardinality(op.pending) < BatchCap
  /\ op.todo # {} /\ f = Min(op.todo)

\* The write once fragment f is placed in slot s, with overwrites P put off.
Staged(f, s, P) ==
  [kind |-> op.kind, todo |-> op.todo \ {f},
   rec |-> [op.rec EXCEPT ![f] = [loc |-> s, id |-> writes]], pending |-> op.pending \cup P]

\* stage_write, whole-block overwrite with the same footprint: the old block is
\* copied to the tail and the overwrite of its slot is put off.
StageInPlace ==
  \E f \in Frags :
    LET l == root[f] IN
    /\ Staging("write", f)
    /\ l.loc # 0 /\ f \notin journaled
    /\ FreshTail \in Positions
    /\ cache' = [cache EXCEPT !.tail = [@ EXCEPT ![FreshTail] = Evicted(f, l, l.loc, seq + 1)]]
    /\ alloc' = TakeTail(alloc)
    /\ journaled' = journaled \cup {f}
    /\ op' = Staged(f, l.loc, {[slot |-> l.loc, frag |-> f]})
    /\ UNCHANGED <<disk, hdr, prop, root, seq, batch, pc, writes, crashes, fault>>
    /\ UNCHANGED ghosts

\* stage_write, everything else (hole, packed or resized fragment, repeat
\* overwrite in a batch): a committed block goes to the tail as history, once
\* per transaction, and the new one to a fresh slot.
StageRelocate ==
  \E f \in Frags :
    LET l == root[f]
        history == l.loc # 0 /\ f \notin journaled
        block == [frag |-> f, id |-> writes]
    IN /\ Staging("write", f)
       /\ FreshSlot \in Slots
       /\ IF history
          THEN /\ FreshTail \in Positions
               /\ cache' = [slot |-> [cache.slot EXCEPT ![FreshSlot] = block],
                            tail |-> [cache.tail EXCEPT ![FreshTail] = Evicted(f, l, 0, 0)]]
               /\ alloc' = TakeSlot(TakeTail(alloc))
               /\ journaled' = journaled \cup {f}
          ELSE /\ cache' = [cache EXCEPT !.slot = [@ EXCEPT ![FreshSlot] = block]]
               /\ alloc' = TakeSlot(alloc)
               /\ UNCHANGED journaled
       /\ op' = Staged(f, FreshSlot, {})
       /\ UNCHANGED <<disk, hdr, prop, root, seq, batch, pc, writes, crashes, fault>>
       /\ UNCHANGED ghosts

\* Mutant of StageRechunk: the old slot is freed before the header flip.
StageRechunkFreesEagerly ==
  \E f \in Frags, pinned \in BOOLEAN :
    LET l == root[f]
        block == [frag |-> f, id |-> writes]
        placed == [TakeSlot(alloc) EXCEPT !.free = IF l.loc # 0 /\ ~pinned THEN @ \cup {l.loc} ELSE @]
    IN /\ Staging("rechunk", f)
       /\ pinned => l.loc # 0
       /\ FreshSlot \in Slots
       /\ IF pinned
          THEN /\ FreshTail \in Positions
               /\ cache' = [slot |-> [cache.slot EXCEPT ![FreshSlot] = block],
                            tail |-> [cache.tail EXCEPT ![FreshTail] = Evicted(f, l, 0, 0)]]
               /\ alloc' = TakeTail(placed)
               /\ UNCHANGED dropped
          ELSE /\ cache' = [cache EXCEPT !.slot = [@ EXCEPT ![FreshSlot] = block]]
               /\ alloc' = placed
               /\ dropped' = IF l.loc # 0 THEN dropped \cup {<<f, l.id>>} ELSE dropped
       /\ op' = Staged(f, FreshSlot, {})
       /\ UNCHANGED <<disk, hdr, prop, root, seq, journaled, batch, pc,
                      writes, crashes, fault, acked, aborted>>

\* stage_rechunk, one old fragment: if a commit pins it its block goes to the
\* tail as history, else its slot is parked until the header flip; the new
\* geometry is placed fresh.
StageRechunk ==
  \E f \in Frags, pinned \in BOOLEAN :
    LET l == root[f]
        block == [frag |-> f, id |-> writes]
        placed == [TakeSlot(alloc) EXCEPT !.deferred = IF l.loc # 0 /\ ~pinned THEN @ \cup {l.loc} ELSE @]
    IN /\ Staging("rechunk", f)
       /\ pinned => l.loc # 0
       /\ FreshSlot \in Slots
       /\ IF pinned
          THEN /\ FreshTail \in Positions
               /\ cache' = [slot |-> [cache.slot EXCEPT ![FreshSlot] = block],
                            tail |-> [cache.tail EXCEPT ![FreshTail] = Evicted(f, l, 0, 0)]]
               /\ alloc' = TakeTail(placed)
               /\ UNCHANGED dropped
          ELSE /\ cache' = [cache EXCEPT !.slot = [@ EXCEPT ![FreshSlot] = block]]
               /\ alloc' = placed
               /\ dropped' = IF l.loc # 0 THEN dropped \cup {<<f, l.id>>} ELSE dropped
       /\ op' = Staged(f, FreshSlot, {})
       /\ UNCHANGED <<disk, hdr, prop, root, seq, journaled, batch, pc,
                      writes, crashes, fault, acked, aborted>>

\* Mutant of Drain: the slots are overwritten without the undo barrier.
DrainNoBarrier ==
  /\ pc = "stage"
  /\ op.pending # {}
  /\ op.todo = {} \/ Cardinality(op.pending) >= BatchCap
  /\ pc' = "apply"
  /\ UNCHANGED <<cache, disk, hdr, prop, root, seq, journaled, batch, op, alloc,
                 writes, crashes, fault, acked, dropped, aborted>>

\* stage_write: the coalesced barrier, at the end of the loop or when the
\* staging buffer is full, makes the undo images durable.
Drain ==
  /\ pc = "stage"
  /\ op.pending # {}
  /\ op.todo = {} \/ Cardinality(op.pending) >= BatchCap
  /\ disk' = cache
  /\ pc' = "apply"
  /\ UNCHANGED <<cache, hdr, prop, root, seq, journaled, batch, op, alloc,
                 writes, crashes, fault, acked, dropped, aborted>>

\* stage_write: only now are the live slots overwritten.
Apply ==
  /\ pc = "apply"
  /\ cache' = [cache EXCEPT !.slot = [s \in Slots |->
       IF \E w \in op.pending : w.slot = s
       THEN [frag |-> (CHOOSE w \in op.pending : w.slot = s).frag, id |-> writes]
       ELSE cache.slot[s]]]
  /\ op' = [op EXCEPT !.pending = {}]
  /\ pc' = "stage"
  /\ UNCHANGED <<disk, hdr, prop, root, seq, journaled, batch, alloc,
                 writes, crashes, fault, acked, dropped, aborted>>

\* stage_write: the barrier reports an error; nothing is overwritten.
DrainFails ==
  /\ pc = "stage"
  /\ op.pending # {}
  /\ op.todo = {} \/ Cardinality(op.pending) >= BatchCap
  /\ Fault("write")
  /\ op' = NoOp
  /\ pc' = "idle"
  /\ UNCHANGED <<cache, disk, hdr, prop, root, seq, journaled, batch, alloc,
                 writes, crashes, acked, dropped, aborted>>

\* write: the new record and the catalog puts make the write visible; outside
\* a batch it is published at once.
FinishWrite ==
  /\ pc = "stage"
  /\ op.todo = {} /\ op.pending = {}
  /\ root' = op.rec
  /\ op' = NoOp
  /\ pc' = IF batch THEN "idle" ELSE "publish"
  /\ UNCHANGED <<cache, disk, hdr, prop, seq, journaled, batch, alloc,
                 writes, crashes, fault, acked, dropped, aborted>>

\* write: no room for the record or a catalog node; the caller gets the error.
FinishFails ==
  /\ pc = "stage"
  /\ op.todo = {} /\ op.pending = {}
  /\ Fault("write")
  /\ op' = NoOp
  /\ pc' = "idle"
  /\ UNCHANGED <<cache, disk, hdr, prop, root, seq, journaled, batch, alloc,
                 writes, crashes, acked, dropped, aborted>>

\* evict_with_strategy outside a batch: blocks D of the tail are freed (which
\* ones is the strategy's choice), then the state is published.
Evict(D) ==
  /\ pc = "idle" /\ ~batch
  /\ seq < MaxSeq
  /\ D # {}
  /\ D \subseteq {p \in 1 .. alloc.low : IsImage(cache.tail[p])} \ alloc.freeTail
  /\ alloc' = [alloc EXCEPT !.freeTail = @ \cup D]
  /\ dropped' = dropped \cup {<<cache.tail[p].frag, cache.tail[p].id>> : p \in D}
  /\ pc' = "publish"
  /\ UNCHANGED <<cache, disk, hdr, prop, root, seq, journaled, batch, op,
                 writes, crashes, fault, acked, aborted>>

-----------------------------------------------------------------------------
\* Mutant of PublishFlush: the header may overtake the overwritten slots.
PublishNoBarrier ==
  /\ pc = "publish"
  /\ pc' = "commit"
  /\ UNCHANGED <<cache, disk, hdr, prop, root, seq, journaled, batch, op, alloc,
                 writes, crashes, fault, acked, dropped, aborted>>

\* publish: the barrier.
PublishFlush ==
  /\ pc = "publish"
  /\ disk' = cache
  /\ pc' = "commit"
  /\ UNCHANGED <<cache, hdr, prop, root, seq, journaled, batch, op, alloc,
                 writes, crashes, fault, acked, dropped, aborted>>

\* publish: the barrier reports an error; the parked blocks stay allocated.
PublishFlushFails ==
  /\ pc = "publish"
  /\ Fault("publish")
  /\ alloc' = [alloc EXCEPT !.deferred = {}]
  /\ pc' = "idle"
  /\ UNCHANGED <<cache, disk, hdr, prop, root, seq, journaled, batch, op,
                 writes, crashes, acked, dropped, aborted>>

\* publish: ContainerHeader::commit has written the inactive slot.
CommitHeader ==
  /\ pc = "commit"
  /\ prop = None /\ hdr.seq = seq
  /\ prop' = [seq |-> seq + 1, root |-> root, tail |-> alloc.low]
  /\ pc' = "written"
  /\ UNCHANGED <<cache, disk, hdr, root, seq, journaled, batch, op, alloc,
                 writes, crashes, fault, acked, dropped, aborted>>

\* publish: the slots are ahead of the engine's header, commit refuses.
CommitRefused ==
  /\ pc = "commit"
  /\ ~ (prop = None /\ hdr.seq = seq)
  /\ alloc' = [alloc EXCEPT !.deferred = {}]
  /\ pc' = "idle"
  /\ UNCHANGED <<cache, disk, hdr, prop, root, seq, journaled, batch, op,
                 writes, crashes, fault, acked, dropped, aborted>>

\* publish_deferred: the parked blocks are free.
Released ==
  [frontier |-> alloc.frontier, free |-> alloc.free \cup alloc.deferred, deferred |-> {},
   low |-> alloc.low, freeTail |-> alloc.freeTail]

\* Mutant of HeaderFlush: the undo journal survives the commit.
HeaderFlushKeepsJournal ==
  /\ pc = "written"
  /\ hdr' = prop
  /\ prop' = None
  /\ seq' = seq + 1
  /\ alloc' = Released
  /\ pc' = "idle"
  /\ acked' = acked \cup Versions(root)
  /\ UNCHANGED <<cache, disk, root, journaled, batch, op, writes, crashes, fault, dropped, aborted>>

\* publish: the header flip is durable; undo images become history and the
\* deferred blocks are released.
HeaderFlush ==
  /\ pc = "written"
  /\ hdr' = prop
  /\ prop' = None
  /\ seq' = seq + 1
  /\ journaled' = {}
  /\ alloc' = Released
  /\ pc' = "idle"
  /\ acked' = acked \cup Versions(root)
  /\ UNCHANGED <<cache, disk, root, batch, op, writes, crashes, fault, dropped, aborted>>

\* publish: the header flush reports an error.
HeaderFlushFails ==
  /\ pc = "written"
  /\ Fault("header")
  /\ alloc' = [alloc EXCEPT !.deferred = {}]
  /\ pc' = "idle"
  /\ UNCHANGED <<cache, disk, hdr, prop, root, seq, journaled, batch, op,
                 writes, crashes, acked, dropped, aborted>>

\* add_writer, remove_writer, adopt_writer_set: the blob is stored (in a slot of
\* its own, left out here) and flushed, then a header with the committed roots
\* is committed directly, not through publish.
ChangeWriterSet ==
  /\ pc = "idle"
  /\ (journaled # {}) \in WriterSetIn
  /\ seq < MaxSeq
  /\ prop = None /\ hdr.seq = seq
  /\ disk' = cache
  /\ prop' = [hdr EXCEPT !.seq = seq + 1]
  /\ pc' = "writerset"
  /\ UNCHANGED <<cache, hdr, root, seq, journaled, batch, op, alloc,
                 writes, crashes, fault, acked, dropped, aborted>>

WriterSetFlush ==
  /\ pc = "writerset"
  /\ hdr' = prop
  /\ prop' = None
  /\ seq' = seq + 1
  /\ pc' = "idle"
  /\ UNCHANGED <<cache, disk, root, journaled, batch, op, alloc,
                 writes, crashes, fault, acked, dropped, aborted>>

-----------------------------------------------------------------------------
\* What a power failure may leave of blocks b over their disk image d.
Outcomes(b, d) ==
  LET dirty == {i \in DOMAIN b : b[i] # d[i]}
  IN {[i \in DOMAIN b |-> IF i \notin dirty \/ c[i] = "old" THEN d[i]
                          ELSE IF c[i] = "new" THEN b[i] ELSE Torn]
        : c \in [dirty -> {"old", "new", "torn"}]}

Crash ==
  /\ pc # "closed"
  /\ crashes < MaxCrash
  /\ crashes' = crashes + 1
  /\ \E s \in Outcomes(cache.slot, disk.slot), t \in Outcomes(cache.tail, disk.tail) :
       disk' = [slot |-> s, tail |-> t]
  /\ cache' = disk'
  /\ hdr' \in {hdr} \cup ({prop} \ {None})
  /\ prop' = None
  /\ pc' = "closed"
  /\ root' = hdr'.root /\ seq' = hdr'.seq       \* memory is gone: as load finds it
  /\ journaled' = {} /\ batch' = FALSE /\ op' = NoOp /\ alloc' = Emptied(0, hdr'.root)
  /\ UNCHANGED <<writes, fault>>
  /\ UNCHANGED ghosts

\* rebuild_allocator: the tail scan stops at the header's watermark unless the
\* block just below it is not blank; then everything down to the frontier is
\* scanned.
ScanTo ==
  IF hdr.tail < MaxTail /\ cache.tail[hdr.tail + 1] # Blank THEN MaxTail ELSE hdr.tail
Scanned == {p \in 1 .. ScanTo : IsImage(cache.tail[p])}

\* rebuild_allocator: images of overwrites whose commit never landed; the scan
\* runs upwards, so of two images for one slot the topmost is written last.
Undo == {p \in Scanned : cache.tail[p].inplace # 0 /\ cache.tail[p].target > hdr.seq}
UndoFor(s) == {p \in Undo : cache.tail[p].inplace = s}

\* finish_open / rebuild_allocator: frontier from the live set, tail blocks
\* registered, uncommitted overwrites undone in the cache.
Reopen ==
  /\ pc = "closed"
  /\ alloc' = Emptied(Max({0} \cup Scanned), hdr.root)
  /\ cache' = [cache EXCEPT !.slot = [s \in Slots |->
       IF UndoFor(s) # {} THEN cache.tail[Min(UndoFor(s))].bytes ELSE cache.slot[s]]]
  /\ pc' = IF Undo = {} THEN "idle" ELSE "recover"
  /\ UNCHANGED <<disk, hdr, prop, root, seq, journaled, batch, op,
                 writes, crashes, fault, acked, dropped, aborted>>

\* rebuild_allocator: the closing flush of the undo pass.
RecoverFlush ==
  /\ pc = "recover"
  /\ disk' = cache
  /\ pc' = "idle"
  /\ UNCHANGED <<cache, hdr, prop, root, seq, journaled, batch, op, alloc,
                 writes, crashes, fault, acked, dropped, aborted>>

Next ==
  \/ BeginBatch \/ CommitBatch \/ AbortTransaction
  \/ \E kind \in {"write", "rechunk"}, i, j \in Frags : i <= j /\ BeginWrite(kind, i .. j)
  \/ StageInPlace \/ StageRelocate \/ StageRechunk
  \/ Drain \/ DrainFails \/ Apply \/ FinishWrite \/ FinishFails
  \/ \E D \in SUBSET Positions : Evict(D)
  \/ PublishFlush \/ PublishFlushFails \/ CommitHeader \/ CommitRefused
  \/ HeaderFlush \/ HeaderFlushFails
  \/ ChangeWriterSet \/ WriterSetFlush
  \/ Crash \/ Reopen \/ RecoverFlush

Spec == Init /\ [][Next]_vars

-----------------------------------------------------------------------------
TypeOK ==
  /\ \A b \in {cache, disk} :
       /\ b.slot \in [Slots -> Block \cup {Blank, Torn}]
       /\ \A p \in Positions : b.tail[p] \in Image \/ b.tail[p] \in {Blank, Torn}
  /\ root \in [Frags -> Loc]
  /\ hdr.root \in [Frags -> Loc] /\ hdr.seq \in Nat /\ hdr.tail \in 0 .. MaxTail
  /\ seq \in Nat
  /\ journaled \subseteq Frags /\ batch \in BOOLEAN
  /\ alloc.free \subseteq Slots /\ alloc.deferred \subseteq Slots
  /\ alloc.frontier \in 1 .. MaxSlot + 1 /\ alloc.low \in 0 .. MaxTail

\* What read() returns for fragment f of record r: the version found in the
\* slot, which opens only under its own fragment and version.
Content(r) ==
  [f \in Frags |-> IF r[f].loc = 0 THEN Blank ELSE cache.slot[r[f].loc]]
Named(r) ==
  [f \in Frags |-> IF r[f].loc = 0 THEN Blank ELSE [frag |-> f, id |-> r[f].id]]

\* No operation has returned an error, except a publish whose barrier failed.
\* (After the others the engine's memory is ahead of the container.)
Clean == fault \in {"none", "publish"}

\* Every read of an idle engine, in a batch, after a publish and after the
\* recovery of any power failure, returns exactly the version its record names
\* (stage_write's barriers, publish, rebuild_allocator's undo pass).
ReadsNameVersion == Clean /\ pc = "idle" => Content(root) = Named(root)

\* Until the next header is durable, every slot the committed header names
\* holds its committed version on disk, or a durable undo image the next open
\* finds restores it (the crash-safety argument in stage_write).
Restorable ==
  LET found == {p \in Positions : IsImage(disk.tail[p]) /\ disk.tail[p].target > hdr.seq}
  IN Clean /\ pc \notin {"closed", "recover"} /\ prop = None =>
       \A f \in Frags : LET l == hdr.root[f] IN
         l.loc # 0 /\ disk.slot[l.loc] # [frag |-> f, id |-> l.id] =>
           \E p \in found : disk.tail[p].inplace = l.loc
                            /\ disk.tail[p].bytes = [frag |-> f, id |-> l.id]

\* The engine is crash-safe: in memory it reads what its records name, and on disk
\* the committed version can be had back at every moment.
CrashSafe == TypeOK /\ ReadsNameVersion /\ Restorable

\* A slot on a freelist, or still parked by a re-chunk, is named neither by
\* the in-memory root nor (when free) by the committed header.
FreeIsUnreferenced ==
  fault # "write" /\ pc = "idle" =>
    /\ alloc.free \cap (Live(root) \cup Live(hdr.root) \cup alloc.deferred) = {}
    /\ alloc.deferred \cap Live(root) = {}
    /\ \A s \in Live(root) : s < alloc.frontier

\* A version some caller was told is committed is live or in the tail, under
\* the right name and intact, until evict or an unpinned re-chunk gives it up.
\* (After an operation that failed, a block still named may be freed and reused.)
HistoryKept ==
  Clean /\ pc = "idle" =>
    \A v \in acked \ dropped :
      \/ v \in Versions(root)
      \/ \E p \in (1 .. alloc.low) \ alloc.freeTail :
           LET b == cache.tail[p] IN
           IsImage(b) /\ <<b.frag, b.id>> = v /\ b.bytes = [frag |-> v[1], id |-> v[2]]

\* The engine as a transactional store: what a crash falls back to, and what
\* reads return.
Durable == Named(hdr.root)
View == IF pc \in {"closed", "recover"} THEN Durable
        ELSE IF pc = "idle" THEN Content(root) ELSE Named(root)

Store == INSTANCE TransactionalStore WITH
  Ids <- 1 .. MaxWrites, durable <- Durable, view <- View

\* Writes, batches, publishes, evictions, power failures and recoveries
\* together implement the transactional store, until an operation reports an
\* error other than a failed barrier of publish.
RefinesTransactionalStore ==
  /\ Store!Init
  /\ [][Clean' => Store!Next]_<<Durable, View>>

-----------------------------------------------------------------------------
(* What the code does not guarantee (README, Divergences). *)

\* transaction's promise: the versions a failed transaction staged never
\* become part of a committed header.
AbortedStaysInvisible == Versions(hdr.root) \cap aborted = {}

\* A block re-chunking gives up stays allocated as long as a committed header
\* names it, whatever fails in between (retire_block, publish_deferred).
FreeIsUncommitted == alloc.free \cap Live(hdr.root) = {}
=============================================================================
