----------------------------- MODULE TailGrowth -----------------------------
(***************************************************************************)
(* What happens to the eviction tail and the WAL region when the container *)
(* must grow (container/alloc.rs, grow_for).  Both lie at the end of the   *)
(* file and are copied upwards to make room for forward blocks; the header *)
(* learns their new place only with the next publish.  Undo images made    *)
(* durable by stage_write's barrier, and records write_async has fsynced,  *)
(* must be found again by rebuild_allocator's scan and by replay_wal.      *)
(*                                                                         *)
(* A forward block, an image and a WAL record fill one block each; no      *)
(* block is freed (Allocator has the freelists) and the WAL is not         *)
(* checkpointed (AsyncLog).  As in InPlaceWrite a power failure keeps or   *)
(* loses each dirty block on its own and the header commit is atomic.  A   *)
(* power failure between a growth and the next publish is recorded (torn): *)
(* it can lose what the growth was moving, so the properties stop there.   *)
(***************************************************************************)
EXTENDS Integers, FiniteSets, FiniteSetsExt

CONSTANTS
  GrowChunk,   \* GROW_CHUNK
  WalSize,     \* WAL_REGION_SIZE
  MaxLen,      \* bound: length of the file, or the size of a fixed device
  MaxWrites,   \* bound: blocks written
  MaxCrash     \* bound: power failures

VARIABLES
  cache,     \* blocks as read_at sees them
  disk,      \* blocks on stable storage
  len,       \* Backend.len
  hdr,       \* the committed header: frontier, tail_low, wal_region_offset (0: none)
  hwm,       \* Allocator.live_hwm
  low,       \* Allocator.tail_low
  wal,       \* Allocator.wal_reservation_start, 0 when None
  cursor,    \* WalState.write_cursor
  grown,     \* whether the file grew since the last publish
  pc,        \* "open" or "closed"
  writes,    \* blocks written so far
  crashes,   \* power failures so far
  placed,    \* history variable: images this session holds or must recover
  torn,      \* history variable: power failed between a growth and a publish
  durable,   \* history variable: images a barrier has made durable
  accepted   \* history variable: WAL records fsynced

vars == <<cache, disk, len, hdr, hwm, low, wal, cursor, grown, pc, writes, crashes,
          placed, torn, durable, accepted>>

Addr == 0 .. MaxLen - 1
Zero == [kind |-> "zero", id |-> 0]
Block(k, i) == [kind |-> k, id |-> i]
Top == IF wal = 0 THEN len ELSE wal

\* Ids of the images in blocks lo .. hi - 1 of b.
Images(b, lo, hi) == {b[a].id : a \in {x \in lo .. hi - 1 : b[x].kind = "image"}}

\* scan_wal_region: the records from the start of the region to the first gap.
Records(b, start) ==
  IF start = 0 THEN {} ELSE
  {b[a].id : a \in {x \in start .. start + WalSize - 1 :
                      \A y \in start .. x : b[y].kind = "record"}}

-----------------------------------------------------------------------------
Init ==
  /\ len = GrowChunk
  /\ cache = [a \in Addr |-> Zero]
  /\ disk = cache
  /\ hwm = 0 /\ low = GrowChunk /\ wal = 0
  /\ hdr = [front |-> 0, low |-> GrowChunk, wal |-> 0]
  /\ cursor = 0 /\ grown = FALSE
  /\ pc = "open"
  /\ writes = 0 /\ crashes = 0
  /\ torn = FALSE
  /\ placed = {} /\ durable = {} /\ accepted = {}

\* grow_for: [tail_low, old_len) is copied up; without WAL the vacated bytes are
\* then zeroed, with WAL they are left as they are.
Moved(by) ==
  [a \in Addr |-> IF a \in low + by .. len - 1 + by THEN cache[a - by]
                  ELSE IF wal = 0 /\ a \in low .. len - 1 THEN Zero
                  ELSE cache[a]]

\* alloc_aligned: grow when one more block would make the watermarks cross.
By == IF hwm + 1 > low THEN Max({GrowChunk, len - low}) ELSE 0

\* grow_for; a device that cannot grow refuses (StorageFull).
Grow ==
  /\ len + By <= MaxLen
  /\ len' = len + By
  /\ grown' = (grown \/ By > 0)
  /\ wal' = IF wal = 0 THEN 0 ELSE wal + By

\* A forward block is staged: node, record or fragment.
PlaceForward ==
  /\ pc = "open"
  /\ writes < MaxWrites /\ writes' = writes + 1
  /\ Grow
  /\ low' = low + By
  /\ hwm' = hwm + 1
  /\ cache' = [Moved(By) EXCEPT ![hwm] = Block("forward", writes')]
  /\ UNCHANGED <<disk, hdr, cursor, pc, crashes, torn, placed, durable, accepted>>

\* evict_block: an image goes to the tail.
PlaceImage ==
  /\ pc = "open"
  /\ writes < MaxWrites /\ writes' = writes + 1
  /\ Grow
  /\ low' = low + By - 1
  /\ cache' = [Moved(By) EXCEPT ![low'] = Block("image", writes')]
  /\ placed' = placed \cup {writes'}
  /\ UNCHANGED <<disk, hdr, hwm, cursor, pc, crashes, torn, durable, accepted>>

\* stage_write's barrier.
Barrier ==
  /\ pc = "open"
  /\ disk' = cache
  /\ durable' = placed
  /\ UNCHANGED <<cache, len, hdr, hwm, low, wal, cursor, pc, writes, crashes, grown, torn, placed, accepted>>

\* write_async: the record is written at the allocator's region and fsynced.
AppendRecord ==
  /\ pc = "open"
  /\ wal # 0 /\ cursor < WalSize
  /\ writes < MaxWrites /\ writes' = writes + 1
  /\ cache' = [cache EXCEPT ![wal + cursor] = Block("record", writes')]
  /\ disk' = cache'
  /\ cursor' = cursor + 1
  /\ durable' = placed
  /\ accepted' = accepted \cup {writes'}
  /\ UNCHANGED <<len, hdr, hwm, low, wal, pc, crashes, grown, torn, placed>>

\* publish: barrier, then the header with the current places.
Publish ==
  /\ pc = "open"
  /\ disk' = cache
  /\ durable' = placed
  /\ hdr' = [front |-> hwm, low |-> low, wal |-> wal]
  /\ grown' = FALSE
  /\ UNCHANGED <<cache, len, hwm, low, wal, cursor, pc, writes, crashes, torn, placed, accepted>>

\* enable_wal: the file grows by the region, which caps the tail; published.
EnableWal ==
  /\ pc = "open" /\ wal = 0
  /\ len + WalSize <= MaxLen
  /\ len' = len + WalSize
  /\ wal' = len
  /\ disk' = cache
  /\ durable' = placed
  /\ hdr' = [front |-> hwm, low |-> low, wal |-> wal']
  /\ grown' = FALSE
  /\ UNCHANGED <<cache, hwm, low, cursor, pc, writes, crashes, placed, torn, accepted>>

Crash ==
  /\ pc = "open"
  /\ crashes < MaxCrash /\ crashes' = crashes + 1
  /\ \E lost \in SUBSET {a \in Addr : cache[a] # disk[a]} :
       disk' = [a \in Addr |-> IF a \in lost THEN disk[a] ELSE cache[a]]
  /\ cache' = disk'
  /\ pc' = "closed"
  /\ placed' = durable
  /\ torn' = (torn \/ grown)
  /\ grown' = FALSE
  /\ UNCHANGED <<len, hdr, hwm, low, wal, cursor, writes, durable, accepted>>

\* rebuild_allocator: where the tail ends and its scan starts, given the header.
HdrTop == IF hdr.wal = 0 THEN len ELSE hdr.wal

\* Mutant of ScanFrom: the header's watermark is trusted.
ScanFromHint ==
  IF hdr.low < hdr.front \/ hdr.low > HdrTop THEN hdr.front ELSE hdr.low

\* A watermark that makes no sense, or one with a non-zero block right below it,
\* means a scan from the forward frontier.
ScanFrom ==
  IF hdr.low < hdr.front \/ hdr.low > HdrTop THEN hdr.front
  ELSE IF hdr.low > hdr.front /\ disk[hdr.low - 1] # Zero THEN hdr.front
  ELSE hdr.low

\* finish_open: rebuild_allocator and replay_wal.
Reopen ==
  /\ pc = "closed"
  /\ hwm' = hdr.front
  /\ low' = Min({HdrTop} \cup {a \in ScanFrom .. HdrTop - 1 : disk[a].kind = "image"})
  /\ wal' = hdr.wal
  /\ cursor' = Cardinality(Records(disk, hdr.wal))
  /\ pc' = "open"
  /\ UNCHANGED <<cache, disk, len, hdr, writes, crashes, grown, torn, placed, durable, accepted>>

Next ==
  \/ PlaceForward \/ PlaceImage \/ Barrier \/ AppendRecord \/ Publish
  \/ EnableWal \/ Crash \/ Reopen

Spec == Init /\ [][Next]_vars

-----------------------------------------------------------------------------
\* The shape of the state.
TypeOK ==
  /\ len \in 0 .. MaxLen /\ hwm \in 0 .. MaxLen /\ low \in 0 .. MaxLen
  /\ wal = 0 \/ wal + WalSize <= len
  /\ hwm <= low /\ low <= Top
  /\ cursor \in 0 .. WalSize

\* Every image the session placed, or found durable when it opened, lies in the
\* region evict and checkout scan, wherever growing the file has moved it.
ImagesFound == pc = "open" /\ ~torn => placed \subseteq Images(cache, low, Top)

\* Every record write_async acknowledged is in the WAL region.
RecordsFound == pc = "open" /\ ~torn => accepted \subseteq Records(cache, wal)
=============================================================================
