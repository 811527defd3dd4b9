----------------------------- MODULE AsyncLog -----------------------------
(***************************************************************************)
(* The asynchronous write path (version/store.rs, wal.rs): write_async     *)
(* appends a record to the log region, fsyncs it and shadows the committed *)
(* content with an overlay; checkpoint applies the overlay in one header   *)
(* commit; replay_wal rebuilds the overlay from the region on open.        *)
(*                                                                         *)
(* One unit is modelled; its content is a sequence of cells, each holding  *)
(* the number of the write that put it there (0 before any).  A record     *)
(* occupies as many cells of the region as its payload is long, so records *)
(* of different sizes overlay each other after the cursor is reset.  A     *)
(* half-written record fails its CRC: it decodes only if all its cells     *)
(* are there.  Staging and committing content is atomic, which is what     *)
(* InPlaceWrite establishes; the region does not move (TailGrowth).        *)
(***************************************************************************)
EXTENDS Integers, Sequences, FiniteSets, FiniteSetsExt, SequencesExt

CONSTANTS
  AsyncShapes,  \* <<offset, length>> of the writes given to write_async
  SyncShapes,   \* <<offset, length>> of the writes given to write
  InitLen,      \* length of the unit at the start
  RegionSize,   \* WAL_REGION_SIZE in cells
  BatchedLog,   \* whether the log is also used while a batch is open
  Faults,       \* errors the environment may cause, at most one per behaviour
  MaxWrites,    \* bound: writes
  MaxCrash      \* bound: power failures

VARIABLES
  region,    \* log region as read_at sees it
  platter,   \* log region on stable storage
  hdr,       \* committed header: [head, applied, on]
  prop,      \* header being committed
  head,      \* in-memory content of the unit
  wal,       \* Engine.wal: [on, cursor, next]
  overlay,   \* Engine.wal_overlay: the pending writes, one per offset
  pending,   \* Engine.pending_wal_applied_seq, or -1
  batch,     \* Engine.suppress_commit
  op,        \* the call in progress
  pc,        \* where it is
  writes,    \* writes so far
  crashes,   \* power failures so far
  fault,     \* the error that has happened, or "none"
  log        \* history variable: the writes in call order and their fate:
             \* "kept" survives a power failure, "staged" is in memory only,
             \* "maybe" was reported as failed and may still come back

vars == <<region, platter, hdr, prop, head, wal, overlay, pending, batch, op,
          pc, writes, crashes, fault, log>>

Write(s, n) == [ofs |-> s[1], len |-> s[2], id |-> n]
NoOp == [kind |-> "none", w |-> [ofs |-> 0, len |-> 0, id |-> 0]]
NoHeader == [head |-> <<>>, applied |-> -1, on |-> FALSE]
NoWal == [on |-> FALSE, cursor |-> 0, next |-> 1]

Cells == 1 .. RegionSize
Empty == [seq |-> 0, part |-> 0, w |-> NoOp.w]
Blank == [i \in Cells |-> Empty]

-----------------------------------------------------------------------------
\* The content after w; apply_overlay_full fills a gap with zeros.
Splice(c, w) ==
  [i \in 1 .. Max({Len(c), w.ofs + w.len}) |->
     IF i \in w.ofs + 1 .. w.ofs + w.len THEN w.id
     ELSE IF i <= Len(c) THEN c[i] ELSE 0]

\* The overlay is a BTreeMap: its writes are visited in the order of offsets.
InOffsetOrder(o) == SetToSortSeq(o, LAMBDA a, b : a.ofs < b.ofs)

\* BTreeMap::insert: the entry at the same offset is replaced.
Insert(o, w) == {v \in o : v.ofs # w.ofs} \cup {w}

\* read: the in-memory content under the overlay.
View == FoldLeft(Splice, head, InOffsetOrder(overlay))

\* checkpoint_inner's loop: write rejects an offset past the end, and what was
\* applied before it stays applied.
Applied(c, o) ==
  FoldLeft(LAMBDA r, w : IF r.ok /\ w.ofs <= Len(r.content)
                         THEN [r EXCEPT !.content = Splice(@, w)]
                         ELSE [r EXCEPT !.ok = FALSE],
           [content |-> c, ok |-> TRUE], InOffsetOrder(o))

\* decode_wal_record at cell i: every cell of the record is intact.
Decodes(r, i) ==
  /\ i \in Cells
  /\ r[i].part = 1
  /\ i + r[i].w.len - 1 \in Cells
  /\ \A k \in 1 .. r[i].w.len : r[i + k - 1] = [r[i] EXCEPT !.part = k]

\* scan_wal_region: back to back from the start, up to the first cell where
\* nothing decodes; only records newer than min are kept.
ScanRegion(r, min) ==
  LET From[i \in 1 .. RegionSize + 1] ==
        IF Decodes(r, i)
        THEN (IF r[i].seq > min THEN <<r[i]>> ELSE <<>>) \o From[i + r[i].w.len]
        ELSE <<>>
  IN From[1]

Fault(k) == k \in Faults /\ fault = "none" /\ fault' = k

-----------------------------------------------------------------------------
Init ==
  /\ region = Blank /\ platter = Blank
  /\ head = [i \in 1 .. InitLen |-> 0]
  /\ hdr = [head |-> head, applied |-> 0, on |-> FALSE]
  /\ prop = NoHeader
  /\ wal = NoWal /\ overlay = {} /\ pending = -1
  /\ batch = FALSE /\ op = NoOp /\ pc = "idle"
  /\ writes = 0 /\ crashes = 0 /\ fault = "none"
  /\ log = <<>>

\* enable_wal: a zeroed region at the end of the file, published at once; a
\* call with the log already on does nothing.
EnableWal ==
  /\ pc = "idle" /\ ~wal.on
  /\ batch => BatchedLog
  /\ region' = Blank /\ platter' = Blank
  /\ wal' = [on |-> TRUE, cursor |-> 0, next |-> hdr.applied + 1]
  /\ IF batch THEN UNCHANGED <<op, pc>>
              ELSE op' = [NoOp EXCEPT !.kind = "enable"] /\ pc' = "publish"
  /\ UNCHANGED <<hdr, prop, head, overlay, pending, batch, writes, crashes, fault, log>>

BeginBatch ==
  /\ pc = "idle" /\ ~batch
  /\ batch' = TRUE
  /\ UNCHANGED <<region, platter, hdr, prop, head, wal, overlay, pending, op, pc,
                 writes, crashes, fault, log>>

CommitBatch ==
  /\ pc = "idle" /\ batch
  /\ batch' = FALSE
  /\ op' = [NoOp EXCEPT !.kind = "commit"] /\ pc' = "publish"
  /\ UNCHANGED <<region, platter, hdr, prop, head, wal, overlay, pending,
                 writes, crashes, fault, log>>

\* write: straight to the content, past the overlay.
SyncWrite(s) ==
  /\ pc = "idle" /\ writes < MaxWrites
  /\ s[1] <= Len(head)
  /\ writes' = writes + 1
  /\ head' = Splice(head, Write(s, writes'))
  /\ log' = Append(log, [w |-> Write(s, writes'), fate |-> "staged"])
  /\ IF batch THEN UNCHANGED <<op, pc>>
              ELSE op' = [NoOp EXCEPT !.kind = "write"] /\ pc' = "publish"
  /\ UNCHANGED <<region, platter, hdr, prop, wal, overlay, pending, batch, crashes, fault>>

\* write_async: the record is sealed; a full region is checkpointed first.
WriteAsync(s) ==
  /\ pc = "idle" /\ writes < MaxWrites
  /\ wal.on /\ s[2] <= RegionSize
  /\ batch => BatchedLog
  /\ writes' = writes + 1
  /\ op' = [kind |-> "async", w |-> Write(s, writes')]
  /\ pc' = IF wal.cursor + s[2] > RegionSize THEN "checkpoint" ELSE "append"
  /\ UNCHANGED <<region, platter, hdr, prop, head, wal, overlay, pending, batch,
                 crashes, fault, log>>

\* checkpoint called directly.
Checkpoint ==
  /\ pc = "idle" /\ wal.on
  /\ batch => BatchedLog
  /\ op' = [NoOp EXCEPT !.kind = "checkpoint"] /\ pc' = "checkpoint"
  /\ UNCHANGED <<region, platter, hdr, prop, head, wal, overlay, pending, batch,
                 writes, crashes, fault, log>>

\* What checkpoint_inner does once publish has returned.
Retired == overlay' = {} /\ wal' = [wal EXCEPT !.cursor = 0]
Resume == IF op.kind = "async" THEN UNCHANGED op /\ pc' = "append"
                               ELSE op' = NoOp /\ pc' = "idle"

\* checkpoint_inner: the pending writes are applied without committing; in a
\* batch publish returns at once.
CheckpointApply ==
  LET r == Applied(head, overlay) IN
  /\ pc = "checkpoint"
  /\ head' = r.content
  /\ IF ~r.ok
     THEN op' = NoOp /\ pc' = "idle" /\ UNCHANGED <<wal, overlay, pending>>
     ELSE /\ pending' = wal.next - 1
          /\ IF batch THEN Retired /\ Resume
                      ELSE pc' = "publish" /\ UNCHANGED <<op, wal, overlay>>
  /\ UNCHANGED <<region, platter, hdr, prop, batch, writes, crashes, fault, log>>

\* publish: the next header, with the pending applied sequence taken.
Publish ==
  /\ pc = "publish"
  /\ prop' = [head |-> head, applied |-> IF pending # -1 THEN pending ELSE hdr.applied,
              on |-> wal.on]
  /\ pending' = -1
  /\ pc' = "written"
  /\ UNCHANGED <<region, platter, hdr, head, wal, overlay, batch, op,
                 writes, crashes, fault, log>>

Settled == [i \in DOMAIN log |->
  IF log[i].fate = "staged" THEN [log[i] EXCEPT !.fate = "kept"] ELSE log[i]]

\* publish returned Ok: everything staged is committed.
PublishLands ==
  /\ pc = "written"
  /\ hdr' = prop /\ prop' = NoHeader
  /\ log' = Settled
  /\ IF op.kind \in {"checkpoint", "async"} THEN Retired ELSE UNCHANGED <<overlay, wal>>
  /\ Resume
  /\ UNCHANGED <<region, platter, head, pending, batch, writes, crashes, fault>>

\* publish returned an error before the header changed; so does its caller.
PublishFails ==
  /\ pc = "written"
  /\ Fault(IF op.kind = "enable" THEN "enable" ELSE "publish")
  /\ prop' = NoHeader
  /\ op' = NoOp /\ pc' = "idle"
  /\ UNCHANGED <<region, platter, hdr, head, wal, overlay, pending, batch,
                 writes, crashes, log>>

\* write_async: the record goes to the cursor.
AppendRecord ==
  /\ pc = "append"
  /\ region' = [i \in Cells |->
       IF i \in wal.cursor + 1 .. wal.cursor + op.w.len
       THEN [seq |-> wal.next, part |-> i - wal.cursor, w |-> op.w] ELSE region[i]]
  /\ pc' = "appended"
  /\ UNCHANGED <<platter, hdr, prop, head, wal, overlay, pending, batch, op,
                 writes, crashes, fault, log>>

\* Mutant of AppendFlush: the record is acknowledged without the fsync.
AppendUnflushed ==
  /\ pc = "appended"
  /\ wal' = [wal EXCEPT !.cursor = @ + op.w.len, !.next = @ + 1]
  /\ overlay' = Insert(overlay, op.w)
  /\ log' = Append(log, [w |-> op.w, fate |-> "kept"])
  /\ op' = NoOp /\ pc' = "idle"
  /\ UNCHANGED <<region, platter, hdr, prop, head, pending, batch, writes, crashes, fault>>

\* write_async: the fsync; the write is accepted.
AppendFlush ==
  /\ pc = "appended"
  /\ platter' = region
  /\ wal' = [wal EXCEPT !.cursor = @ + op.w.len, !.next = @ + 1]
  /\ overlay' = Insert(overlay, op.w)
  /\ log' = Append(log, [w |-> op.w, fate |-> "kept"])
  /\ op' = NoOp /\ pc' = "idle"
  /\ UNCHANGED <<region, hdr, prop, head, pending, batch, writes, crashes, fault>>

\* write_async: the fsync reports an error, and so does the call.
AppendFails ==
  /\ pc = "appended"
  /\ Fault("append")
  /\ log' = Append(log, [w |-> op.w, fate |-> "maybe"])
  /\ op' = NoOp /\ pc' = "idle"
  /\ UNCHANGED <<region, platter, hdr, prop, head, wal, overlay, pending, batch,
                 writes, crashes>>

-----------------------------------------------------------------------------
\* A power failure: each dirty cell is old, new or torn, and the header being
\* committed is or is not on disk.
Crash ==
  /\ pc # "closed" /\ crashes < MaxCrash
  /\ crashes' = crashes + 1
  /\ \E c \in [{i \in Cells : region[i] # platter[i]} -> {"old", "new", "torn"}] :
       platter' = [i \in Cells |->
         IF i \notin DOMAIN c \/ c[i] = "old" THEN platter[i]
         ELSE IF c[i] = "new" THEN region[i] ELSE Empty]
  /\ region' = platter'
  /\ hdr' \in {hdr} \cup ({prop} \ {NoHeader})
  /\ log' = (IF hdr' = hdr THEN SelectSeq(log, LAMBDA e : e.fate # "staged") ELSE Settled)
            \o (IF pc = "appended" THEN <<[w |-> op.w, fate |-> "maybe"]>> ELSE <<>>)
  /\ head' = hdr'.head /\ wal' = NoWal /\ overlay' = {} /\ pending' = -1
  /\ batch' = FALSE /\ op' = NoOp /\ prop' = NoHeader
  /\ pc' = "closed"
  /\ UNCHANGED <<writes, fault>>

\* replay_wal: the records newer than the header, in the order of the region.
Replayed == ScanRegion(region, hdr.applied)

\* finish_open.  A record that reached the disk although its write_async never
\* returned Ok is a write the unit now has, in its place.
Reopen ==
  /\ pc = "closed"
  /\ pc' = "idle"
  /\ IF hdr.on
     THEN /\ overlay' = FoldLeft(LAMBDA o, r : Insert(o, r.w), {}, Replayed)
          /\ wal' = [on |-> TRUE,
                     cursor |-> FoldLeft(LAMBDA n, r : n + r.w.len, 0, Replayed),
                     next |-> Max({hdr.applied} \cup {r.seq : r \in ToSet(Replayed)}) + 1]
          /\ log' = [i \in DOMAIN log |->
               IF \E r \in ToSet(Replayed) : r.w = log[i].w
               THEN [log[i] EXCEPT !.fate = "kept"] ELSE log[i]]
     ELSE UNCHANGED <<overlay, wal, log>>
  /\ UNCHANGED <<region, platter, hdr, prop, head, pending, batch, op, writes, crashes, fault>>

Next ==
  \/ EnableWal \/ BeginBatch \/ CommitBatch
  \/ \E s \in SyncShapes : SyncWrite(s)
  \/ \E s \in AsyncShapes : WriteAsync(s)
  \/ Checkpoint \/ CheckpointApply
  \/ Publish \/ PublishLands \/ PublishFails
  \/ AppendRecord \/ AppendFlush \/ AppendFails
  \/ Crash \/ Reopen

Spec == Init /\ [][Next]_vars

-----------------------------------------------------------------------------
TypeOK ==
  /\ \A r \in {region, platter} : \A i \in Cells :
       r[i].seq \in 0 .. MaxWrites /\ r[i].part \in 0 .. RegionSize
  /\ hdr.applied \in 0 .. MaxWrites /\ pending \in -1 .. MaxWrites
  /\ wal.cursor \in 0 .. RegionSize /\ wal.next \in 1 .. MaxWrites + 1
  /\ \A v, w \in overlay : v.ofs = w.ofs => v = w
  /\ wal.cursor = 0 => overlay = {}

\* No call has returned an error, except one whose publish failed.
Clean == fault \in {"none", "publish"}

\* A read of an idle engine returns the effect of every accepted write in the
\* order the calls returned, before a checkpoint, after it, and after any
\* power failure (write_async, checkpoint_inner, replay_wal).
ReadsLatest ==
  Clean /\ pc = "idle" =>
    View = FoldLeft(LAMBDA c, e : IF e.fate = "maybe" THEN c ELSE Splice(c, e.w),
                    [i \in 1 .. InitLen |-> 0], log)

\* At every moment of a session what an open would find on stable storage is
\* the effect of the writes whose calls promised durability: the committed
\* content and every record write_async has fsynced.
StorageHoldsAccepted ==
  LET found == FoldLeft(LAMBDA o, r : Insert(o, r.w), {}, ScanRegion(platter, hdr.applied))
  IN Clean /\ hdr.on /\ pc # "closed" /\ prop = NoHeader =>
       FoldLeft(Splice, hdr.head, InOffsetOrder(found))
         = FoldLeft(LAMBDA c, e : IF e.fate # "kept" THEN c ELSE Splice(c, e.w),
                    [i \in 1 .. InitLen |-> 0], log)

\* An accepted asynchronous write is in the committed content's history or the
\* next open replays it from what is already on stable storage: the cursor
\* reset never lets the log overwrite a record the header does not cover, also
\* after a failed append within the session.
PendingIsReplayable ==
  (Clean \/ (fault = "append" /\ crashes = 0)) /\ pc # "closed" /\ prop = NoHeader =>
    \A w \in overlay : hdr.on /\ \E r \in ToSet(ScanRegion(platter, hdr.applied)) : r.w = w

-----------------------------------------------------------------------------
(* What the code does not guarantee (README, Divergences). *)

\* A checkpoint of what write_async accepted succeeds.
Checkpointable == pc = "idle" => Applied(head, overlay).ok
=============================================================================
