--------------------------- MODULE InPlaceWriteInv ---------------------------
(***************************************************************************)
(* The inductive invariant of the engine of version/store.rs, for every    *)
(* number of fragments, slots, tail positions, writes and power failures,  *)
(* and the proof that every action of a running engine keeps it: first the *)
(* actions which move no block (batches, barriers, header commits,         *)
(* eviction, writer-set changes and every error path), then the staging of *)
(* blocks.  InPlaceWriteProofs treats power failures and recovery, and     *)
(* draws the conclusions.                                                  *)
(*                                                                         *)
(* The heart of the invariant is Guarded: a committed block whose bytes    *)
(* are not in place, in the cache and on disk, has an undo image of the    *)
(* current target in the tail, durable and where the next scan of the tail *)
(* finds it.  The other conjuncts make Guarded inductive (Slotted,         *)
(* Watermark, Images, PutoffGuarded), tie the record to the bytes reads    *)
(* return (Reads, Pending, Steady), and keep each superseded version       *)
(* reachable (Acked, Superseded).                                          *)
(***************************************************************************)
EXTENDS InPlaceWrite, NumberFacts, TLAPS

\* The record the engine works from: inside a write, the one being staged.
Busy == pc \in {"stage", "apply"}
Cur == IF Busy THEN op.rec ELSE root
Sealed(f, l) == [frag |-> f, id |-> l.id]

\* Types of a block device, of a header and of the allocator.
Blocks == [slot : [Slots -> Block \cup {Blank, Torn}], tail : [Positions -> Image \cup {Blank, Torn}]]
Header == [seq : Nat, root : [Frags -> Loc], tail : 0 .. MaxTail]
Allocs == [frontier : 1 .. MaxSlot + 1, free : SUBSET Slots, deferred : SUBSET Slots,
           low : 0 .. MaxTail, freeTail : SUBSET Positions]

\* Types; the freelist of the tail lies below its watermark.
Types ==
  /\ cache \in Blocks /\ disk \in Blocks
  /\ hdr \in Header
  /\ prop # None => prop \in Header
  /\ pc \in {"written", "writerset"} => prop \in Header
  /\ root \in [Frags -> Loc]
  /\ seq \in Nat
  /\ journaled \subseteq Frags /\ batch \in BOOLEAN
  /\ op \in [kind : {"none", "write", "rechunk"}, todo : SUBSET Frags, rec : [Frags -> Loc],
             pending : SUBSET [slot : Slots, frag : Frags]]
  /\ alloc \in Allocs
  /\ \A p \in alloc.freeTail : p <= alloc.low
  /\ writes \in 0 .. MaxWrites
  /\ acked \subseteq Frags \X (0 .. MaxWrites)

\* No version is younger than the last write.
Aged ==
  /\ \A f \in Frags : root[f].id <= writes /\ hdr.root[f].id <= writes
  /\ prop # None => \A f \in Frags : prop.root[f].id <= writes
  /\ Busy => \A f \in Frags : root[f].id < writes
  /\ Busy => \A f \in Frags : op.rec[f] = root[f] \/ (op.rec[f].id = writes /\ op.rec[f].loc # 0)
  /\ Busy => \A f \in op.todo : op.rec[f] = root[f]

\* A slot both records name belongs to the same fragment.
SameFragment(r, q) == \A f, g \in Frags : r[f].loc # 0 /\ r[f].loc = q[g].loc => f = g

\* Unless a write failed, no two fragments share a slot, and a slot that is free or parked
\* is named neither by the record nor (if free) by the header.
Slotted ==
  fault # "write" =>
    /\ SameFragment(Cur, Cur) /\ SameFragment(hdr.root, hdr.root) /\ SameFragment(Cur, hdr.root)
    /\ prop # None => SameFragment(prop.root, prop.root)
    /\ pc = "written" => prop.root = root
    /\ pc = "writerset" => prop.root = hdr.root
    /\ pc \in {"closed", "recover"} => root = hdr.root
    /\ \A f \in Frags : /\ Cur[f].loc \notin alloc.free /\ Cur[f].loc \notin alloc.deferred
                        /\ hdr.root[f].loc \notin alloc.free
                        /\ Cur[f].loc < alloc.frontier /\ hdr.root[f].loc < alloc.frontier
    /\ \A s \in alloc.free : s \notin alloc.deferred /\ s < alloc.frontier
    /\ \A s \in alloc.deferred : s < alloc.frontier

\* What the program counter says of the header, of the journal and of the disk.
Steady ==
  Clean =>
    /\ hdr.seq = seq
    /\ pc \notin {"written", "writerset"} => prop = None
    /\ pc = "written" => prop = [seq |-> seq + 1, root |-> root, tail |-> alloc.low]
    /\ pc = "writerset" => prop = [seq |-> seq + 1, root |-> hdr.root, tail |-> hdr.tail]
    /\ pc \in {"closed", "recover", "writerset"} => journaled = {}
    /\ pc \in {"closed", "commit", "written", "writerset"} => disk = cache
    /\ fault = "none" /\ ~batch /\ pc = "idle" => journaled = {}

\* A position above the header's watermark is scanned at the next open only if the first
\* one there is not blank: it is registered before any later one.
Watermark ==
  Clean =>
    /\ \A p \in Positions : disk.tail[p] # Blank => cache.tail[p] # Blank
    /\ pc # "closed" /\ hdr.tail < alloc.low => cache.tail[hdr.tail + 1] # Blank

\* The overwrite of f waits for the barrier.
Putoff(f) == Busy /\ [slot |-> op.rec[f].loc, frag |-> f] \in op.pending

\* The cache holds the version the record names, or its overwrite is put off.
Reads ==
  Clean /\ pc # "closed" =>
    \A f \in Frags : Cur[f].loc # 0 => cache.slot[Cur[f].loc] = Sealed(f, Cur[f]) \/ Putoff(f)

\* A put-off overwrite belongs to the running write and is journaled.
Pending ==
  Clean /\ Busy =>
    \A w \in op.pending : /\ w.slot = op.rec[w.frag].loc /\ op.rec[w.frag].id = writes
                          /\ w.frag \notin op.todo /\ w.frag \in journaled

\* Tail block b, if it is an undo image of an uncommitted overwrite, holds committed bytes.
Right(b) ==
  IsImage(b) =>
    /\ b.target <= hdr.seq + 1
    /\ b.target > hdr.seq => \A f \in Frags :
         b.inplace # 0 /\ b.inplace = hdr.root[f].loc => b.bytes = Sealed(f, hdr.root[f])
Images == Clean => \A p \in Positions : Right(cache.tail[p]) /\ Right(disk.tail[p])

\* Tail block b restores the committed version of f; position p survives a power failure
\* and is scanned; p is below the watermark and not free.
Undoes(b, f) ==
  IsImage(b) /\ b.target = hdr.seq + 1 /\ b.inplace = hdr.root[f].loc /\ b.bytes = Sealed(f, hdr.root[f])
Durably(p) == disk.tail[p] = cache.tail[p] /\ (p <= hdr.tail \/ disk.tail[hdr.tail + 1] # Blank)
Held(p) == p <= alloc.low /\ p \notin alloc.freeTail
\* The committed block of f, if it has one, is in place in the cache and on disk.
Intact(f) == LET l == hdr.root[f] IN
  l.loc # 0 => cache.slot[l.loc] = Sealed(f, l) /\ disk.slot[l.loc] = Sealed(f, l)
\* evict may free an image a write needs only after a failed publish, and only until the header flip.
Lapsing == fault = "publish" /\ pc \in {"publish", "commit", "written"}

\* A committed block that is not in place has a durable undo image.
Guarded ==
  Clean => \A f \in Frags : ~Intact(f) =>
    /\ \E p \in Positions : Undoes(cache.tail[p], f) /\ Durably(p)
                       /\ (pc # "closed" => p <= alloc.low /\ (Held(p) \/ Lapsing))
    /\ pc \notin {"closed", "recover"} => f \in journaled

\* A put-off overwrite has its undo image staged, durable once the overwrites are applied.
PutoffGuarded ==
  Clean /\ Busy => \A w \in op.pending : w.slot = hdr.root[w.frag].loc =>
    \E p \in Positions : Undoes(cache.tail[p], w.frag) /\ Held(p) /\ (pc = "apply" => Durably(p))

\* Tail block b keeps version v readable.
Keeps(b, v) == IsImage(b) /\ b.frag = v[1] /\ b.id = v[2] /\ b.bytes = [frag |-> v[1], id |-> v[2]]

\* A version committed once and not given up is committed still, or kept in the tail.
Acked ==
  Clean => \A v \in acked \ dropped :
    \/ \E f \in Frags : hdr.root[f].loc # 0 /\ v = <<f, hdr.root[f].id>>
    \/ \E p \in Positions : Keeps(cache.tail[p], v) /\ Durably(p) /\ (pc # "closed" => Held(p))

\* A committed version is current still, or kept in the tail.
Superseded ==
  Clean /\ pc # "closed" => \A f \in Frags :
    hdr.root[f].loc # 0 /\ <<f, hdr.root[f].id>> \notin dropped =>
      \/ f \notin journaled /\ Cur[f].loc # 0 /\ Cur[f].id = hdr.root[f].id
      \/ \E p \in Positions : Held(p) /\ Keeps(cache.tail[p], <<f, hdr.root[f].id>>)

IInv == Types /\ Aged /\ Slotted /\ Steady /\ Watermark /\ Reads /\ Pending /\ Images
        /\ Guarded /\ PutoffGuarded /\ Acked /\ Superseded

\* The invariant, folded: lemmas are stated with Inv and unfold it where they need it.
Inv == IInv

\* The bounds are numbers and fragments are counted from 1.
LEMMA Constants ==
  /\ MaxSlot \in Nat \ {0} /\ MaxTail \in Nat /\ MaxSeq \in Nat /\ MaxWrites \in Nat
  /\ Frags # {} /\ \A f \in Frags : f \in Nat /\ f # 0
BY ConstantsAssumption, Zenon DEF ConstantsAssumption

\* The idle value of op.
LEMMA NoOpType ==
  NoOp \in [kind : {"none", "write", "rechunk"}, todo : SUBSET Frags, rec : [Frags -> Loc],
            pending : SUBSET [slot : Slots, frag : Frags]]
<1>1. Hole \in Loc
  BY Constants DEF Hole, Loc
<1> QED
  BY <1>1, Zenon DEF NoOp

\* The tail as the allocator sees it stays.
SameTail == alloc'.low = alloc.low /\ alloc'.freeTail = alloc.freeTail

\* A step of a running engine that keeps the header, the blocks it reads, the
\* record it works from, the journal and the history.
Running ==
  /\ UNCHANGED <<cache, hdr, journaled, acked, dropped>> /\ SameTail
  /\ pc # "closed" /\ pc' # "closed" /\ pc' # "recover"
  /\ Clean' => Clean /\ Cur' = Cur /\ (Lapsing => Lapsing')

\* A step that keeps the record, its blocks and the slots handed out.
SameRecord ==
  /\ UNCHANGED <<cache, hdr, root, prop, op, writes, journaled>>
  /\ alloc'.free = alloc.free /\ alloc'.frontier = alloc.frontier
  /\ alloc'.deferred \subseteq alloc.deferred
  /\ Clean' => Clean
  /\ fault' # "write" => fault # "write"
  /\ Busy' <=> Busy
  /\ pc # "closed" /\ pc' \notin {"written", "writerset", "closed", "recover"}

LEMMA RecordKeeps ==
  ASSUME Inv, SameRecord
  PROVE  Aged' /\ Slotted' /\ Reads' /\ Pending'
<1> IInv
  BY Zenon DEF Inv
<1>1. Cur' = Cur /\ \A f \in Frags : Putoff(f) => Putoff(f)'
  BY Zenon DEF SameRecord, Cur, Putoff
<1>2. Aged'
  BY Zenon DEF IInv, Aged, SameRecord
<1>3. Slotted'
  BY <1>1, Zenon DEF IInv, Slotted, SameRecord
<1>4. Reads'
  BY <1>1, Zenon DEF IInv, Reads, Sealed, SameRecord
<1>5. Pending'
  BY Zenon DEF IInv, Pending, SameRecord
<1> QED
  BY <1>2, <1>3, <1>4, <1>5, Zenon

\* Between barriers, what is durable stays durable and what is guarded stays guarded.
LEMMA QuietKeeps ==
  ASSUME Inv, Running, disk' = disk, pc # "recover"
  PROVE  Watermark' /\ Images' /\ Guarded' /\ Acked' /\ Superseded'
<1> IInv
  BY Zenon DEF Inv
<1>1. Watermark'
  BY Zenon DEF IInv, Watermark, Running, SameTail
<1>2. Images'
  BY Zenon DEF IInv, Images, Right, Running
<1>3. Guarded'
  BY ZenonT(30) DEF IInv, Guarded, Intact, Undoes, Durably, Held, Running, SameTail
<1>4. Acked'
  BY ZenonT(30) DEF IInv, Acked, Keeps, Durably, Held, Running, SameTail
<1>5. Superseded'
  BY Zenon DEF IInv, Superseded, Held, Running, SameTail
<1> QED
  BY <1>1, <1>2, <1>3, <1>4, <1>5, Zenon

\* A barrier makes every registered tail block durable, where the next scan finds it.
LEMMA FlushReaches ==
  ASSUME Types, Watermark, Clean, pc # "closed", disk' = cache, cache' = cache, hdr' = hdr,
         NEW p \in Positions, p <= alloc.low \/ Durably(p)
  PROVE  Durably(p)'
<1>1. CASE p <= hdr.tail
  BY <1>1, Zenon DEF Durably
<1>2. CASE ~(p <= hdr.tail)
  <2>1. hdr.tail + 1 \in Positions
    BY <1>2, Constants DEF Types, Header, Positions
  <2>2. cache.tail[hdr.tail + 1] # Blank
    BY <1>2, <2>1 DEF Watermark, Durably, Types, Header, Allocs, Positions
  <2> QED
    BY <2>2, Zenon DEF Durably
<1> QED
  BY <1>1, <1>2, Zenon

\* A barrier: a committed slot that is not intact afterwards was not intact before,
\* and its undo image, like all history, is durable afterwards.
LEMMA FlushKeeps ==
  ASSUME Inv, Running, disk' = cache, Clean' => \A f \in Frags : ~Intact(f)' => f \in journaled
  PROVE  Watermark' /\ Images' /\ Guarded' /\ Acked' /\ Superseded'
<1> IInv
  BY Zenon DEF Inv
<1>1. Watermark'
  BY Zenon DEF IInv, Watermark, Running, SameTail
<1>2. Images'
  BY Zenon DEF IInv, Images, Right, Running
<1>3. Superseded'
  BY Zenon DEF IInv, Superseded, Held, Running, SameTail
<1>4. ASSUME Clean', NEW p \in Positions, p <= alloc.low \/ Durably(p) PROVE Durably(p)'
  BY <1>4, FlushReaches, Zenon DEF IInv, Running
<1>5. \A p \in Positions : Held(p)' <=> Held(p)
  BY Zenon DEF Held, Running, SameTail
<1>6. Guarded'
  <2> SUFFICES ASSUME Clean', NEW f \in Frags, ~Intact(f)'
               PROVE  /\ \E p \in Positions : /\ Undoes(cache.tail[p], f)' /\ Durably(p)'
                                              /\ p <= alloc'.low /\ (Held(p)' \/ Lapsing')
                      /\ f \in journaled'
    BY Zenon DEF Guarded
  <2>1. Clean /\ ~Intact(f)
    BY Zenon DEF Intact, Running
  <2>2. PICK p \in Positions : Undoes(cache.tail[p], f) /\ p <= alloc.low /\ (Held(p) \/ Lapsing)
    BY <2>1, Zenon DEF IInv, Guarded, Running
  <2>3. Undoes(cache.tail[p], f)' /\ p <= alloc'.low /\ (Held(p)' \/ Lapsing')
    BY <2>2, <1>5, Zenon DEF Undoes, Running, SameTail
  <2> QED
    BY <2>2, <2>3, <1>4, Zenon DEF Running
<1>7. Acked'
  <2> SUFFICES ASSUME Clean', NEW v \in acked \ dropped
               PROVE  \/ \E f \in Frags : hdr.root[f].loc # 0 /\ v = <<f, hdr.root[f].id>>
                      \/ \E p \in Positions : Keeps(cache.tail[p], v)' /\ Durably(p)' /\ Held(p)'
    BY Zenon DEF Acked, Running
  <2>1. \A p \in Positions : Keeps(cache.tail[p], v)' <=> Keeps(cache.tail[p], v)
    BY Zenon DEF Keeps, Running
  <2> QED
    BY <2>1, <1>4, <1>5, Zenon DEF IInv, Acked, Running
<1> QED
  BY <1>1, <1>2, <1>3, <1>6, <1>7, Zenon

\* After an error other than a failed barrier of publish only types, ages and slots
\* are accounted for.
LEMMA FaultyHolds ==
  ASSUME ~Clean'
  PROVE  Steady' /\ Watermark' /\ Reads' /\ Pending' /\ Images' /\ Guarded' /\ PutoffGuarded'
         /\ Acked' /\ Superseded'
BY Zenon DEF Steady, Watermark, Reads, Pending, Images, Guarded, PutoffGuarded, Acked, Superseded

\* begin_batch suppresses commits.
LEMMA BeginBatchInv == ASSUME Inv, BeginBatch PROVE Inv'
<1> SUFFICES ASSUME IInv PROVE IInv'
  BY Zenon DEF Inv
<1>1. Types'
  BY Zenon DEF IInv, Types, BeginBatch
<1>2. Running /\ SameRecord
  BY Zenon DEF Running, SameTail, SameRecord, Clean, Cur, Busy, Lapsing, BeginBatch
<1>3. Steady'
  BY Zenon DEF IInv, Steady, Clean, BeginBatch
<1>4. PutoffGuarded'
  BY Zenon DEF PutoffGuarded, Busy, BeginBatch
<1> QED
  BY <1>1, <1>2, <1>3, <1>4, RecordKeeps, QuietKeeps, Zenon DEF IInv, BeginBatch

\* commit_batch publishes what the batch staged.
LEMMA CommitBatchInv == ASSUME Inv, CommitBatch PROVE Inv'
<1> SUFFICES ASSUME IInv PROVE IInv'
  BY Zenon DEF Inv
<1>1. Types'
  BY Zenon DEF IInv, Types, CommitBatch
<1>2. Running /\ SameRecord
  BY Zenon DEF Running, SameTail, SameRecord, Clean, Cur, Busy, Lapsing, CommitBatch
<1>3. Steady'
  BY Zenon DEF IInv, Steady, Clean, CommitBatch
<1>4. PutoffGuarded'
  BY Zenon DEF PutoffGuarded, Busy, CommitBatch
<1> QED
  BY <1>1, <1>2, <1>3, <1>4, RecordKeeps, QuietKeeps, Zenon DEF IInv, CommitBatch

\* After a failed transaction only the slots are accounted for.
LEMMA AbortTransactionInv == ASSUME Inv, AbortTransaction PROVE Inv'
<1> SUFFICES ASSUME IInv PROVE IInv'
  BY Zenon DEF Inv
<1>1. Types'
  BY Zenon DEF IInv, Types, Allocs, AbortTransaction, Fault
<1>2. SameRecord /\ ~Clean'
  BY Zenon DEF IInv, Types, Allocs, SameRecord, Clean, Busy, AbortTransaction, Fault
<1> QED
  BY <1>1, <1>2, RecordKeeps, FaultyHolds, Zenon DEF IInv

\* A write starts from the in-memory root.
LEMMA BeginWriteInv ==
  ASSUME Inv, NEW kind \in {"write", "rechunk"}, NEW F \in SUBSET Frags, BeginWrite(kind, F) PROVE Inv'
<1> SUFFICES ASSUME IInv PROVE IInv'
  BY Zenon DEF Inv
<1>1. Types'
  <2>1. writes' \in 0 .. MaxWrites
    BY Constants DEF IInv, Types, BeginWrite
  <2> QED
    BY <2>1, Zenon DEF IInv, Types, BeginWrite
<1>2. Running
  BY Zenon DEF Running, SameTail, Clean, Cur, Busy, Lapsing, BeginWrite
<1>3. Aged'
  <2>1. \A f \in Frags : root[f].id \in Int /\ hdr.root[f].id \in Int /\ (prop # None => prop.root[f].id \in Int)
    BY DEF IInv, Types, Header, Loc
  <2>2. writes \in Int /\ writes' = writes + 1
    BY DEF IInv, Types, BeginWrite
  <2> QED
    BY <2>1, <2>2 DEF IInv, Aged, Busy, BeginWrite
<1>4. Slotted'
  BY Zenon DEF IInv, Slotted, Cur, Busy, SameFragment, BeginWrite
<1>5. Steady'
  BY Zenon DEF IInv, Steady, Clean, BeginWrite
<1>6. Reads'
  BY Zenon DEF IInv, Reads, Clean, Cur, Busy, Putoff, Sealed, BeginWrite
<1>7. Pending' /\ PutoffGuarded'
  BY Zenon DEF Pending, PutoffGuarded, BeginWrite
<1> QED
  BY <1>1, <1>2, <1>3, <1>4, <1>5, <1>6, <1>7, QuietKeeps, Zenon DEF IInv, BeginWrite

\* The barrier makes the undo images of the overwrites put off durable.
LEMMA DrainInv == ASSUME Inv, Drain PROVE Inv'
<1> SUFFICES ASSUME IInv PROVE IInv'
  BY Zenon DEF Inv
<1>1. Types'
  BY Zenon DEF IInv, Types, Drain
<1>2. Running /\ SameRecord
  BY Zenon DEF Running, SameTail, SameRecord, Clean, Cur, Busy, Lapsing, Drain
<1>3. Clean' => \A f \in Frags : ~Intact(f)' => f \in journaled
  BY Zenon DEF IInv, Guarded, Intact, Clean, Drain
<1>4. Steady'
  BY Zenon DEF IInv, Steady, Clean, Drain
<1>5. PutoffGuarded'
  <2> SUFFICES ASSUME Clean', NEW w \in op.pending, w.slot = hdr.root[w.frag].loc
               PROVE  \E p \in Positions : Undoes(cache.tail[p], w.frag)' /\ Held(p)' /\ Durably(p)'
    BY Zenon DEF PutoffGuarded, Drain
  <2>1. Clean /\ pc # "closed" /\ Busy
    BY Zenon DEF Drain, Clean, Busy
  <2>2. PICK p \in Positions : Undoes(cache.tail[p], w.frag) /\ Held(p)
    BY <2>1, Zenon DEF IInv, PutoffGuarded
  <2>3. Durably(p)'
    BY <2>1, <2>2, FlushReaches, Zenon DEF IInv, Held, Drain
  <2>4. Undoes(cache.tail[p], w.frag)' /\ Held(p)'
    BY <2>2, Zenon DEF Undoes, Held, Drain
  <2> QED
    BY <2>3, <2>4, Zenon
<1> QED
  BY <1>1, <1>2, <1>3, <1>4, <1>5, RecordKeeps, FlushKeeps, Zenon DEF IInv, Drain

\* A failed barrier ends the write.
LEMMA DrainFailsInv == ASSUME Inv, DrainFails PROVE Inv'
<1> SUFFICES ASSUME IInv PROVE IInv'
  BY Zenon DEF Inv
<1>1. Types'
  BY NoOpType, Zenon DEF IInv, Types, DrainFails, Fault
<1>2. Aged'
  BY Zenon DEF IInv, Aged, Busy, DrainFails
<1>3. ~Clean' /\ Slotted'
  BY Zenon DEF Slotted, Clean, DrainFails, Fault
<1> QED
  BY <1>1, <1>2, <1>3, FaultyHolds, Zenon DEF IInv

\* A write that finds no room ends with an error.
LEMMA FinishFailsInv == ASSUME Inv, FinishFails PROVE Inv'
<1> SUFFICES ASSUME IInv PROVE IInv'
  BY Zenon DEF Inv
<1>1. Types'
  BY NoOpType, Zenon DEF IInv, Types, FinishFails, Fault
<1>2. Aged'
  BY Zenon DEF IInv, Aged, Busy, FinishFails
<1>3. ~Clean' /\ Slotted'
  BY Zenon DEF Slotted, Clean, FinishFails, Fault
<1> QED
  BY <1>1, <1>2, <1>3, FaultyHolds, Zenon DEF IInv

\* The staged record becomes the in-memory root.
LEMMA FinishWriteInv == ASSUME Inv, FinishWrite PROVE Inv'
<1> SUFFICES ASSUME IInv PROVE IInv'
  BY Zenon DEF Inv
<1>1. Types'
  BY NoOpType, Zenon DEF IInv, Types, FinishWrite
<1>2. Running
  BY Zenon DEF Running, SameTail, Clean, Cur, Busy, Lapsing, FinishWrite
<1>3. Aged'
  <2>1. writes \in Int /\ \A f \in Frags : root[f].id \in Int
    BY DEF IInv, Types, Loc
  <2> QED
    BY <2>1 DEF IInv, Aged, Busy, FinishWrite
<1>4. Slotted'
  BY Zenon DEF IInv, Slotted, Cur, Busy, SameFragment, FinishWrite
<1>5. Steady'
  BY Zenon DEF IInv, Steady, Clean, FinishWrite
<1>6. Reads'
  BY Zenon DEF IInv, Reads, Clean, Cur, Busy, Putoff, Sealed, FinishWrite
<1>7. Pending' /\ PutoffGuarded'
  BY Zenon DEF Pending, PutoffGuarded, Busy, FinishWrite
<1> QED
  BY <1>1, <1>2, <1>3, <1>4, <1>5, <1>6, <1>7, QuietKeeps, Zenon DEF IInv, FinishWrite

\* Evicted blocks are given up; after a failed publish they may be undo images, until the header flip.
LEMMA EvictInv == ASSUME Inv, NEW D, Evict(D) PROVE Inv'
<1> SUFFICES ASSUME IInv PROVE IInv'
  BY Zenon DEF Inv
<1>1. ASSUME NEW p \in Positions, NEW v, Held(p), Keeps(cache.tail[p], v), v \notin dropped',
             v = <<v[1], v[2]>>
      PROVE  Held(p)' /\ Keeps(cache.tail[p], v)'
  <2>1. p \notin D
    BY <1>1, Zenon DEF Keeps, Evict
  <2> QED
    BY <1>1, <2>1 DEF Held, Evict
<1>2. Types'
  <2>1. \A p \in D : p \in Positions /\ p <= alloc.low
    BY Constants DEF IInv, Types, Allocs, Evict, Positions
  <2> QED
    BY <2>1, Zenon DEF IInv, Types, Allocs, Evict
<1>3. alloc'.low = alloc.low /\ SameRecord
  BY Zenon DEF IInv, Types, Allocs, SameRecord, Clean, Busy, Evict
<1>4. Steady'
  BY Zenon DEF IInv, Steady, Clean, Evict
<1>5. Watermark' /\ Images'
  BY <1>3, Zenon DEF IInv, Watermark, Images, Right, Clean, Evict
<1>6. PutoffGuarded'
  BY Zenon DEF PutoffGuarded, Busy, Evict
<1>7. Guarded'
  <2> SUFFICES ASSUME Clean', NEW f \in Frags, ~Intact(f)'
               PROVE  /\ \E p \in Positions : Undoes(cache.tail[p], f)' /\ Durably(p)' /\ p <= alloc.low' /\ Lapsing'
                      /\ f \in journaled'
    BY Zenon DEF Guarded
  <2>1. Clean /\ ~Intact(f)
    BY Zenon DEF Evict, Clean, Intact
  <2>2. f \in journaled
    BY <2>1, Zenon DEF IInv, Guarded, Evict
  <2>3. Lapsing'
    BY <2>1, <2>2, Zenon DEF IInv, Steady, Clean, Lapsing, Evict
  <2>4. PICK p \in Positions : Undoes(cache.tail[p], f) /\ Durably(p) /\ p <= alloc.low
    BY <2>1, Zenon DEF IInv, Guarded, Evict
  <2>5. alloc'.low = alloc.low
    BY DEF Evict
  <2> QED
    BY <2>2, <2>3, <2>4, <2>5, Zenon DEF Undoes, Durably, Evict
<1>8. Acked'
  <2> SUFFICES ASSUME Clean', NEW v \in acked' \ dropped'
               PROVE  \/ \E f \in Frags : hdr'.root[f].loc # 0 /\ v = <<f, hdr'.root[f].id>>
                      \/ \E p \in Positions : Keeps(cache.tail[p], v)' /\ Durably(p)' /\ Held(p)'
    BY Zenon DEF Acked, Evict
  <2>1. Clean /\ pc # "closed" /\ v \in acked \ dropped /\ v = <<v[1], v[2]>>
    BY DEF IInv, Types, Evict, Clean
  <2>2. CASE \E f \in Frags : hdr.root[f].loc # 0 /\ v = <<f, hdr.root[f].id>>
    BY <2>2, Zenon DEF Evict
  <2>3. CASE \E p \in Positions : Keeps(cache.tail[p], v) /\ Durably(p) /\ Held(p)
    <3>1. PICK p \in Positions : Keeps(cache.tail[p], v) /\ Durably(p) /\ Held(p)
      BY <2>3, Zenon
    <3> QED
      BY <3>1, <2>1, <1>1, Zenon DEF Durably, Evict
  <2> QED
    BY <2>1, <2>2, <2>3, Zenon DEF IInv, Acked
<1>9. Superseded'
  <2> SUFFICES ASSUME Clean', NEW f \in Frags, hdr.root[f].loc # 0, <<f, hdr.root[f].id>> \notin dropped'
               PROVE  \/ f \notin journaled /\ Cur'[f].loc # 0 /\ Cur'[f].id = hdr.root[f].id
                      \/ \E p \in Positions : Held(p)' /\ Keeps(cache.tail[p], <<f, hdr.root[f].id>>)'
    BY Zenon DEF Superseded, Evict, Keeps
  <2>1. Clean /\ Cur' = Cur /\ pc # "closed" /\ <<f, hdr.root[f].id>> \notin dropped
    BY Zenon DEF Evict, Clean, Cur, Busy
  <2>2. CASE \E p \in Positions : Held(p) /\ Keeps(cache.tail[p], <<f, hdr.root[f].id>>)
    <3>1. PICK v : v = <<f, hdr.root[f].id>>
      BY Zenon
    <3>2. PICK p \in Positions : Held(p) /\ Keeps(cache.tail[p], v)
      BY <2>2, <3>1, Zenon
    <3>3. Held(p)' /\ Keeps(cache.tail[p], v)'
      BY <3>1, <3>2, <1>1, Zenon
    <3> QED
      BY <3>1, <3>3, Zenon DEF Keeps, Evict
  <2> QED
    BY <2>1, <2>2, Zenon DEF IInv, Superseded
<1> QED
  BY <1>2, <1>3, <1>4, <1>5, <1>6, <1>7, <1>8, <1>9, RecordKeeps, Zenon DEF IInv

\* The barrier of publish.
LEMMA PublishFlushInv == ASSUME Inv, PublishFlush PROVE Inv'
<1> SUFFICES ASSUME IInv PROVE IInv'
  BY Zenon DEF Inv
<1>1. Types'
  BY Zenon DEF IInv, Types, PublishFlush
<1>2. Running /\ SameRecord
  BY Zenon DEF Running, SameTail, SameRecord, Clean, Cur, Busy, Lapsing, PublishFlush
<1>3. Clean' => \A f \in Frags : ~Intact(f)' => f \in journaled
  BY Zenon DEF IInv, Guarded, Intact, Clean, PublishFlush
<1>4. Steady'
  BY Zenon DEF IInv, Steady, Clean, PublishFlush
<1>5. PutoffGuarded'
  BY Zenon DEF PutoffGuarded, Busy, PublishFlush
<1> QED
  BY <1>1, <1>2, <1>3, <1>4, <1>5, RecordKeeps, FlushKeeps, Zenon DEF IInv, PublishFlush

\* A failed barrier of publish leaves every image and the journal where they are.
LEMMA PublishFlushFailsInv == ASSUME Inv, PublishFlushFails PROVE Inv'
<1> SUFFICES ASSUME IInv PROVE IInv'
  BY Zenon DEF Inv
<1>1. Types'
  BY Zenon DEF IInv, Types, Allocs, PublishFlushFails, Fault
<1>2. Running /\ SameRecord
  BY Zenon DEF IInv, Types, Allocs, Running, SameTail, SameRecord, Clean, Cur, Busy, Lapsing,
     PublishFlushFails, Fault
<1>3. Steady'
  BY Zenon DEF IInv, Steady, Clean, PublishFlushFails, Fault
<1>4. PutoffGuarded'
  BY Zenon DEF PutoffGuarded, Busy, PublishFlushFails
<1> QED
  BY <1>1, <1>2, <1>3, <1>4, RecordKeeps, QuietKeeps, Zenon DEF IInv, PublishFlushFails

\* The successor header is written.
LEMMA CommitHeaderInv == ASSUME Inv, CommitHeader PROVE Inv'
<1> SUFFICES ASSUME IInv PROVE IInv'
  BY Zenon DEF Inv
<1>1. Types'
  BY DEF IInv, Types, Allocs, CommitHeader, Header
<1>2. Running
  BY Zenon DEF Running, SameTail, Clean, Cur, Busy, Lapsing, CommitHeader
<1>3. Aged'
  BY Zenon DEF IInv, Aged, Busy, CommitHeader
<1>4. Slotted'
  BY Zenon DEF IInv, Slotted, Cur, Busy, CommitHeader
<1>5. Steady'
  BY Zenon DEF IInv, Steady, Clean, CommitHeader
<1>6. Reads'
  BY Zenon DEF IInv, Reads, Clean, Cur, Busy, Putoff, Sealed, CommitHeader
<1>7. Pending' /\ PutoffGuarded'
  BY Zenon DEF Pending, PutoffGuarded, Busy, CommitHeader
<1> QED
  BY <1>1, <1>2, <1>3, <1>4, <1>5, <1>6, <1>7, QuietKeeps, Zenon DEF IInv, CommitHeader

\* Reached only after an error.
LEMMA CommitRefusedInv == ASSUME Inv, CommitRefused PROVE Inv'
<1> SUFFICES ASSUME IInv PROVE IInv'
  BY Zenon DEF Inv
<1>1. Types'
  BY Zenon DEF IInv, Types, Allocs, CommitRefused
<1>2. ~Clean'
  BY Zenon DEF IInv, Steady, Clean, CommitRefused
<1>3. SameRecord
  BY <1>2, Zenon DEF IInv, Types, Allocs, SameRecord, Busy, CommitRefused
<1> QED
  BY <1>1, <1>2, <1>3, RecordKeeps, FaultyHolds, Zenon DEF IInv

\* The header flip: the new root is intact on disk, and what it supersedes is in the tail.
LEMMA HeaderFlushInv == ASSUME Inv, HeaderFlush PROVE Inv'
<1> SUFFICES ASSUME IInv PROVE IInv'
  BY Zenon DEF Inv
<1>1. Clean' => Clean /\ hdr' = [seq |-> seq + 1, root |-> root, tail |-> alloc.low] /\ hdr.seq = seq /\ disk = cache
  BY Zenon DEF IInv, Steady, Clean, HeaderFlush
<1>2. alloc'.low = alloc.low /\ alloc'.freeTail = alloc.freeTail
  BY Zenon DEF HeaderFlush, Released
<1>3. Clean' => \A f \in Frags : Intact(f)'
  BY <1>1 DEF IInv, Reads, Cur, Busy, Putoff, Intact, HeaderFlush
<1>4. Types'
  <2>1. acked' \subseteq Frags \X (0 .. MaxWrites)
    BY DEF IInv, Types, HeaderFlush, Versions, Loc
  <2>2. alloc' \in Allocs
        /\ alloc'.low = alloc.low /\ alloc'.freeTail = alloc.freeTail
    BY Zenon DEF IInv, Types, Allocs, HeaderFlush, Released
  <2> QED
    BY <2>1, <2>2 DEF IInv, Types, HeaderFlush
<1>5. Aged'
  BY DEF IInv, Aged, Busy, Types, HeaderFlush, Header, None
<1>6. Slotted'
  BY Zenon DEF IInv, Slotted, Cur, Busy, Allocs, HeaderFlush, Released, Header
<1>7. Steady'
  BY DEF IInv, Steady, Clean, HeaderFlush
<1>8. Watermark'
  BY <1>1, <1>2 DEF IInv, Watermark, Types, Allocs, HeaderFlush
<1>9. Reads'
  BY Zenon DEF IInv, Reads, Clean, Cur, Busy, Putoff, Sealed, HeaderFlush
<1>10. Pending' /\ PutoffGuarded'
  BY Zenon DEF Pending, PutoffGuarded, Busy, HeaderFlush
<1>11. Images'
  <2>1. \A p \in Positions : Clean' => Right(cache.tail[p])' /\ Right(disk.tail[p])'
    <3> SUFFICES ASSUME NEW p \in Positions, Clean', NEW b, b \in {cache.tail[p], disk.tail[p]}, IsImage(b)
                 PROVE  b.target <= hdr'.seq
      BY <1>1 DEF Right, IInv, Types, Image, Blocks, IsImage, HeaderFlush
    <3> QED
      BY <1>1 DEF IInv, Images, Right
  <2> QED
    BY <2>1, Zenon DEF Images
<1>12. Guarded'
  BY <1>3, Zenon DEF Guarded
<1>13. Acked'
  <2> SUFFICES ASSUME Clean', NEW v \in acked' \ dropped'
               PROVE  \/ \E f \in Frags : hdr'.root[f].loc # 0 /\ v = <<f, hdr'.root[f].id>>
                      \/ \E p \in Positions : Keeps(cache.tail[p], v)' /\ Durably(p)' /\ Held(p)'
    BY Zenon DEF Acked, HeaderFlush
  <2>1. \A p \in Positions : Held(p) /\ Keeps(cache.tail[p], v) => Held(p)' /\ Durably(p)' /\ Keeps(cache.tail[p], v)'
    BY <1>1, <1>2 DEF Held, Durably, HeaderFlush
  <2>2. CASE v \in Versions(root)
    BY <2>2, <1>1 DEF Versions
  <2>3. CASE v \in acked \ dropped
    <3>1. CASE \E f \in Frags : hdr.root[f].loc # 0 /\ v = <<f, hdr.root[f].id>>
      <4>1. PICK f \in Frags : hdr.root[f].loc # 0 /\ v = <<f, hdr.root[f].id>>
        BY <3>1, Zenon
      <4>2. CASE root[f].loc # 0 /\ root[f].id = hdr.root[f].id
        BY <4>1, <4>2, <1>1
      <4>3. CASE \E p \in Positions : Held(p) /\ Keeps(cache.tail[p], v)
        BY <4>3, <2>1, Zenon
      <4> QED
        BY <1>1, <2>3, <4>1, <4>2, <4>3, Zenon DEF IInv, Superseded, Cur, Busy, HeaderFlush
    <3>2. CASE \E p \in Positions : Keeps(cache.tail[p], v) /\ Durably(p) /\ Held(p)
      BY <3>2, <2>1, Zenon
    <3> QED
      BY <1>1, <2>3, <3>1, <3>2, Zenon DEF IInv, Acked, HeaderFlush
  <2> QED
    BY <2>2, <2>3, Zenon DEF HeaderFlush
<1>14. Superseded'
  BY <1>1 DEF Superseded, Cur, Busy, HeaderFlush
<1> QED
  BY <1>4, <1>5, <1>6, <1>7, <1>8, <1>9, <1>10, <1>11, <1>12, <1>13, <1>14, Zenon DEF IInv

\* A failed header flush.
LEMMA HeaderFlushFailsInv == ASSUME Inv, HeaderFlushFails PROVE Inv'
<1> SUFFICES ASSUME IInv PROVE IInv'
  BY Zenon DEF Inv
<1>1. Types'
  BY Zenon DEF IInv, Types, Allocs, HeaderFlushFails, Fault
<1>2. SameRecord /\ ~Clean'
  BY Zenon DEF IInv, Types, Allocs, SameRecord, Clean, Busy, HeaderFlushFails, Fault
<1> QED
  BY <1>1, <1>2, RecordKeeps, FaultyHolds, Zenon DEF IInv

\* A direct header commit, with no overwrite uncommitted.
LEMMA ChangeWriterSetInv == ASSUME Inv, TRUE \notin WriterSetIn, ChangeWriterSet PROVE Inv'
<1> SUFFICES ASSUME IInv PROVE IInv'
  BY Zenon DEF Inv
<1>1. Types'
  BY DEF IInv, Types, ChangeWriterSet, Header
<1>2. Running
  BY Zenon DEF Running, SameTail, Clean, Cur, Busy, Lapsing, ChangeWriterSet
<1>3. Aged'
  BY Zenon DEF IInv, Types, Header, Aged, Busy, ChangeWriterSet
<1>4. Steady'
  <2>1. journaled = {}
    BY Zenon DEF ChangeWriterSet
  <2>2. prop' = [seq |-> seq + 1, root |-> hdr.root, tail |-> hdr.tail]
    BY Zenon DEF IInv, Types, Header, ChangeWriterSet
  <2> QED
    BY <2>1, <2>2, Zenon DEF IInv, Steady, Clean, ChangeWriterSet
<1>5. Slotted'
  BY DEF IInv, Header, Slotted, Cur, Busy, ChangeWriterSet
<1>6. Clean' => \A f \in Frags : ~Intact(f)' => f \in journaled
  BY Zenon DEF IInv, Guarded, Intact, Clean, ChangeWriterSet
<1>7. Reads'
  BY Zenon DEF IInv, Reads, Clean, Cur, Busy, Putoff, Sealed, ChangeWriterSet
<1>8. Pending' /\ PutoffGuarded'
  BY Zenon DEF Pending, PutoffGuarded, Busy, ChangeWriterSet
<1> QED
  BY <1>1, <1>2, <1>3, <1>4, <1>5, <1>6, <1>7, <1>8, FlushKeeps, Zenon DEF IInv, ChangeWriterSet

\* The direct header commit keeps root and watermark.
LEMMA WriterSetFlushInv == ASSUME Inv, WriterSetFlush PROVE Inv'
<1> SUFFICES ASSUME IInv PROVE IInv'
  BY Zenon DEF Inv
<1>1. Clean' => /\ Clean /\ hdr' = [seq |-> seq + 1, root |-> hdr.root, tail |-> hdr.tail] /\ hdr.seq = seq
               /\ disk = cache /\ journaled = {}
  BY Zenon DEF IInv, Steady, Clean, WriterSetFlush
<1>2. Clean' => \A f \in Frags : Intact(f)'
  BY <1>1 DEF IInv, Guarded, Intact, WriterSetFlush
<1>3. Types'
  BY DEF IInv, Types, WriterSetFlush
<1>4. Aged'
  BY DEF IInv, Aged, Busy, Types, WriterSetFlush, Header, None
<1>5. Slotted'
  BY Zenon DEF IInv, Slotted, Cur, Busy, WriterSetFlush
<1>6. Steady'
  BY DEF IInv, Steady, Clean, WriterSetFlush
<1>7. Watermark'
  BY <1>1 DEF IInv, Watermark, WriterSetFlush
<1>8. Reads'
  BY Zenon DEF IInv, Reads, Clean, Cur, Busy, Putoff, Sealed, WriterSetFlush
<1>9. Pending' /\ PutoffGuarded'
  BY Zenon DEF Pending, PutoffGuarded, Busy, WriterSetFlush
<1>10. Images'
  <2>1. \A p \in Positions : Clean' => Right(cache.tail[p])' /\ Right(disk.tail[p])'
    <3> SUFFICES ASSUME NEW p \in Positions, Clean', NEW b, b \in {cache.tail[p], disk.tail[p]}, IsImage(b)
                 PROVE  b.target <= hdr'.seq
      BY <1>1 DEF Right, IInv, Types, Image, Blocks, IsImage, WriterSetFlush
    <3> QED
      BY <1>1 DEF IInv, Images, Right
  <2> QED
    BY <2>1, Zenon DEF Images
<1>11. Guarded'
  BY <1>2, Zenon DEF Guarded
<1>12. Acked'
  BY <1>1 DEF IInv, Acked, Durably, Held, WriterSetFlush
<1>13. Superseded'
  BY <1>1 DEF IInv, Superseded, Cur, Busy, Held, WriterSetFlush
<1> QED
  BY <1>3, <1>4, <1>5, <1>6, <1>7, <1>8, <1>9, <1>10, <1>11, <1>12, <1>13, Zenon DEF IInv

\* The undo pass is flushed.
LEMMA RecoverFlushInv == ASSUME Inv, RecoverFlush PROVE Inv'
<1> SUFFICES ASSUME IInv PROVE IInv'
  BY Zenon DEF Inv
<1>1. Types'
  BY Zenon DEF IInv, Types, RecoverFlush
<1>2. Running /\ SameRecord
  BY Zenon DEF Running, SameTail, SameRecord, Clean, Cur, Busy, Lapsing, RecoverFlush
<1>3. Clean' => \A f \in Frags : ~Intact(f)' => f \in journaled
  BY Zenon DEF IInv, Slotted, Reads, Clean, Cur, Busy, Putoff, Sealed, Intact, RecoverFlush
<1>4. Steady'
  BY Zenon DEF IInv, Steady, Clean, RecoverFlush
<1>5. PutoffGuarded'
  BY Zenon DEF PutoffGuarded, Busy, RecoverFlush
<1> QED
  BY <1>1, <1>2, <1>3, <1>4, <1>5, RecordKeeps, FlushKeeps, Zenon DEF IInv, RecoverFlush

-----------------------------------------------------------------------------
(* The steps of stage_write and apply_pending: a block is overwritten in    *)
(* place behind an undo image, moved to a fresh slot, or re-chunked, and    *)
(* what was put off is written after the barrier.                           *)

\* What taking a slot for a live block does (Allocator::alloc_aligned, LiveMid).
LEMMA TakeSlotIs ==
  ASSUME Types, NEW a \in Allocs, a.free = alloc.free, a.frontier = alloc.frontier, FreshSlot \in Slots
  PROVE  /\ TakeSlot(a) \in Allocs
         /\ TakeSlot(a).low = a.low /\ TakeSlot(a).freeTail = a.freeTail /\ TakeSlot(a).deferred = a.deferred
         /\ TakeSlot(a).free = a.free \ {FreshSlot}
         /\ TakeSlot(a).frontier >= a.frontier
         /\ FreshSlot \in alloc.free \/ (FreshSlot = a.frontier /\ TakeSlot(a).frontier = a.frontier + 1)
<1>1. CASE alloc.free # {}
  <2>1. Min(alloc.free) \in alloc.free
    BY <1>1, MinExists DEF Allocs, Slots
  <2> QED
    BY <1>1, <2>1 DEF TakeSlot, FreshSlot, Allocs
<1>2. CASE alloc.free = {}
  BY <1>2, Constants DEF TakeSlot, FreshSlot, Allocs, Slots
<1> QED
  BY <1>1, <1>2, Zenon

\* What taking a position for an evicted block does (Allocator::alloc_aligned, EvictionTail).
LEMMA TakeTailIs ==
  ASSUME Types, NEW a \in Allocs, a.freeTail = alloc.freeTail, a.low = alloc.low, FreshTail \in Positions
  PROVE  /\ TakeTail(a) \in Allocs
         /\ TakeTail(a).frontier = a.frontier /\ TakeTail(a).free = a.free /\ TakeTail(a).deferred = a.deferred
         /\ TakeTail(a).freeTail = a.freeTail \ {FreshTail}
         /\ \/ FreshTail \in alloc.freeTail /\ TakeTail(a).low = a.low
            \/ FreshTail = a.low + 1 /\ TakeTail(a).low = a.low + 1
<1>1. CASE alloc.freeTail # {}
  <2>1. Max(alloc.freeTail) \in alloc.freeTail
    <3>1. alloc.freeTail \in SUBSET Nat /\ \A p \in alloc.freeTail : p <= MaxTail
      BY DEF Allocs, Positions
    <3> QED
      BY <1>1, <3>1, MaxExists, Constants, Zenon
  <2> QED
    BY <1>1, <2>1, Constants, Zenon DEF TakeTail, FreshTail, Allocs
<1>2. CASE alloc.freeTail = {}
  BY <1>2 DEF TakeTail, FreshTail, Allocs, Positions
<1> QED
  BY <1>1, <1>2, Zenon

\* A step inside stage_write or stage_rechunk, seen from outside.
StageFrame ==
  /\ pc = "stage" /\ pc' = "stage"
  /\ UNCHANGED <<disk, hdr, prop, root, seq, batch, writes, fault, acked>>

\* Blocks of the tail that are in use are left alone.
KeepsTail ==
  \A p \in Positions : Held(p) => Held(p)' /\ cache'.tail[p] = cache.tail[p]

\* Copying a block to the tail disturbs no other one.
LEMMA TailStep ==
  ASSUME Types, NEW t \in Positions, t = FreshTail, NEW e \in Image, cache' \in Blocks,
         cache'.tail = [cache.tail EXCEPT ![t] = e],
         alloc'.low = TakeTail(alloc).low, alloc'.freeTail = TakeTail(alloc).freeTail
  PROVE  /\ KeepsTail
         /\ Held(t)' /\ cache'.tail[t] = e
         /\ \A p \in alloc'.freeTail : p <= alloc'.low
<1>1. alloc \in Allocs
  BY Zenon DEF Types
<1>2. /\ TakeTail(alloc).freeTail = alloc.freeTail \ {t}
      /\ \/ t \in alloc.freeTail /\ TakeTail(alloc).low = alloc.low
         \/ t = alloc.low + 1 /\ TakeTail(alloc).low = alloc.low + 1
  BY <1>1, TakeTailIs, Zenon
<1>3. alloc.low \in Int /\ alloc.freeTail \subseteq Positions /\ Positions \subseteq Int
  BY <1>1 DEF Allocs, Positions
<1>4. cache'.tail[t] = e
  BY Zenon DEF Types, Blocks
<1>5. \A p \in Positions : p # t => cache'.tail[p] = cache.tail[p]
  BY Zenon DEF Types, Blocks
<1>6. \A p \in alloc.freeTail : p <= alloc.low
  BY Zenon DEF Types
<1>7. ~Held(t)
  BY <1>2, <1>3 DEF Held
<1>8. KeepsTail
  <2> SUFFICES ASSUME NEW p \in Positions, Held(p) PROVE Held(p)' /\ cache'.tail[p] = cache.tail[p]
    BY Zenon DEF KeepsTail
  <2>1. cache'.tail[p] = cache.tail[p]
    BY <1>5, <1>7, Zenon
  <2>2. PICK low \in Int, now \in {alloc'.low} : low = alloc.low
    BY <1>3, Zenon
  <2>3. now = low \/ now = low + 1
    BY <1>2, <2>2, Zenon
  <2>4. p \in Int /\ p <= low
    BY <1>3, <2>2, Zenon DEF Held
  <2>5. p <= now
    BY <2>3, <2>4
  <2>6. p \notin alloc'.freeTail
    BY <1>2, Zenon DEF Held
  <2> QED
    BY <2>1, <2>2, <2>5, <2>6, Zenon DEF Held
<1>9. Held(t)'
  BY <1>2, <1>3, <1>6 DEF Held
<1>10. \A p \in alloc'.freeTail : p <= alloc'.low
  <2>1. PICK low \in Int : low = alloc.low
    BY <1>3, Zenon
  <2>2. PICK now : now = alloc'.low
    BY Zenon
  <2>3. now = low \/ now = low + 1
    BY <1>2, <2>1, <2>2, Zenon
  <2>4. \A p \in alloc'.freeTail : p \in alloc.freeTail /\ p \in Int
    BY <1>2, <1>3, Zenon
  <2>5. \A p \in Int : p <= low => p <= now
    BY <2>3
  <2> QED
    BY <1>6, <2>1, <2>2, <2>4, <2>5, Zenon
<1> QED
  BY <1>4, <1>8, <1>9, <1>10, Zenon

\* The block a write is about to replace is read back as its record names it.
LEMMA ReadBack ==
  ASSUME Inv, Clean, pc = "stage", NEW f \in op.todo, root[f].loc # 0
  PROVE  f \in Frags /\ cache.slot[root[f].loc] = Sealed(f, root[f])
<1> IInv
  BY Zenon DEF Inv
<1>1. f \in Frags /\ Busy /\ op.rec[f] = root[f]
  BY Zenon DEF IInv, Types, Aged, Busy
<1>2. ~Putoff(f)
  BY <1>1, Zenon DEF IInv, Pending, Putoff
<1> QED
  BY <1>1, <1>2, Zenon DEF IInv, Reads, Cur

\* Guarded survives a staging step that writes no committed slot.
LEMMA StageGuarded ==
  ASSUME Inv, StageFrame, KeepsTail, journaled \subseteq journaled',
         fault # "write" => \A f \in Frags :
           hdr.root[f].loc # 0 => cache'.slot[hdr.root[f].loc] = cache.slot[hdr.root[f].loc]
  PROVE  Guarded'
<1> IInv
  BY Zenon DEF Inv
<1> SUFFICES ASSUME Clean', NEW f \in Frags, ~Intact(f)'
             PROVE  /\ \E p \in Positions : Undoes(cache.tail[p], f)' /\ Durably(p)' /\ p <= alloc.low' /\ Held(p)'
                    /\ f \in journaled'
  BY Zenon DEF Guarded, StageFrame
<1>1. Clean /\ ~Intact(f)
  BY Zenon DEF StageFrame, Clean, Intact, Sealed
<1>2. PICK p \in Positions : Undoes(cache.tail[p], f) /\ Durably(p) /\ Held(p)
  BY <1>1, Zenon DEF IInv, Guarded, StageFrame, Lapsing
<1>3. f \in journaled'
  BY <1>1, Zenon DEF IInv, Guarded, StageFrame
<1>4. Held(p)' /\ cache'.tail[p] = cache.tail[p]
  BY <1>2, Zenon DEF KeepsTail
<1> QED
  BY <1>2, <1>3, <1>4, Zenon DEF Undoes, Durably, Held, StageFrame

\* Acked survives every staging step.
LEMMA StageAcked ==
  ASSUME Inv, StageFrame, KeepsTail, dropped \subseteq dropped'
  PROVE  Acked'
<1> IInv
  BY Zenon DEF Inv
<1> SUFFICES ASSUME Clean', NEW v \in acked' \ dropped'
             PROVE  \/ \E f \in Frags : hdr'.root[f].loc # 0 /\ v = <<f, hdr'.root[f].id>>
                    \/ \E p \in Positions : Keeps(cache.tail[p], v)' /\ Durably(p)' /\ Held(p)'
  BY Zenon DEF Acked, StageFrame
<1>1. Clean /\ v \in acked \ dropped
  BY Zenon DEF StageFrame, Clean
<1>2. CASE \E f \in Frags : hdr.root[f].loc # 0 /\ v = <<f, hdr.root[f].id>>
  BY <1>2, Zenon DEF StageFrame
<1>3. CASE \E p \in Positions : Keeps(cache.tail[p], v) /\ Durably(p) /\ Held(p)
  <2>1. PICK p \in Positions : Keeps(cache.tail[p], v) /\ Durably(p) /\ Held(p)
    BY <1>3, Zenon
  <2>2. Held(p)' /\ cache'.tail[p] = cache.tail[p]
    BY <2>1, Zenon DEF KeepsTail
  <2> QED
    BY <2>1, <2>2, Zenon DEF Keeps, Durably, StageFrame
<1> QED
  BY <1>1, <1>2, <1>3, Zenon DEF IInv, Acked, StageFrame

\* Superseded survives the staging of fragment f, when the version it replaces is in
\* the tail afterwards, or may be dropped, or was filed before.
LEMMA StageSuperseded ==
  ASSUME Inv, StageFrame, KeepsTail, dropped \subseteq dropped', NEW f \in op.todo,
         journaled' \subseteq journaled \cup {f},
         \A g \in Frags : g # f => op'.rec[g] = op.rec[g],
         \/ f \in journaled \/ root[f].loc = 0 \/ <<f, root[f].id>> \in dropped'
         \/ Clean => \E p \in Positions : Held(p)' /\ Keeps(cache'.tail[p], <<f, root[f].id>>)
  PROVE  Superseded'
<1> IInv
  BY Zenon DEF Inv
<1> SUFFICES ASSUME Clean', NEW g \in Frags, NEW v, v = <<g, hdr.root[g].id>>,
                    hdr.root[g].loc # 0, v \notin dropped'
             PROVE  \/ g \notin journaled' /\ Cur'[g].loc # 0 /\ Cur'[g].id = hdr.root[g].id
                    \/ \E p \in Positions : Held(p)' /\ Keeps(cache'.tail[p], v)
  BY Zenon DEF Superseded, StageFrame
<1>1. Clean /\ pc # "closed" /\ v \notin dropped /\ Cur = op.rec /\ Cur' = op'.rec
  BY Zenon DEF StageFrame, Clean, Cur, Busy
<1>2. CASE \E p \in Positions : Held(p) /\ Keeps(cache.tail[p], v)
  BY <1>2, Zenon DEF KeepsTail
<1>3. CASE g \notin journaled /\ Cur[g].loc # 0 /\ Cur[g].id = hdr.root[g].id
  <2>1. CASE g # f
    BY <1>1, <1>3, <2>1, Zenon
  <2>2. CASE g = f
    <3>1. root[f] = Cur[f]
      BY <1>1, Zenon DEF IInv, Aged, Busy, StageFrame
    <3> QED
      BY <1>1, <1>3, <2>2, <3>1, Zenon
  <2> QED
    BY <2>1, <2>2, Zenon
<1> QED
  BY <1>1, <1>2, <1>3, Zenon DEF IInv, Superseded

\* The fragment stage_write works on is one of those still to do.
LEMMA StagingIs ==
  ASSUME Inv, NEW kind, NEW f, Staging(kind, f)
  PROVE  pc = "stage" /\ f \in op.todo /\ f \in Frags /\ op.todo \subseteq Frags
<1> IInv
  BY Zenon DEF Inv
<1>1. op.todo \in SUBSET Nat /\ op.todo \subseteq Frags
  BY Constants, Zenon DEF IInv, Types
<1> QED
  BY <1>1, MinExists, Zenon DEF Staging

\* The record under construction moves fragment f to slot s and puts off the overwrites P.
Recorded(f, s, P) ==
  /\ op'.todo = op.todo \ {f} /\ op'.pending = op.pending \cup P
  /\ op'.rec[f] = [loc |-> s, id |-> writes]
  /\ \A g \in Frags : g # f => op'.rec[g] = op.rec[g]

\* The allocator hands out the fresh slot s, and may park the slot fragment f leaves.
SlotTaken(f, s) ==
  /\ alloc'.free = alloc.free \ {s}
  /\ alloc.deferred \subseteq alloc'.deferred
  /\ alloc'.deferred \subseteq alloc.deferred \cup ({root[f].loc} \ {0})
  /\ alloc'.frontier >= alloc.frontier
  /\ s \in alloc.free \/ (s = alloc.frontier /\ alloc'.frontier = alloc.frontier + 1)

\* What every staging step does to the types, the ages and the header's bookkeeping.
LEMMA StageCommon ==
  ASSUME Inv, StageFrame, NEW f \in op.todo, NEW s \in Slots,
         NEW P \in SUBSET [slot : Slots, frag : Frags], op' = Staged(f, s, P),
         cache' \in Blocks, alloc' \in Allocs, \A p \in alloc'.freeTail : p <= alloc'.low,
         journaled' \subseteq Frags
  PROVE  Types' /\ Aged' /\ Steady' /\ Recorded(f, s, P)
<1> IInv
  BY Zenon DEF Inv
<1>1. f \in Frags /\ [loc |-> s, id |-> writes] \in Loc
  BY DEF IInv, Types, Loc, Slots
<1>2. op.rec \in [Frags -> Loc]
  BY Zenon DEF IInv, Types
<1>3. /\ op'.kind = op.kind /\ op'.todo = op.todo \ {f} /\ op'.pending = op.pending \cup P
      /\ op'.rec = [op.rec EXCEPT ![f] = [loc |-> s, id |-> writes]]
  BY Zenon DEF Staged
<1>4. /\ op'.rec[f] = [loc |-> s, id |-> writes]
      /\ \A g \in Frags : g # f => op'.rec[g] = op.rec[g]
      /\ op'.rec \in [Frags -> Loc]
  BY <1>1, <1>2, <1>3
<1>5. op' \in [kind : {"none", "write", "rechunk"}, todo : SUBSET Frags, rec : [Frags -> Loc],
               pending : SUBSET [slot : Slots, frag : Frags]]
  <2>1. op.kind \in {"none", "write", "rechunk"} /\ op.todo \subseteq Frags
        /\ op.pending \subseteq [slot : Slots, frag : Frags]
    BY Zenon DEF IInv, Types
  <2>2. op' = [kind |-> op.kind, todo |-> op.todo \ {f}, rec |-> op'.rec, pending |-> op.pending \cup P]
    BY Zenon DEF Staged
  <2> QED
    BY <1>4, <2>1, <2>2
<1>6. Types'
  BY <1>5, Zenon DEF IInv, Types, StageFrame
<1>7. Aged'
  <2>1. op'.rec[f].id = writes /\ op'.rec[f].loc # 0
    BY <1>4 DEF Slots
  <2> QED
    BY <1>3, <2>1 DEF IInv, Aged, Busy, StageFrame
<1>8. Steady'
  BY Zenon DEF IInv, Steady, Clean, StageFrame
<1> QED
  BY <1>3, <1>4, <1>6, <1>7, <1>8, Zenon DEF Recorded

\* A staging step that leaves the tail alone.
LEMMA StillTail ==
  ASSUME Inv, StageFrame, cache'.tail = cache.tail, alloc'.low = alloc.low, alloc'.freeTail = alloc.freeTail
  PROVE  KeepsTail /\ Watermark' /\ Images' /\ \A p \in alloc'.freeTail : p <= alloc'.low
<1> IInv
  BY Zenon DEF Inv
<1>1. KeepsTail
  BY Zenon DEF KeepsTail, Held
<1>2. Watermark'
  BY Zenon DEF IInv, Watermark, Clean, StageFrame
<1>3. Images'
  BY DEF IInv, Images, Right, Clean, StageFrame
<1> QED
  BY <1>1, <1>2, <1>3, Zenon DEF IInv, Types

\* A staging step that copies a block to the tail.
LEMMA PutTail ==
  ASSUME Inv, StageFrame, NEW t \in Positions, t = FreshTail, NEW e \in Image, cache' \in Blocks,
         cache'.tail = [cache.tail EXCEPT ![t] = e],
         alloc'.low = TakeTail(alloc).low, alloc'.freeTail = TakeTail(alloc).freeTail,
         Clean => Right(e)
  PROVE  /\ KeepsTail /\ Watermark' /\ Images' /\ \A p \in alloc'.freeTail : p <= alloc'.low
         /\ Held(t)' /\ cache'.tail[t] = e /\ IsImage(e)
<1> IInv
  BY Zenon DEF Inv
<1>1. /\ KeepsTail /\ Held(t)' /\ cache'.tail[t] = e
      /\ \A p \in alloc'.freeTail : p <= alloc'.low
  BY TailStep, Zenon DEF IInv
<1>2. e # Blank /\ e # Torn
  BY DEF Image, Blank, Torn
<1>3. \A p \in Positions : p # t => cache'.tail[p] = cache.tail[p]
  BY Zenon DEF IInv, Types, Blocks
<1>4. Watermark'
  <2> SUFFICES ASSUME Clean' PROVE
        /\ \A p \in Positions : disk.tail[p] # Blank => cache'.tail[p] # Blank
        /\ hdr.tail < alloc'.low => cache'.tail[hdr.tail + 1] # Blank
    BY Zenon DEF Watermark, StageFrame
  <2>0. Clean
    BY Zenon DEF Clean, StageFrame
  <2>1. \A p \in Positions : disk.tail[p] # Blank => cache'.tail[p] # Blank
    BY <2>0, <1>1, <1>2, <1>3, Zenon DEF IInv, Watermark
  <2>2. ASSUME hdr.tail < alloc'.low PROVE cache'.tail[hdr.tail + 1] # Blank
    <3>1. alloc \in Allocs
      BY Zenon DEF IInv, Types
    <3>2. \/ t \in alloc.freeTail /\ alloc'.low = alloc.low
          \/ t = alloc.low + 1 /\ alloc'.low = alloc.low + 1
      BY <3>1, TakeTailIs, Zenon DEF IInv
    <3>3. alloc.low \in Int /\ hdr.tail \in Nat /\ alloc.low <= MaxTail
      BY DEF IInv, Types, Header, Allocs
    <3>4. CASE hdr.tail < alloc.low
      <4>1. hdr.tail + 1 \in Positions /\ cache.tail[hdr.tail + 1] # Blank
        BY <2>0, <3>3, <3>4, Constants DEF IInv, Watermark, StageFrame, Positions
      <4> QED
        BY <4>1, <1>1, <1>2, <1>3, Zenon
    <3>5. CASE ~(hdr.tail < alloc.low)
      <4>1. t = hdr.tail + 1
        BY <2>2, <3>2, <3>3, <3>5
      <4> QED
        BY <4>1, <1>1, <1>2, Zenon
    <3> QED
      BY <3>4, <3>5, Zenon
  <2> QED
    BY <2>1, <2>2, Zenon
<1>5. Images'
  <2> SUFFICES ASSUME Clean', NEW p \in Positions PROVE Right(cache.tail[p])' /\ Right(disk.tail[p])'
    BY Zenon DEF Images
  <2>1. Clean /\ Right(cache.tail[p]) /\ Right(disk.tail[p])
    BY Zenon DEF IInv, Images, Clean, StageFrame
  <2>2. CASE p = t
    BY <2>1, <2>2, <1>1, Zenon DEF Right, StageFrame, Sealed
  <2>3. CASE p # t
    BY <2>1 DEF Right, StageFrame
  <2> QED
    BY <2>2, <2>3, Zenon
<1> QED
  BY <1>1, <1>2, <1>4, <1>5, Zenon DEF IsImage

\* A record that moves one fragment to a slot nobody names shares no slot.
LEMMA SameFragmentMoved ==
  ASSUME NEW f \in Frags, NEW s, NEW r, NEW q, NEW new, new[f].loc = s,
         \A g \in Frags : g # f => new[g] = r[g],
         \A g \in Frags : r[g].loc # s /\ q[g].loc # s,
         SameFragment(r, r), SameFragment(r, q)
  PROVE  SameFragment(new, new) /\ SameFragment(new, q)
BY DEF SameFragment

\* Placing fragment f in a fresh slot.
LEMMA StageFresh ==
  ASSUME Inv, StageFrame, KeepsTail, NEW f \in op.todo, NEW s \in Slots, Recorded(f, s, {}),
         cache'.slot = [cache.slot EXCEPT ![s] = [frag |-> f, id |-> writes]],
         alloc' \in Allocs, SlotTaken(f, s), journaled \subseteq journaled'
  PROVE  /\ Slotted' /\ Reads' /\ Pending' /\ PutoffGuarded'
         /\ fault # "write" => \A g \in Frags : hdr.root[g].loc # 0 => cache'.slot[hdr.root[g].loc] = cache.slot[hdr.root[g].loc]
<1> IInv
  BY Zenon DEF Inv
<1>a. /\ op'.todo = op.todo \ {f} /\ op'.pending = op.pending /\ op'.rec[f] = [loc |-> s, id |-> writes]
      /\ \A g \in Frags : g # f => op'.rec[g] = op.rec[g]
  BY Zenon DEF Recorded
<1>b. /\ alloc'.free = alloc.free \ {s}
      /\ \A x : x \in alloc'.deferred => x \in alloc.deferred \/ (x = root[f].loc /\ x # 0)
      /\ alloc'.frontier >= alloc.frontier
      /\ s \in alloc.free \/ (s = alloc.frontier /\ alloc'.frontier = alloc.frontier + 1)
  BY Zenon DEF SlotTaken
<1>1. /\ f \in Frags /\ Busy /\ Busy' /\ Cur = op.rec /\ Cur' = op'.rec
      /\ op.rec[f] = root[f] /\ op.rec \in [Frags -> Loc] /\ hdr.root \in [Frags -> Loc]
  BY Zenon DEF IInv, Types, Header, Aged, Cur, Busy, StageFrame
<1>2. s \in Int /\ s # 0 /\ alloc.frontier \in Int /\ alloc'.frontier \in Int
  BY DEF IInv, Types, Allocs, Slots
<1>3. ASSUME fault # "write"
      PROVE  /\ s \notin alloc.deferred
             /\ \A g \in Frags : Cur[g].loc # s /\ hdr.root[g].loc # s
  <2>1. /\ \A g \in Frags : /\ Cur[g].loc \notin alloc.free /\ hdr.root[g].loc \notin alloc.free
                            /\ Cur[g].loc < alloc.frontier /\ hdr.root[g].loc < alloc.frontier
        /\ \A x \in alloc.free : x \notin alloc.deferred
        /\ \A x \in alloc.deferred : x < alloc.frontier
    BY <1>3, ZenonT(30) DEF IInv, Slotted
  <2>2. ~(alloc.frontier < alloc.frontier)
    BY <1>2
  <2> QED
    BY <1>b, <2>1, <2>2, Zenon
<1>4. Slotted'
  <2> SUFFICES ASSUME fault # "write" PROVE Slotted'
    BY Zenon DEF Slotted, StageFrame
  <2>1. /\ SameFragment(Cur, Cur) /\ SameFragment(Cur, hdr.root) /\ SameFragment(hdr.root, hdr.root)
        /\ \A g \in Frags : /\ Cur[g].loc \notin alloc.free /\ Cur[g].loc \notin alloc.deferred
                            /\ hdr.root[g].loc \notin alloc.free
                            /\ Cur[g].loc < alloc.frontier /\ hdr.root[g].loc < alloc.frontier
        /\ \A x \in alloc.free : x \notin alloc.deferred /\ x < alloc.frontier
        /\ \A x \in alloc.deferred : x < alloc.frontier
    BY Zenon DEF IInv, Slotted
  <2>2. /\ Cur'[f].loc = s /\ \A g \in Frags : g # f => Cur'[g] = Cur[g]
        /\ Cur[f].loc = root[f].loc /\ hdr' = hdr
    <3>1. Cur'[f] = [loc |-> s, id |-> writes] /\ \A g \in Frags : g # f => Cur'[g] = Cur[g]
      BY <1>1, <1>a, Zenon
    <3>2. Cur[f] = root[f] /\ hdr' = hdr
      BY <1>1, Zenon DEF StageFrame
    <3> QED
      BY <3>1, <3>2
  <2>3. SameFragment(Cur', Cur') /\ SameFragment(Cur', hdr.root)
    BY <1>1, <1>3, <2>1, <2>2, SameFragmentMoved
  <2>4. SameFragment(Cur, Cur)' /\ SameFragment(Cur, hdr.root)' /\ SameFragment(hdr.root, hdr.root)'
    BY <2>1, <2>2, <2>3, Zenon
  <2>5. ASSUME NEW g \in Frags
        PROVE  Cur'[g].loc \notin alloc'.free /\ Cur'[g].loc \notin alloc'.deferred /\ hdr.root[g].loc \notin alloc'.free
    <3>1. CASE g = f
      <4>1. s \notin alloc'.free /\ s \notin alloc'.deferred
        BY <1>1, <1>3, <1>b, <2>2, Zenon
      <4>2. hdr.root[g].loc \notin alloc'.free
        BY <1>b, <2>1, Zenon
      <4> QED
        BY <3>1, <4>1, <4>2, <2>2, Zenon
    <3>2. CASE g # f
      <4>1. Cur[g].loc = root[f].loc => Cur[g].loc = 0
        BY <3>2, <1>1, <2>1, <2>2 DEF SameFragment
      <4> QED
        BY <3>2, <4>1, <1>b, <2>1, <2>2, Zenon
    <3> QED
      BY <3>1, <3>2, Zenon
  <2>6. \A x \in Int : x < alloc.frontier => x < alloc'.frontier
    BY <1>2, <1>b
  <2>7. s < alloc'.frontier
    <3>1. s \in alloc.free => s < alloc.frontier
      BY <2>1, Zenon
    <3> QED
      BY <3>1, <1>2, <1>b
  <2>8. \A g \in Frags : Cur[g].loc \in Int /\ hdr.root[g].loc \in Int
    BY <1>1 DEF Loc
  <2>9. alloc.free \subseteq Int /\ alloc.deferred \subseteq Int
    BY DEF IInv, Types, Allocs, Slots
  <2>10. \A g \in Frags : Cur'[g].loc < alloc'.frontier /\ hdr.root[g].loc < alloc'.frontier
    BY <2>1, <2>2, <2>6, <2>7, <2>8, Zenon
  <2>11. ASSUME NEW x \in alloc'.free PROVE x \notin alloc'.deferred /\ x < alloc'.frontier
    <3>1. x \in alloc.free
      BY <1>b, Zenon
    <3>2. x # root[f].loc
      <4>1. x # Cur[f].loc
        BY <1>1, <2>1, <3>1, Zenon
      <4> QED
        BY <4>1, <2>2, Zenon
    <3> QED
      BY <1>b, <2>1, <2>6, <2>9, <3>1, <3>2, Zenon
  <2>12. ASSUME NEW x \in alloc'.deferred PROVE x < alloc'.frontier
    <3>1. x \in alloc.deferred \/ x = Cur[f].loc
      BY <1>b, <2>2, Zenon
    <3>2. x < alloc.frontier /\ x \in Int
      BY <1>1, <2>1, <2>8, <2>9, <3>1, Zenon
    <3> QED
      BY <2>6, <3>2, Zenon
  <2> QED
    BY <2>2, <2>4, <2>5, <2>10, <2>11, <2>12, Zenon DEF IInv, Slotted, StageFrame
<1>5. fault # "write" => \A g \in Frags : hdr.root[g].loc # 0 => cache'.slot[hdr.root[g].loc] = cache.slot[hdr.root[g].loc]
  BY <1>3 DEF Blocks, Slots
<1>6. Reads'
  <2> SUFFICES ASSUME Clean', NEW g \in Frags, Cur'[g].loc # 0
               PROVE  cache'.slot[Cur'[g].loc] = Sealed(g, Cur'[g]) \/ Putoff(g)'
    BY Zenon DEF Reads, Sealed
  <2>0. Clean /\ fault # "write"
    BY Zenon DEF Clean, StageFrame
  <2>1. CASE g = f
    <3>1. cache'.slot[s] = [frag |-> f, id |-> writes]
      BY ZenonT(30) DEF IInv, Types, Blocks
    <3> QED
      BY <2>1, <3>1, <1>1, <1>a DEF Sealed
  <2>2. CASE g # f
    <3>1. Cur'[g] = Cur[g] /\ Cur[g].loc # s /\ Cur[g].loc \in Slots
      BY <2>0, <2>2, <1>1, <1>3, <1>a DEF Loc, Slots
    <3>2. cache'.slot[Cur[g].loc] = cache.slot[Cur[g].loc]
      BY <3>1, Zenon DEF IInv, Types, Blocks
    <3> QED
      BY <2>0, <3>1, <1>1, <1>a DEF IInv, Reads, Putoff, StageFrame
  <2> QED
    BY <2>1, <2>2, Zenon
<1>7. Pending'
  <2> SUFFICES ASSUME Clean', NEW w \in op.pending
               PROVE  /\ w.slot = op'.rec[w.frag].loc /\ op'.rec[w.frag].id = writes
                      /\ w.frag \notin op'.todo /\ w.frag \in journaled'
    BY <1>a, Zenon DEF Pending, StageFrame
  <2>1. /\ w.slot = op.rec[w.frag].loc /\ op.rec[w.frag].id = writes
        /\ w.frag \notin op.todo /\ w.frag \in journaled /\ w.frag \in Frags
    BY <1>1, ZenonT(30) DEF IInv, Types, Pending, Clean, StageFrame
  <2> QED
    BY <2>1, <1>a, Zenon
<1>8. PutoffGuarded'
  <2> SUFFICES ASSUME Clean', NEW w \in op.pending, w.slot = hdr.root[w.frag].loc
               PROVE  \E p \in Positions : Undoes(cache.tail[p], w.frag)' /\ Held(p)'
    BY <1>a, Zenon DEF PutoffGuarded, StageFrame
  <2>1. PICK p \in Positions : Undoes(cache.tail[p], w.frag) /\ Held(p)
    BY <1>1, Zenon DEF IInv, PutoffGuarded, Clean, StageFrame
  <2> QED
    BY <2>1 DEF KeepsTail, Undoes, StageFrame
<1> QED
  BY <1>4, <1>5, <1>6, <1>7, <1>8, Zenon

\* The image evict_block writes is an EvictedBlock.
LEMMA EvictedType ==
  ASSUME Inv, NEW f \in Frags, NEW i \in 0 .. MaxSlot, NEW n \in Nat, root[f].loc # 0
  PROVE  Evicted(f, root[f], i, n) \in Image
<1> IInv
  BY Zenon DEF Inv
<1>1. root[f] \in Loc /\ root[f].loc \in Slots
  BY DEF IInv, Types, Loc, Slots
<1>2. cache.slot[root[f].loc] \in Block \cup {Blank, Torn}
  BY <1>1, Zenon DEF IInv, Types, Blocks
<1> QED
  BY <1>1, <1>2, Zenon DEF Evicted, Image, Loc

\* An overwrite put off behind its undo image.
LEMMA StageInPlaceInv == ASSUME Inv, StageInPlace PROVE Inv'
<1> SUFFICES ASSUME IInv PROVE IInv'
  BY Zenon DEF Inv
<1>1. PICK f \in Frags :
        /\ Staging("write", f)
        /\ root[f].loc # 0 /\ f \notin journaled
        /\ FreshTail \in Positions
        /\ cache' = [cache EXCEPT !.tail = [@ EXCEPT ![FreshTail] = Evicted(f, root[f], root[f].loc, seq + 1)]]
        /\ alloc' = TakeTail(alloc)
        /\ journaled' = journaled \cup {f}
        /\ op' = Staged(f, root[f].loc, {[slot |-> root[f].loc, frag |-> f]})
  BY Zenon DEF StageInPlace
<1>2. StageFrame /\ f \in op.todo /\ acked' = acked /\ dropped' = dropped
  BY <1>1, StagingIs, Zenon DEF StageInPlace, StageFrame, ghosts
<1>3. PICK l : l = root[f]
  BY Zenon
<1>4. PICK t \in Positions : t = FreshTail
  BY <1>1, Zenon
<1>5. PICK e \in Image : e = Evicted(f, l, l.loc, seq + 1)
  BY <1>1, <1>3, EvictedType DEF IInv, Types, Loc
<1>6. l \in Loc /\ l.loc \in Slots
  BY <1>1, <1>3 DEF IInv, Types, Loc, Slots
<1>7. cache'.slot = cache.slot /\ cache'.tail = [cache.tail EXCEPT ![t] = e] /\ cache' \in Blocks
  <2>1. cache' = [cache EXCEPT !.tail = [cache.tail EXCEPT ![t] = e]]
    BY <1>1, <1>3, <1>4, <1>5, Zenon
  <2> QED
    BY <2>1, Zenon DEF IInv, Types, Blocks
<1>8. /\ alloc' \in Allocs /\ alloc'.low = TakeTail(alloc).low /\ alloc'.freeTail = TakeTail(alloc).freeTail
      /\ alloc'.free = alloc.free /\ alloc'.deferred = alloc.deferred /\ alloc'.frontier = alloc.frontier
  <2>1. alloc \in Allocs
    BY Zenon DEF IInv, Types
  <2> QED
    BY <1>1, <2>1, TakeTailIs, Zenon DEF IInv
<1>9. /\ e.frag = f /\ e.id = l.id /\ e.inplace = l.loc /\ e.target = seq + 1
      /\ e.bytes = cache.slot[l.loc]
  BY <1>5, Zenon DEF Evicted
<1>10. Clean => /\ hdr.seq = seq /\ e.bytes = Sealed(f, l) /\ Intact(f)
  <2>1. Clean => hdr.seq = seq /\ Intact(f)
    BY <1>1, <1>2, Zenon DEF IInv, Steady, Guarded, StageFrame
  <2>2. Clean => e.bytes = Sealed(f, l)
    BY <1>1, <1>2, <1>3, <1>9, ReadBack, Zenon DEF StageFrame
  <2> QED
    BY <2>1, <2>2, Zenon
<1>11. Clean /\ l.loc = hdr.root[f].loc => e.bytes = Sealed(f, hdr.root[f])
  BY <1>1, <1>3, <1>9, <1>10, Zenon DEF Intact
<1>12. Busy /\ Cur = op.rec /\ op.rec[f] = l
  BY <1>2, <1>3, Zenon DEF IInv, Aged, Busy, Cur, StageFrame
<1>13. Clean => Right(e)
  <2> SUFFICES ASSUME Clean PROVE Right(e)
    BY Zenon
  <2>1. e.target <= hdr.seq + 1
    BY <1>9, <1>10 DEF IInv, Types
  <2>2. ASSUME NEW g \in Frags, e.inplace # 0, e.inplace = hdr.root[g].loc
        PROVE  e.bytes = Sealed(g, hdr.root[g])
    <3>1. g = f
      BY <2>2, <1>9, <1>12, Zenon DEF IInv, Slotted, SameFragment, Clean
    <3> QED
      BY <3>1, <2>2, <1>9, <1>11, Zenon
  <2> QED
    BY <2>1, <2>2, Zenon DEF Right
<1>14. /\ KeepsTail /\ Watermark' /\ Images' /\ \A p \in alloc'.freeTail : p <= alloc'.low
       /\ Held(t)' /\ cache'.tail[t] = e /\ IsImage(e)
  BY <1>2, <1>4, <1>7, <1>8, <1>13, PutTail, Zenon
<1>15. PICK w \in [slot : Slots, frag : Frags] : w = [slot |-> l.loc, frag |-> f]
  BY <1>6, Zenon
<1>16. /\ Types' /\ Aged' /\ Steady'
       /\ op'.todo = op.todo \ {f} /\ op'.pending = op.pending \cup {w}
       /\ op'.rec[f] = [loc |-> l.loc, id |-> writes]
       /\ \A g \in Frags : g # f => op'.rec[g] = op.rec[g]
  <2>1. op' = Staged(f, l.loc, {w})
    BY <1>1, <1>3, <1>15, Zenon
  <2>2. journaled' \subseteq Frags
    BY <1>1, ZenonT(30) DEF IInv, Types
  <2> QED
    BY <1>2, <1>6, <1>7, <1>8, <1>14, <1>15, <2>1, <2>2, StageCommon, Zenon DEF Recorded
<1>17. Slotted'
  <2>1. Busy' /\ Cur' = op'.rec
    BY <1>2, Zenon DEF Busy, Cur, StageFrame
  <2>2. \A g \in Frags : Cur'[g].loc = Cur[g].loc
    BY <2>1, <1>12, <1>16
  <2> QED
    BY <2>2, <1>2, <1>8 DEF IInv, Slotted, SameFragment, StageFrame
<1>18. Reads'
  <2> SUFFICES ASSUME Clean', NEW g \in Frags, op'.rec[g].loc # 0
               PROVE  cache.slot[op'.rec[g].loc] = Sealed(g, op'.rec[g]) \/ [slot |-> op'.rec[g].loc, frag |-> g] \in op'.pending
    BY <1>2, <1>7, Zenon DEF Reads, Sealed, Cur, Busy, Putoff, StageFrame
  <2>1. CASE g = f
    BY <2>1, <1>15, <1>16
  <2>2. CASE g # f
    BY <2>2, <1>2, <1>12, <1>16, Zenon DEF IInv, Reads, Putoff, Clean, StageFrame
  <2> QED
    BY <2>1, <2>2, Zenon
<1>19. Pending'
  <2> SUFFICES ASSUME Clean', NEW x \in op'.pending
               PROVE  /\ x.slot = op'.rec[x.frag].loc /\ op'.rec[x.frag].id = writes
                      /\ x.frag \notin op'.todo /\ x.frag \in journaled'
    BY <1>2, Zenon DEF Pending, StageFrame
  <2>1. CASE x = w
    <3>1. w.slot = l.loc /\ w.frag = f /\ f \in journaled'
      BY <1>1, <1>15, Zenon
    <3> QED
      BY <2>1, <3>1, <1>16
  <2>2. CASE x \in op.pending
    <3>1. /\ x.slot = op.rec[x.frag].loc /\ op.rec[x.frag].id = writes
          /\ x.frag \notin op.todo /\ x.frag \in journaled /\ x.frag \in Frags
      BY <2>2, <1>2, <1>12, Zenon DEF IInv, Types, Pending, Clean, StageFrame
    <3> QED
      BY <3>1, <1>1, <1>2, <1>16, Zenon
  <2> QED
    BY <2>1, <2>2, <1>16, Zenon
<1>20. Guarded'
  BY <1>1, <1>2, <1>7, <1>14, StageGuarded, Zenon
<1>21. PutoffGuarded'
  <2> SUFFICES ASSUME Clean', NEW x \in op'.pending, x.slot = hdr.root[x.frag].loc
               PROVE  \E p \in Positions : Undoes(cache.tail[p], x.frag)' /\ Held(p)'
    BY <1>2, Zenon DEF PutoffGuarded, StageFrame
  <2>0. Clean
    BY <1>2, Zenon DEF Clean, StageFrame
  <2>1. CASE x = w
    <3>1. Undoes(e, f)
      BY <2>0, <2>1, <1>9, <1>10, <1>11, <1>14, <1>15, Zenon DEF Undoes
    <3> QED
      BY <2>1, <3>1, <1>2, <1>14, <1>15, Zenon DEF Undoes, Sealed, StageFrame
  <2>2. CASE x \in op.pending
    <3>1. PICK p \in Positions : Undoes(cache.tail[p], x.frag) /\ Held(p)
      BY <2>0, <2>2, <1>12, Zenon DEF IInv, PutoffGuarded
    <3> QED
      BY <3>1, <1>2, <1>14, Zenon DEF KeepsTail, Undoes, StageFrame
  <2> QED
    BY <2>1, <2>2, <1>16, Zenon
<1>22. Acked'
  BY <1>2, <1>14, StageAcked, Zenon
<1>23. Superseded'
  <2>1. Clean => Keeps(cache'.tail[t], <<f, root[f].id>>)
    BY <1>3, <1>9, <1>10, <1>14, Zenon DEF Keeps, Sealed
  <2> QED
    BY <2>1, <1>1, <1>2, <1>14, <1>16, StageSuperseded, Zenon
<1> QED
  BY <1>14, <1>16, <1>17, <1>18, <1>19, <1>20, <1>21, <1>22, <1>23, Zenon DEF IInv

\* Fragment f goes to slot s, and position t of the tail gets its old block e as history.
Filed(f, s, t, e) ==
  /\ cache' \in Blocks /\ cache'.slot = [cache.slot EXCEPT ![s] = [frag |-> f, id |-> writes]]
  /\ cache'.tail = [cache.tail EXCEPT ![t] = e]
  /\ alloc' \in Allocs /\ alloc'.low = TakeTail(alloc).low /\ alloc'.freeTail = TakeTail(alloc).freeTail
  /\ journaled \subseteq journaled' /\ journaled' \subseteq journaled \cup {f}

\* Placing fragment f in a fresh slot, its old block filed in the tail as history.
LEMMA StageHistory ==
  ASSUME Inv, StageFrame, NEW f \in op.todo, NEW s \in Slots, op' = Staged(f, s, {}),
         NEW t \in Positions, t = FreshTail, root[f].loc # 0, NEW e \in Image, e = Evicted(f, root[f], 0, 0),
         Filed(f, s, t, e), SlotTaken(f, s), dropped' = dropped
  PROVE  Inv'
<1> SUFFICES ASSUME IInv PROVE IInv'
  BY Zenon DEF Inv
<1> /\ cache' \in Blocks /\ cache'.slot = [cache.slot EXCEPT ![s] = [frag |-> f, id |-> writes]]
    /\ cache'.tail = [cache.tail EXCEPT ![t] = e]
    /\ alloc' \in Allocs /\ alloc'.low = TakeTail(alloc).low /\ alloc'.freeTail = TakeTail(alloc).freeTail
    /\ journaled \subseteq journaled' /\ journaled' \subseteq journaled \cup {f}
  BY Zenon DEF Filed
<1>0. f \in Frags
  BY Zenon DEF IInv, Types
<1>2. /\ e.frag = f /\ e.id = root[f].id /\ e.target = 0 /\ e.bytes = cache.slot[root[f].loc]
  BY ZenonT(30) DEF Evicted
<1>3. Right(e)
  BY <1>2 DEF Right, IInv, Types, Header
<1>4. /\ KeepsTail /\ Watermark' /\ Images' /\ \A p \in alloc'.freeTail : p <= alloc'.low
      /\ Held(t)' /\ cache'.tail[t] = e /\ IsImage(e)
  BY <1>3, PutTail
<1>5. Types' /\ Aged' /\ Steady' /\ Recorded(f, s, {})
  <2>1. PICK P \in SUBSET [slot : Slots, frag : Frags] : P = {}
    BY Zenon
  <2>2. op' = Staged(f, s, P) /\ journaled' \subseteq Frags
    BY <2>1, <1>0, Zenon DEF IInv, Types
  <2>3. Types' /\ Aged' /\ Steady' /\ Recorded(f, s, P)
    BY <2>2, <1>4, StageCommon, Zenon
  <2> QED
    BY <2>1, <2>3, Zenon
<1>6. /\ Slotted' /\ Reads' /\ Pending' /\ PutoffGuarded'
      /\ fault # "write" => \A g \in Frags : hdr.root[g].loc # 0 => cache'.slot[hdr.root[g].loc] = cache.slot[hdr.root[g].loc]
  BY <1>4, <1>5, StageFresh, Zenon
<1>7. Guarded'
  BY <1>4, <1>6, StageGuarded, Zenon
<1>8. Acked'
  BY <1>4, StageAcked, Zenon
<1>9. Superseded'
  <2>1. Clean => Keeps(cache'.tail[t], <<f, root[f].id>>)
    BY <1>2, <1>4, ReadBack, Zenon DEF Keeps, Sealed, StageFrame
  <2> QED
    BY <2>1, <1>4, <1>5, StageSuperseded, Zenon DEF Recorded
<1> QED
  BY <1>4, <1>5, <1>6, <1>7, <1>8, <1>9, Zenon DEF IInv

\* Placing fragment f in a fresh slot, with nothing filed: a hole, a version already
\* filed in this transaction, or one no commit pins.
LEMMA StageBare ==
  ASSUME Inv, StageFrame, NEW f \in op.todo, NEW s \in Slots, op' = Staged(f, s, {}),
         cache' \in Blocks, cache'.slot = [cache.slot EXCEPT ![s] = [frag |-> f, id |-> writes]],
         cache'.tail = cache.tail,
         alloc' \in Allocs, SlotTaken(f, s), alloc'.low = alloc.low, alloc'.freeTail = alloc.freeTail,
         journaled' = journaled, dropped \subseteq dropped',
         f \in journaled \/ root[f].loc = 0 \/ <<f, root[f].id>> \in dropped'
  PROVE  Inv'
<1> SUFFICES ASSUME IInv PROVE IInv'
  BY Zenon DEF Inv
<1>0. f \in Frags
  BY Zenon DEF IInv, Types
<1>4. KeepsTail /\ Watermark' /\ Images' /\ \A p \in alloc'.freeTail : p <= alloc'.low
  BY StillTail, Zenon
<1>5. Types' /\ Aged' /\ Steady' /\ Recorded(f, s, {})
  <2>1. PICK P \in SUBSET [slot : Slots, frag : Frags] : P = {}
    BY Zenon
  <2>2. op' = Staged(f, s, P) /\ journaled' \subseteq Frags
    BY <2>1, <1>0, Zenon DEF IInv, Types
  <2>3. Types' /\ Aged' /\ Steady' /\ Recorded(f, s, P)
    BY <2>2, <1>4, StageCommon, Zenon
  <2> QED
    BY <2>1, <2>3, Zenon
<1>6. /\ Slotted' /\ Reads' /\ Pending' /\ PutoffGuarded'
      /\ fault # "write" => \A g \in Frags : hdr.root[g].loc # 0 => cache'.slot[hdr.root[g].loc] = cache.slot[hdr.root[g].loc]
  BY <1>4, <1>5, StageFresh, Zenon
<1>7. Guarded'
  BY <1>4, <1>6, StageGuarded, Zenon
<1>8. Acked'
  BY <1>4, StageAcked, Zenon
<1>9. Superseded'
  BY <1>4, <1>5, StageSuperseded, Zenon DEF Recorded
<1> QED
  BY <1>4, <1>5, <1>6, <1>7, <1>8, <1>9, Zenon DEF IInv

\* A fragment moved to a fresh slot, its block filed once per transaction.
LEMMA StageRelocateInv == ASSUME Inv, StageRelocate PROVE Inv'
<1> IInv
  BY Zenon DEF Inv
<1>1. PICK f \in Frags :
        /\ Staging("write", f)
        /\ FreshSlot \in Slots
        /\ op' = Staged(f, FreshSlot, {})
        /\ IF root[f].loc # 0 /\ f \notin journaled
           THEN /\ FreshTail \in Positions
                /\ cache' = [slot |-> [cache.slot EXCEPT ![FreshSlot] = [frag |-> f, id |-> writes]],
                             tail |-> [cache.tail EXCEPT ![FreshTail] = Evicted(f, root[f], 0, 0)]]
                /\ alloc' = TakeSlot(TakeTail(alloc))
                /\ journaled' = journaled \cup {f}
           ELSE /\ cache' = [cache EXCEPT !.slot = [@ EXCEPT ![FreshSlot] = [frag |-> f, id |-> writes]]]
                /\ alloc' = TakeSlot(alloc)
                /\ journaled' = journaled
  BY Zenon DEF StageRelocate
<1>2. StageFrame /\ f \in op.todo /\ acked' = acked /\ dropped' = dropped
  BY <1>1, StagingIs, Zenon DEF StageRelocate, StageFrame, ghosts
<1>3. PICK s \in Slots : s = FreshSlot
  BY <1>1, Zenon
<1>4. alloc \in Allocs /\ Types
  BY Zenon DEF IInv, Types
<1>5. CASE root[f].loc # 0 /\ f \notin journaled
  <2>1. FreshTail \in Positions
    BY <1>1, <1>5, Zenon
  <2>2. PICK e \in Image : e = Evicted(f, root[f], 0, 0)
    BY <1>5, EvictedType, Constants
  <2>3. PICK t \in Positions : t = FreshTail
    BY <2>1, Zenon
  <2>4. /\ cache' \in Blocks /\ cache'.slot = [cache.slot EXCEPT ![s] = [frag |-> f, id |-> writes]]
        /\ cache'.tail = [cache.tail EXCEPT ![t] = e]
    <3>1. cache' = [slot |-> [cache.slot EXCEPT ![s] = [frag |-> f, id |-> writes]],
                   tail |-> [cache.tail EXCEPT ![t] = e]]
      BY <1>1, <1>3, <1>5, <2>2, <2>3, Zenon
    <3>2. [frag |-> f, id |-> writes] \in Block
      BY Zenon DEF IInv, Types, Block
    <3> QED
      BY <3>1, <3>2, Zenon DEF IInv, Types, Blocks
  <2>5. alloc' = TakeSlot(TakeTail(alloc))
    BY <1>1, <1>5, Zenon
  <2>6. journaled' = journaled \cup {f}
    BY <1>1, <1>5, Zenon
  <2>7. PICK a \in Allocs : a = TakeTail(alloc)
    BY <1>4, <2>1, TakeTailIs, Zenon
  <2>8. a.free = alloc.free /\ a.frontier = alloc.frontier /\ a.deferred = alloc.deferred
    BY <1>4, <2>1, <2>7, TakeTailIs, Zenon
  <2>9. /\ alloc' \in Allocs /\ alloc'.low = TakeTail(alloc).low /\ alloc'.freeTail = TakeTail(alloc).freeTail
        /\ SlotTaken(f, s)
    <3>1. /\ alloc' \in Allocs /\ alloc'.low = a.low /\ alloc'.freeTail = a.freeTail
          /\ alloc'.deferred = a.deferred /\ alloc'.free = a.free \ {s} /\ alloc'.frontier >= a.frontier
          /\ s \in alloc.free \/ (s = a.frontier /\ alloc'.frontier = a.frontier + 1)
      BY <1>3, <1>4, <2>5, <2>7, <2>8, TakeSlotIs, Zenon
    <3>2. SlotTaken(f, s)
      BY <2>8, <3>1 DEF SlotTaken
    <3> QED
      BY <2>7, <3>1, <3>2, Zenon
  <2>10. Filed(f, s, t, e)
    BY <2>4, <2>6, <2>9, Zenon DEF Filed
  <2>11. op' = Staged(f, s, {}) /\ SlotTaken(f, s)
    BY <1>1, <1>3, <2>9, Zenon
  <2> QED
    BY <1>2, <1>5, <2>2, <2>3, <2>10, <2>11, StageHistory, Zenon
<1>6. CASE ~(root[f].loc # 0 /\ f \notin journaled)
  <2>1. /\ cache' \in Blocks /\ cache'.slot = [cache.slot EXCEPT ![s] = [frag |-> f, id |-> writes]]
        /\ cache'.tail = cache.tail
    <3>1. cache' = [cache EXCEPT !.slot = [cache.slot EXCEPT ![s] = [frag |-> f, id |-> writes]]]
      BY <1>1, <1>3, <1>6, Zenon
    <3>2. [frag |-> f, id |-> writes] \in Block
      BY Zenon DEF IInv, Types, Block
    <3> QED
      BY <3>1, <3>2, Zenon DEF IInv, Types, Blocks
  <2>2. alloc' = TakeSlot(alloc) /\ journaled' = journaled
    BY <1>1, <1>6, Zenon
  <2>3. /\ alloc' \in Allocs /\ alloc'.low = alloc.low /\ alloc'.freeTail = alloc.freeTail
        /\ SlotTaken(f, s)
    BY <1>3, <1>4, <2>2, TakeSlotIs, Zenon DEF SlotTaken
  <2> QED
    BY <1>1, <1>2, <1>3, <1>6, <2>1, <2>2, <2>3, StageBare, Zenon
<1> QED
  BY <1>5, <1>6, Zenon

\* A fragment re-chunked: filed if pinned, its slot parked if not.
LEMMA StageRechunkInv == ASSUME Inv, StageRechunk PROVE Inv'
<1> IInv
  BY Zenon DEF Inv
<1>1. PICK f \in Frags, pinned \in BOOLEAN :
        /\ Staging("rechunk", f)
        /\ pinned => root[f].loc # 0
        /\ FreshSlot \in Slots
        /\ op' = Staged(f, FreshSlot, {})
        /\ IF pinned
           THEN /\ FreshTail \in Positions
                /\ cache' = [slot |-> [cache.slot EXCEPT ![FreshSlot] = [frag |-> f, id |-> writes]],
                             tail |-> [cache.tail EXCEPT ![FreshTail] = Evicted(f, root[f], 0, 0)]]
                /\ alloc' = TakeTail([TakeSlot(alloc) EXCEPT !.deferred =
                              IF root[f].loc # 0 /\ ~pinned THEN @ \cup {root[f].loc} ELSE @])
                /\ dropped' = dropped
           ELSE /\ cache' = [cache EXCEPT !.slot = [@ EXCEPT ![FreshSlot] = [frag |-> f, id |-> writes]]]
                /\ alloc' = [TakeSlot(alloc) EXCEPT !.deferred =
                              IF root[f].loc # 0 /\ ~pinned THEN @ \cup {root[f].loc} ELSE @]
                /\ dropped' = IF root[f].loc # 0 THEN dropped \cup {<<f, root[f].id>>} ELSE dropped
  BY DEF StageRechunk
<1>2. StageFrame /\ f \in op.todo /\ acked' = acked /\ journaled' = journaled
  BY <1>1, StagingIs, Zenon DEF StageRechunk, StageFrame
<1>3. PICK s \in Slots : s = FreshSlot
  BY <1>1, Zenon
<1>4. alloc \in Allocs /\ Types
  BY Zenon DEF IInv, Types
<1>5. PICK a \in Allocs : a = TakeSlot(alloc)
  BY <1>1, <1>4, TakeSlotIs, Zenon
<1>6. /\ a.low = alloc.low /\ a.freeTail = alloc.freeTail /\ a.deferred = alloc.deferred
      /\ a.free = alloc.free \ {s} /\ a.frontier >= alloc.frontier
      /\ s \in alloc.free \/ (s = alloc.frontier /\ a.frontier = alloc.frontier + 1)
  BY <1>3, <1>4, <1>5, TakeSlotIs, Zenon
<1>7. CASE pinned
  <2>1. FreshTail \in Positions /\ root[f].loc # 0
    BY <1>1, <1>7, Zenon
  <2>2. PICK e \in Image : e = Evicted(f, root[f], 0, 0)
    BY <2>1, EvictedType, Constants
  <2>3. PICK t \in Positions : t = FreshTail
    BY <2>1, Zenon
  <2>4. /\ cache' \in Blocks /\ cache'.slot = [cache.slot EXCEPT ![s] = [frag |-> f, id |-> writes]]
        /\ cache'.tail = [cache.tail EXCEPT ![t] = e]
    <3>1. cache' = [slot |-> [cache.slot EXCEPT ![s] = [frag |-> f, id |-> writes]],
                   tail |-> [cache.tail EXCEPT ![t] = e]]
      BY <1>1, <1>3, <1>7, <2>2, <2>3, Zenon
    <3>2. [frag |-> f, id |-> writes] \in Block
      BY Zenon DEF IInv, Types, Block
    <3> QED
      BY <3>1, <3>2, Zenon DEF IInv, Types, Blocks
  <2>5. alloc' = TakeTail(a) /\ dropped' = dropped
    <3>1. alloc' = TakeTail([a EXCEPT !.deferred = a.deferred])
      BY <1>1, <1>5, <1>7, Zenon
    <3>2. [a EXCEPT !.deferred = a.deferred] = a
      BY Zenon DEF Allocs
    <3> QED
      BY <1>1, <1>7, <3>1, <3>2, Zenon
  <2>6. /\ alloc' \in Allocs /\ alloc'.free = a.free /\ alloc'.deferred = a.deferred /\ alloc'.frontier = a.frontier
        /\ alloc'.low = TakeTail(alloc).low /\ alloc'.freeTail = TakeTail(alloc).freeTail
    <3>1. /\ TakeTail(a) \in Allocs /\ TakeTail(a).frontier = a.frontier /\ TakeTail(a).free = a.free
          /\ TakeTail(a).deferred = a.deferred
      BY <1>4, <1>6, <2>1, TakeTailIs, Zenon
    <3>2. TakeTail(a).low = TakeTail(alloc).low /\ TakeTail(a).freeTail = TakeTail(alloc).freeTail
      BY <1>4, <1>6, Zenon DEF TakeTail, Allocs
    <3> QED
      BY <2>5, <3>1, <3>2, Zenon
  <2>7. SlotTaken(f, s)
    BY <1>6, <2>6 DEF SlotTaken
  <2>8. Filed(f, s, t, e)
    BY <1>2, <2>4, <2>6, Zenon DEF Filed
  <2>9. op' = Staged(f, s, {})
    BY <1>1, <1>3, Zenon
  <2> QED
    BY <1>2, <2>1, <2>2, <2>3, <2>5, <2>7, <2>8, <2>9, StageHistory, Zenon
<1>8. CASE ~pinned
  <2>1. /\ cache' \in Blocks /\ cache'.slot = [cache.slot EXCEPT ![s] = [frag |-> f, id |-> writes]]
        /\ cache'.tail = cache.tail
    <3>1. cache' = [cache EXCEPT !.slot = [cache.slot EXCEPT ![s] = [frag |-> f, id |-> writes]]]
      BY <1>1, <1>3, <1>8, Zenon
    <3>2. [frag |-> f, id |-> writes] \in Block
      BY Zenon DEF IInv, Types, Block
    <3> QED
      BY <3>1, <3>2, Zenon DEF IInv, Types, Blocks
  <2>2. /\ alloc' = [a EXCEPT !.deferred = IF root[f].loc # 0 THEN a.deferred \cup {root[f].loc} ELSE a.deferred]
        /\ dropped' = IF root[f].loc # 0 THEN dropped \cup {<<f, root[f].id>>} ELSE dropped
    BY <1>1, <1>5, <1>8, Zenon
  <2>3. root[f].loc # 0 => root[f].loc \in Slots
    BY DEF IInv, Types, Loc, Slots
  <2>4. /\ alloc' \in Allocs /\ alloc'.free = a.free /\ alloc'.frontier = a.frontier
        /\ alloc'.low = a.low /\ alloc'.freeTail = a.freeTail
        /\ a.deferred \subseteq alloc'.deferred /\ alloc'.deferred \subseteq a.deferred \cup ({root[f].loc} \ {0})
    BY <2>2, <2>3, Zenon DEF Allocs
  <2>5. dropped \subseteq dropped' /\ (root[f].loc = 0 \/ <<f, root[f].id>> \in dropped')
    BY <2>2, Zenon
  <2>6. SlotTaken(f, s) /\ alloc'.low = alloc.low /\ alloc'.freeTail = alloc.freeTail
    BY <1>6, <2>4, Zenon DEF SlotTaken
  <2> QED
    BY <1>1, <1>2, <1>3, <2>1, <2>4, <2>5, <2>6, StageBare, Zenon
<1> QED
  BY <1>7, <1>8, Zenon

\* What Apply makes of the slot of a fragment: the new block if its overwrite was put
\* off, else nothing.
LEMMA AppliedIs ==
  ASSUME Inv, Clean, Apply, NEW x \in Slots
  PROVE  \/ /\ \E w \in op.pending : w.slot = x
            /\ \E g \in Frags : /\ cache'.slot[x] = [frag |-> g, id |-> writes] /\ g \in journaled
                                /\ op.rec[g].loc = x /\ op.rec[g].id = writes
                                /\ [slot |-> x, frag |-> g] \in op.pending
         \/ ~(\E w \in op.pending : w.slot = x) /\ cache'.slot[x] = cache.slot[x]
<1> IInv
  BY Zenon DEF Inv
<1>0. op.pending \subseteq [slot : Slots, frag : Frags]
  BY Zenon DEF IInv, Types
<1>1. cache'.slot[x] = IF \E w \in op.pending : w.slot = x
                       THEN [frag |-> (CHOOSE w \in op.pending : w.slot = x).frag, id |-> writes]
                       ELSE cache.slot[x]
  BY DEF Apply
<1>2. CASE \E w \in op.pending : w.slot = x
  <2>1. PICK w \in op.pending : w.slot = x /\ w = CHOOSE v \in op.pending : v.slot = x
    BY <1>2, Zenon
  <2>2. w = [slot |-> x, frag |-> w.frag] /\ w.frag \in Frags
    BY <1>0, <2>1, Zenon
  <2>3. op.rec[w.frag].loc = x /\ op.rec[w.frag].id = writes /\ w.frag \in journaled
    BY <2>1, Zenon DEF IInv, Pending, Busy, Apply
  <2>4. cache'.slot[x] = [frag |-> w.frag, id |-> writes]
    BY <1>1, <1>2, <2>1, Zenon
  <2> QED
    BY <1>2, <2>1, <2>2, <2>3, <2>4, Zenon
<1>3. CASE ~ \E w \in op.pending : w.slot = x
  BY <1>1, <1>3, Zenon
<1> QED
  BY <1>2, <1>3, Zenon

\* The overwrites put off are done; each has a durable undo image if its slot is committed.
LEMMA ApplyInv == ASSUME Inv, Apply PROVE Inv'
<1> SUFFICES ASSUME IInv PROVE IInv'
  BY Zenon DEF Inv
<1>a. /\ op'.kind = op.kind /\ op'.todo = op.todo /\ op'.rec = op.rec /\ op'.pending = {}
      /\ op' \in [kind : {"none", "write", "rechunk"}, todo : SUBSET Frags, rec : [Frags -> Loc],
                  pending : SUBSET [slot : Slots, frag : Frags]]
  BY Zenon DEF IInv, Types, Apply
<1>b. cache'.tail = cache.tail /\ cache' \in Blocks
  <2> DEFINE new == [x \in Slots |-> IF \E w \in op.pending : w.slot = x
                       THEN [frag |-> (CHOOSE w \in op.pending : w.slot = x).frag, id |-> writes]
                       ELSE cache.slot[x]]
  <2>1. cache' = [cache EXCEPT !.slot = new]
    BY Zenon DEF Apply
  <2>2. new \in [Slots -> Block \cup {Blank, Torn}]
    <3> SUFFICES ASSUME NEW x \in Slots PROVE new[x] \in Block \cup {Blank, Torn}
      BY Zenon
    <3>1. CASE \E w \in op.pending : w.slot = x
      <4>1. PICK w \in op.pending : w = CHOOSE v \in op.pending : v.slot = x
        BY <3>1, Zenon
      <4>2. w.frag \in Frags
        BY Zenon DEF IInv, Types
      <4> QED
        BY <3>1, <4>1, <4>2, Zenon DEF Block, IInv, Types
    <3>2. CASE ~ \E w \in op.pending : w.slot = x
      BY <3>2, Zenon DEF IInv, Types, Blocks
    <3> QED
      BY <3>1, <3>2, Zenon
  <2> HIDE DEF new
  <2> QED
    BY <2>1, <2>2, Zenon DEF IInv, Types, Blocks
<1>c. /\ Busy /\ Busy' /\ Cur = op.rec /\ Cur' = op.rec /\ (Clean' => Clean)
      /\ pc = "apply" /\ pc' = "stage"
      /\ UNCHANGED <<disk, hdr, prop, root, seq, journaled, batch, alloc, writes, crashes, fault, acked, dropped>>
  BY <1>a, Zenon DEF Busy, Cur, Clean, Apply
<1>1. Types'
  BY <1>a, <1>b, <1>c, Zenon DEF IInv, Types
<1>2. Aged'
  BY <1>a, <1>c, Zenon DEF IInv, Aged
<1>3. Slotted'
  BY <1>c, Zenon DEF IInv, Slotted
<1>4. Steady'
  BY <1>c, Zenon DEF IInv, Steady, Clean
<1>5. Watermark'
  BY <1>b, <1>c, Zenon DEF IInv, Watermark
<1>6. Reads'
  <2> SUFFICES ASSUME Clean, NEW f \in Frags, op.rec[f].loc # 0
               PROVE  cache'.slot[op.rec[f].loc] = Sealed(f, op.rec[f])
    BY <1>c, Zenon DEF Reads, Sealed
  <2>1. PICK x \in Slots : x = op.rec[f].loc
    BY DEF IInv, Types, Loc, Slots
  <2>2. CASE \E w \in op.pending : w.slot = x
    <3>1. PICK g \in Frags : /\ cache'.slot[x] = [frag |-> g, id |-> writes]
                             /\ op.rec[g].loc = x /\ op.rec[g].id = writes
      BY <2>2, AppliedIs, ZenonT(30)
    <3>2. g = f
      BY <2>1, <3>1, <1>c DEF IInv, Slotted, SameFragment, Clean
    <3> QED
      BY <2>1, <3>1, <3>2, Zenon DEF Sealed
  <2>3. CASE ~ \E w \in op.pending : w.slot = x
    <3>1. cache'.slot[x] = cache.slot[x]
      BY <2>3, AppliedIs, Zenon
    <3>2. ~Putoff(f)
      BY <2>1, <2>3, Zenon DEF Putoff
    <3> QED
      BY <2>1, <3>1, <3>2, <1>c, Zenon DEF IInv, Reads
  <2> QED
    BY <2>2, <2>3, Zenon
<1>7. Pending'
  BY <1>a, ZenonT(30) DEF Pending
<1>8. Images'
  BY <1>b, <1>c DEF IInv, Images, Right
<1>9. Guarded'
  <2> SUFFICES ASSUME Clean, NEW f \in Frags, ~Intact(f)'
               PROVE  /\ \E p \in Positions : Undoes(cache.tail[p], f) /\ Durably(p) /\ Held(p)
                      /\ f \in journaled
    BY <1>b, <1>c DEF Guarded, Undoes, Durably, Held
  <2>1. PICK x \in Slots : x = hdr.root[f].loc
    BY <1>c DEF IInv, Types, Header, Loc, Slots, Intact
  <2>2. CASE \E w \in op.pending : w.slot = x
    <3>1. PICK g \in Frags : g \in journaled /\ op.rec[g].loc = x /\ [slot |-> x, frag |-> g] \in op.pending
      BY <2>2, AppliedIs, Zenon
    <3>2. g = f
      <4>1. x # 0
        BY DEF Slots
      <4> QED
        BY <2>1, <3>1, <4>1, <1>c, Zenon DEF IInv, Slotted, SameFragment, Clean
    <3>3. PICK w \in op.pending : w.slot = x /\ w.frag = f
      BY <3>1, <3>2, Zenon
    <3> QED
      BY <2>1, <3>1, <3>2, <3>3, <1>c, Zenon DEF IInv, PutoffGuarded
  <2>3. CASE ~ \E w \in op.pending : w.slot = x
    <3>1. cache'.slot[x] = cache.slot[x]
      BY <2>3, AppliedIs, Zenon
    <3>2. ~Intact(f)
      BY <2>1, <3>1, <1>c, Zenon DEF Intact, Sealed
    <3> QED
      BY <3>2, <1>c, Zenon DEF IInv, Guarded, Lapsing
  <2> QED
    BY <2>2, <2>3, Zenon
<1>10. PutoffGuarded'
  BY <1>a, Zenon DEF PutoffGuarded
<1>11. Acked'
  BY <1>b, <1>c, Zenon DEF IInv, Acked, Durably, Held
<1>12. Superseded'
  BY <1>b, <1>c, Zenon DEF IInv, Superseded, Held
<1> QED
  BY <1>1, <1>2, <1>3, <1>4, <1>5, <1>6, <1>7, <1>8, <1>9, <1>10, <1>11, <1>12, Zenon DEF IInv
=============================================================================
