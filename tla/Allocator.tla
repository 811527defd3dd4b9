----------------------------- MODULE Allocator -----------------------------
(***************************************************************************)
(* The three-region block allocator (container/alloc.rs) and the engine as *)
(* its client (version/store.rs).  Catalog nodes and records               *)
(* ("CatalogHead") and content fragments ("LiveMid") grow up from the      *)
(* start of the data region, undo and history images ("EvictionTail") grow *)
(* down from the end of the file or from the WAL region.  Addresses and    *)
(* lengths are counted in blocks.  Packed fragments share a block of       *)
(* PackUnits units.                                                        *)
(***************************************************************************)
EXTENDS Integers, FiniteSets, FiniteSetsExt, Freelist

CONSTANTS
  GrowChunk,   \* GROW_CHUNK: the file grows by at least this much
  WalSize,     \* WAL_REGION_SIZE
  PackUnits,   \* units of one packed block
  Sizes,       \* lengths of the extents the engine asks for
  FreeHeadGaps, \* whether a gap may hold blocks that free_head holds
  MaxLen,      \* bound: length of the file
  MaxOps       \* bound: operations

ASSUME AllocatorAssumption ==
  /\ GrowChunk \in Nat /\ GrowChunk > 0
  /\ WalSize \in Nat /\ WalSize > 0
  /\ PackUnits \in Nat /\ PackUnits > 1
  /\ Sizes \subseteq 1 .. MaxLen
  /\ FreeHeadGaps \in BOOLEAN
  /\ MaxLen \in Nat /\ GrowChunk <= MaxLen /\ MaxOps \in Nat

VARIABLES
  len,         \* Backend.len
  hwm,         \* Allocator.live_hwm
  low,         \* Allocator.tail_low
  wal,         \* Allocator.wal_reservation_start, 0 when None
  free,        \* Allocator.free_head, free_live, free_tail: a freelist per region
  tags,        \* Allocator.region_tags: a set of [at, region]
  floor,       \* Allocator.reclaim_floor, -1 when None
  deferred,    \* Allocator.deferred_free
  pack,        \* Allocator.open_pack
  held,        \* the extents the engine's current state names
  packed,      \* the packed payloads it names: [at, from, n]
  committed,   \* the forward extents and payloads the committed header names
  stale,       \* evicted tail images still on disk
  ops          \* operations so far

space == <<len, hwm, low, wal, free, tags>>
vars == <<len, hwm, low, wal, free, tags, floor, deferred, pack, held, packed,
          committed, stale, ops>>

Forward == {"CatalogHead", "LiveMid"}
Regions == Forward \cup {"EvictionTail"}
NoPack == [at |-> -1, used |-> 0]
NoFloor == -1

InTail(e) == e.region = "EvictionTail"
Top == IF wal = 0 THEN len ELSE wal

FreeIn(r) == Blocks(free[r])
AllFree == UNION {FreeIn(r) : r \in Regions}

\* Blocks that the engine or the committed header names, or that wait to be freed.
Live ==
  Blocks(held \cup committed.held \cup deferred)
  \cup {p.at : p \in packed \cup committed.packed}

-----------------------------------------------------------------------------
Init ==
  /\ len = GrowChunk
  /\ hwm = 0
  /\ low = GrowChunk
  /\ wal = 0
  /\ free = [r \in Regions |-> {}]
  /\ tags = {}
  /\ floor = NoFloor
  /\ deferred = {}
  /\ pack = NoPack
  /\ held = {}
  /\ packed = {}
  /\ committed = [held |-> {}, packed |-> {}]
  /\ stale = {}
  /\ ops = 0

Step == ops < MaxOps /\ ops' = ops + 1

\* Everything of the tail moves up when the file grows (grow_for's copy and
\* shift_eviction_tail_bookkeeping).
Shifted(S, by) == {IF InTail(e) THEN [e EXCEPT !.at = @ + by] ELSE e : e \in S}

\* grow_for: at least what is missing, at least the size of what must move.
Growth(n) ==
  Max({GrowChunk, len - low, IF low - hwm < n THEN n - (low - hwm) ELSE 0})

\* Mutant of Lent: the tail takes its block without asking for room.
LentNoRoom(n, r) ==
  LET fits == FirstFit(free[r], n)
      by == IF fits = {} /\ r # "EvictionTail" /\ hwm + n > low THEN Growth(n) ELSE 0
  IN IF fits # {}
     THEN [at |-> Some(fits).at, by |-> 0, hwm |-> hwm, low |-> low]
     ELSE IF r \in Forward
          THEN [at |-> hwm, by |-> by, hwm |-> hwm + n, low |-> low + by]
          ELSE [at |-> low - n, by |-> by, hwm |-> hwm, low |-> low - n]

\* alloc_aligned: first fit in the region's list, else its watermark moves, the
\* file growing first if the two watermarks would cross.
Lent(n, r) ==
  LET fits == FirstFit(free[r], n)
      by == IF fits = {} /\ hwm + n > low THEN Growth(n) ELSE 0
  IN IF fits # {}
     THEN [at |-> Some(fits).at, by |-> 0, hwm |-> hwm, low |-> low]
     ELSE IF r \in Forward
          THEN [at |-> hwm, by |-> by, hwm |-> hwm + n, low |-> low + by]
          ELSE [at |-> low + by - n, by |-> by, hwm |-> hwm, low |-> low + by - n]

\* The allocator's state once it has lent n blocks of region r.
TakeLoan(loan, n, r) ==
  LET taken == Run(loan.at, n)
      moved == [free EXCEPT !["EvictionTail"] = {[e EXCEPT !.at = @ + loan.by] : e \in @}]
      fits == FirstFit(free[r], n)
  IN /\ len + loan.by <= MaxLen
     /\ len' = len + loan.by
     /\ hwm' = loan.hwm
     /\ low' = loan.low
     /\ wal' = IF wal = 0 THEN 0 ELSE wal + loan.by
     /\ free' = IF fits = {} THEN moved
                ELSE [free EXCEPT ![r] = Removed(@, Some(fits), n)]
     /\ tags' = {t \in Shifted(tags, loan.by) : t.at # loan.at}
                \cup {[at |-> loan.at, region |-> r]}
     /\ stale' = {e \in Shifted(stale, loan.by) : BlocksOf(e) \cap taken = {}}

AllocAligned(r, n) ==
  LET loan == Lent(n, r)
  IN /\ Step
     /\ TakeLoan(loan, n, r)
     /\ held' = Shifted(held, loan.by) \cup {[at |-> loan.at, len |-> n, region |-> r]}
     /\ UNCHANGED <<floor, deferred, pack, packed, committed>>

\* alloc_packed: bump within the open block, or open a fresh one.
AllocPacked(u) ==
  /\ Step
  /\ \/ /\ pack # NoPack /\ pack.used + u <= PackUnits
        /\ packed' = packed \cup {[at |-> pack.at, from |-> pack.used, n |-> u]}
        /\ pack' = [pack EXCEPT !.used = @ + u]
        /\ UNCHANGED <<space, held, stale>>
     \/ LET loan == Lent(1, "LiveMid")
        IN /\ pack = NoPack \/ pack.used + u > PackUnits
           /\ TakeLoan(loan, 1, "LiveMid")
           /\ packed' = packed \cup {[at |-> loan.at, from |-> 0, n |-> u]}
           /\ pack' = [at |-> loan.at, used |-> u]
           /\ held' = Shifted(held, loan.by)
  /\ UNCHANGED <<floor, deferred, committed>>

\* pack_close_if_freed
PackAfter(blocks) == IF pack.at \in blocks THEN NoPack ELSE pack

\* free: routed by the tag; an untracked extent is ignored.
TagOf(e) == {t.region : t \in {x \in tags : x.at = e.at}}
FreeAll(S) ==
  LET tagged == {e \in S : TagOf(e) # {}}
  IN /\ free' = [r \in Regions |-> InsertedAll(free[r], {e \in tagged : r \in TagOf(e)})]
     /\ tags' = {t \in tags : \A e \in tagged : t.at # e.at}
     /\ pack' = PackAfter(Blocks(tagged))

\* Mutant of FreeReclaimable: every superseded node is reclaimed in a scope.
FreeReclaimableAnywhere(e) ==
  /\ Step
  /\ e \in held /\ e.region = "CatalogHead"
  /\ IF floor # NoFloor THEN FreeAll({e}) ELSE UNCHANGED <<free, tags, pack>>
  /\ held' = held \ {e}
  /\ UNCHANGED <<len, hwm, low, wal, floor, deferred, packed, committed, stale>>

\* The trie supersedes a node (free_node_cow, free_reclaimable): it is reclaimed
\* if it was allocated above the floor of an open scope.
FreeReclaimable(e) ==
  /\ Step
  /\ e \in held /\ e.region = "CatalogHead"
  /\ IF floor # NoFloor /\ e.at >= floor THEN FreeAll({e}) ELSE UNCHANGED <<free, tags, pack>>
  /\ held' = held \ {e}
  /\ UNCHANGED <<len, hwm, low, wal, floor, deferred, packed, committed, stale>>

\* stage_rechunk: a whole-block fragment waits for the commit (retire_block).
RetireBlock(e) ==
  /\ Step
  /\ e \in held /\ e.region = "LiveMid"
  /\ deferred' = deferred \cup {e}
  /\ held' = held \ {e}
  /\ UNCHANGED <<space, floor, pack, packed, committed, stale>>

\* A packed fragment is superseded: its slot is never freed on its own.
DropPacked(p) ==
  /\ Step
  /\ packed' = packed \ {p}
  /\ UNCHANGED <<space, floor, deferred, pack, held, committed, stale>>

\* evict_with_strategy frees a tail image; its bytes stay on disk.
FreeTail(e) ==
  /\ Step
  /\ e \in held /\ InTail(e)
  /\ FreeAll({e})
  /\ held' = held \ {e}
  /\ stale' = stale \cup {e}
  /\ UNCHANGED <<len, hwm, low, wal, floor, deferred, packed, committed>>

\* begin_batch, or entering the outermost transaction.
BeginReclaimScope ==
  /\ Step
  /\ floor = NoFloor
  /\ floor' = hwm
  /\ UNCHANGED <<space, deferred, pack, held, packed, committed, stale>>

\* The scope ends, the header flips, then publish_deferred.
Publish ==
  /\ Step
  /\ committed' = [held |-> {e \in held : ~InTail(e)}, packed |-> packed]
  /\ FreeAll(deferred)
  /\ deferred' = {}
  /\ floor' = NoFloor
  /\ UNCHANGED <<len, hwm, low, wal, held, packed, stale>>

\* A failed transaction or a failed publish: abort_deferred.  The engine's state
\* stays ahead of the committed one.
AbortDeferred ==
  /\ Step
  /\ floor # NoFloor \/ deferred # {}
  /\ deferred' = {}
  /\ floor' = NoFloor
  /\ UNCHANGED <<space, pack, held, packed, committed, stale>>

\* insert_free_extent, under its precondition: a hole between live blocks.
InsertFreeExtent(at, n) ==
  /\ Step
  /\ Run(at, n) \subseteq (0 .. hwm - 1) \ Live
  /\ free' = [free EXCEPT !["LiveMid"] = Inserted(@, at, n)]
  /\ FreeHeadGaps \/ Run(at, n) \cap FreeIn("CatalogHead") = {}
  /\ pack' = PackAfter(Run(at, n))
  /\ UNCHANGED <<len, hwm, low, wal, tags, floor, deferred, held, packed, committed, stale>>

\* enable_wal: the file grows by the region, which caps the tail.
SetWalReservation ==
  /\ Step
  /\ wal = 0
  /\ len + WalSize <= MaxLen
  /\ wal' = len
  /\ len' = len + WalSize
  /\ low' = Min({low, wal'})
  /\ UNCHANGED <<hwm, free, tags, floor, deferred, pack, held, packed, committed, stale>>

\* A new session (rebuild_allocator): the frontier is the end of what the
\* header names, the tail what a scan finds; the freelists start empty.
Reopen ==
  LET tail == {e \in held : InTail(e)} \cup stale
      used == Blocks(committed.held) \cup {p.at : p \in committed.packed}
  IN /\ Step
     /\ hwm' = Max({0} \cup {b + 1 : b \in used})
     /\ low' = Min({Top} \cup {e.at : e \in tail})
     /\ free' = [r \in Regions |-> {}]
     /\ tags' = {[at |-> e.at, region |-> e.region] : e \in tail}
     /\ floor' = NoFloor
     /\ deferred' = {}
     /\ pack' = NoPack
     /\ held' = committed.held \cup tail
     /\ packed' = committed.packed
     /\ stale' = {}
     /\ UNCHANGED <<len, wal, committed>>

Next ==
  \/ \E r \in Regions, n \in Sizes : AllocAligned(r, n)
  \/ \E u \in 1 .. PackUnits - 1 : AllocPacked(u)
  \/ \E e \in held : FreeReclaimable(e) \/ RetireBlock(e) \/ FreeTail(e)
  \/ \E p \in packed : DropPacked(p)
  \/ BeginReclaimScope
  \/ Publish
  \/ AbortDeferred
  \/ \E at \in 0 .. hwm - 1, n \in Sizes : InsertFreeExtent(at, n)
  \/ SetWalReservation
  \/ Reopen

Spec == Init /\ [][Next]_vars

-----------------------------------------------------------------------------
Extent == [at : 0 .. MaxLen - 1, len : Sizes, region : Regions]
Payload == [at : 0 .. MaxLen - 1, from : 0 .. PackUnits - 1, n : 1 .. PackUnits - 1]

\* The shape of the state.
TypeOK ==
  /\ len \in 0 .. MaxLen /\ hwm \in 0 .. MaxLen /\ low \in 0 .. MaxLen
  /\ wal \in 0 .. MaxLen
  /\ \A r \in Regions : free[r] \subseteq [at : 0 .. MaxLen - 1, len : 1 .. MaxLen]
  /\ tags \subseteq [at : 0 .. MaxLen - 1, region : Regions]
  /\ floor \in {NoFloor} \cup 0 .. MaxLen
  /\ held \cup deferred \cup committed.held \cup stale \subseteq Extent
  /\ packed \cup committed.packed \subseteq Payload
  /\ pack = NoPack \/ pack \in [at : 0 .. MaxLen - 1, used : 1 .. PackUnits]

\* Every freelist stays coalesced, and first fit finds a free run of the wanted
\* length, the lowest, whenever the region has one (Freelist::insert merges with
\* both neighbours), through any sequence of frees, splits, gaps and moves.
FreelistExact ==
  \A r \in Regions :
    /\ IsCoalesced(free[r])
    /\ \A n \in Sizes : FindsLowestRun(free[r], n)

\* The regions never cross: forward extents and free blocks end at the frontier,
\* the tail lies between its low watermark and the WAL region, also after the
\* file has grown under a tail and a WAL region that had to move (grow_for).
RegionsApart ==
  /\ hwm <= low /\ low <= Top /\ Top <= len
  /\ \A e \in held : IF InTail(e) THEN BlocksOf(e) \subseteq low .. Top - 1
                                  ELSE BlocksOf(e) \subseteq 0 .. hwm - 1
  /\ FreeIn("EvictionTail") \subseteq low .. Top - 1
  /\ \A r \in Forward : FreeIn(r) \subseteq 0 .. hwm - 1

\* A block has one owner: extents the engine names never overlap each other, a
\* packed block or a free block, and no block is free in two regions, whatever
\* the order of allocations, frees, commits and reopenings.
OwnedOnce ==
    /\ \A e, f \in held : e # f => BlocksOf(e) \cap BlocksOf(f) = {}
    /\ \A e \in held : BlocksOf(e) \cap AllFree = {}
    /\ \A p \in packed : \A e \in held : p.at \notin BlocksOf(e)
    /\ \A r, s \in Regions : r # s => FreeIn(r) \cap FreeIn(s) = {}

\* What the committed header names is not free and has been lent to nobody else,
\* so an uncommitted change that is lost leaves it intact: reclaiming in a scope
\* and releasing retired fragments never reach below the last commit.
CommittedIntact ==
    /\ \A e \in committed.held :
         /\ BlocksOf(e) \cap AllFree = {}
         /\ \A f \in held : e = f \/ BlocksOf(e) \cap BlocksOf(f) = {}
         /\ \A p \in packed : p.at \notin BlocksOf(e)
    /\ \A p \in committed.packed :
         /\ p.at \notin AllFree
         /\ \A f \in held : p.at \notin BlocksOf(f)

\* The block that packing continues in is free in no region and belongs to no
\* whole-block extent, and no payload lies where the next one will go
\* (pack_close_if_freed).
PackIsPrivate ==
  pack # NoPack =>
    /\ pack.at \notin AllFree
    /\ \A e \in held \cup committed.held : pack.at \notin BlocksOf(e)
    /\ \A p \in packed \cup committed.packed : p.at = pack.at => p.from + p.n <= pack.used

\* Nothing is lent twice: regions, extents and the block being packed stay apart.
LentOnce == TypeOK /\ RegionsApart /\ OwnedOnce /\ PackIsPrivate
=============================================================================
