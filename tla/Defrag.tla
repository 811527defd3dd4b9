------------------------------- MODULE Defrag -------------------------------
(***************************************************************************)
(* Online defragmentation (version/store.rs, defrag_inner) and what it     *)
(* takes for free space.  A committed header leads to catalog nodes, to    *)
(* the head record and fragment of every unit, to the records they         *)
(* supersede, to concurrent strains left by a conflicting import, and to   *)
(* the writer-set blob.  Defrag walks these, hands every other block below *)
(* the frontier to the allocator, and moves fragments down into the holes. *)
(*                                                                         *)
(* Every operation commits before the next starts (outside a batch); what  *)
(* a power failure does in between is the matter of InPlaceWrite.  A unit  *)
(* has one fragment, the catalogs are one node, an object fills one block  *)
(* and is known by the serial number of the write that put it there.       *)
(***************************************************************************)
EXTENDS Integers, FiniteSets, FiniteSetsExt

CONSTANTS
  Units,      \* units (files)
  MaxAddr,    \* bound: blocks of the forward regions
  MaxOps      \* bound: operations

VARIABLES
  disk,    \* serial number of the object in each block
  node,    \* header.roots: the catalogs' node
  unit,    \* the id catalog: each unit's head record and what hangs off it
  blob,    \* header.writer_set
  hwm,     \* Allocator.live_hwm: the next block of the frontier
  free,    \* Allocator.free_live
  freeHead, \* Allocator.free_head
  mixed,   \* history variable: a defrag pass ran while freeHead was not empty
  todo,    \* defrag: units still to compact; {} outside a pass
  serial,  \* objects written so far
  ops      \* operations so far

vars == <<disk, node, unit, blob, hwm, free, freeHead, mixed, todo, serial, ops>>

Addr == 1 .. MaxAddr
None == [at |-> 0, id |-> 0]
NoUnit == [rec |-> None, frag |-> None, parents |-> {}, strains |-> {}, linked |-> FALSE]
Created == {u \in Units : unit[u] # NoUnit}

-----------------------------------------------------------------------------
Init ==
  /\ disk = [a \in Addr |-> IF a = 1 THEN 1 ELSE 0]
  /\ node = [at |-> 1, id |-> 1]
  /\ unit = [u \in Units |-> NoUnit]
  /\ blob = None
  /\ hwm = 2
  /\ free = {} /\ freeHead = {}
  /\ mixed = FALSE
  /\ todo = {}
  /\ serial = 1
  /\ ops = 0

\* alloc_aligned: a fragment or blob goes to the lowest hole or to the frontier.
Hole == IF free = {} THEN hwm ELSE Min(free)
Above == IF free = {} THEN hwm + 1 ELSE hwm

\* The k-th block for records and nodes: first what free_head holds, then the
\* frontier, which is at top.
Head(k, top) ==
  IF k <= Cardinality(freeHead)
  THEN CHOOSE a \in freeHead : Cardinality({b \in freeHead : b <= a}) = k
  ELSE top + k - 1 - Cardinality(freeHead)

\* Objects of one operation: their k-th serial number.
Obj(a, k) == [at |-> a, id |-> serial + k]

\* The operation writes refs, each where it says, and commits.
Commit(refs) ==
  /\ ops < MaxOps /\ ops' = ops + 1
  /\ hwm' = Max({hwm} \cup {r.at + 1 : r \in refs})
  /\ hwm' <= MaxAddr + 1
  /\ serial' = serial + Cardinality(refs)
  /\ free' = free \ {r.at : r \in refs}
  /\ disk' = [a \in Addr |-> IF \E r \in refs : r.at = a
                             THEN (CHOOSE r \in refs : r.at = a).id ELSE disk[a]]

\* Those of refs that are records or nodes leave free_head.
TakeHead(refs) == freeHead' = freeHead \ {r.at : r \in refs}

\* create_unit and the first write, each by itself or in one transaction.  In a
\* transaction the node of the first put is reclaimed when the second replaces
\* it, if it came from the frontier (free_reclaimable).
Create(u, inTransaction) ==
  LET f == Obj(Hole, 1)
      n1 == Obj(Head(1, Above), 2)
      r == Obj(Head(2, Above), 3)
      n2 == Obj(Head(3, Above), 4)
  IN /\ todo = {}
     /\ unit[u] = NoUnit
     /\ Commit({f, n1, r, n2})
     /\ unit' = [unit EXCEPT ![u] = [NoUnit EXCEPT !.rec = r, !.frag = f, !.linked = TRUE]]
     /\ node' = n2
     /\ freeHead' = (freeHead \ {n1.at, r.at, n2.at})
                    \cup IF inTransaction /\ n1.at >= hwm THEN {n1.at} ELSE {}
     /\ UNCHANGED <<blob, mixed, todo>>

\* write: in place, or to a fresh slot; the new record's parent is the old one,
\* strains are not carried over.
Write(u, inPlace) ==
  LET x == unit[u]
      f == IF inPlace THEN Obj(x.frag.at, 1) ELSE Obj(Hole, 1)
      top == IF inPlace THEN hwm ELSE Above
      r == Obj(Head(1, top), 2)
      n == Obj(Head(2, top), 3)
  IN /\ todo = {}
     /\ x.linked
     /\ Commit({f, r, n})
     /\ unit' = [unit EXCEPT ![u] = [x EXCEPT !.rec = r, !.frag = f, !.strains = {},
                   !.parents = @ \cup {[rec |-> x.rec, frag |-> x.frag]}]]
     /\ node' = n
     /\ TakeHead({r, n})
     /\ UNCHANGED <<blob, mixed, todo>>

\* remove: the path goes, the id entry and its blocks stay.
Remove(u) ==
  LET n == Obj(Head(1, hwm), 1) IN
  /\ todo = {}
  /\ unit[u].linked
  /\ Commit({n})
  /\ unit' = [unit EXCEPT ![u].linked = FALSE]
  /\ node' = n
  /\ TakeHead({n})
  /\ UNCHANGED <<blob, mixed, todo>>

\* import_record, strain split: the peer's record is written beside the head,
\* its fragment still a hole; the head is rewritten to point at it.
ImportRecord(u) ==
  LET s == Obj(Head(1, hwm), 1)
      r == Obj(Head(2, hwm), 2)
      n == Obj(Head(3, hwm), 3)
  IN /\ todo = {}
     /\ unit[u].linked
     /\ Commit({s, r, n})
     /\ unit' = [unit EXCEPT ![u].rec = r, ![u].strains = @ \cup {[rec |-> s, frag |-> None]}]
     /\ node' = n
     /\ TakeHead({s, r, n})
     /\ UNCHANGED <<blob, mixed, todo>>

\* import_block into a strain: fragment, strain record and head are rewritten,
\* the new head's parent is the old one.
ImportBlock(u) ==
  \E s \in unit[u].strains :
    LET x == unit[u]
        f == Obj(Hole, 1)
        t == Obj(Head(1, Above), 2)
        r == Obj(Head(2, Above), 3)
        n == Obj(Head(3, Above), 4)
    IN /\ todo = {}
       /\ s.frag = None
       /\ Commit({f, t, r, n})
       /\ unit' = [unit EXCEPT ![u].rec = r,
                     ![u].parents = @ \cup {[rec |-> x.rec, frag |-> x.frag]},
                     ![u].strains = (@ \ {s}) \cup {[rec |-> t, frag |-> f]}]
       /\ node' = n
       /\ TakeHead({t, r, n})
       /\ UNCHANGED <<blob, mixed, todo>>

\* add_writer, adopt_writer_set: a new blob, named by the header alone.
StoreWriterSet ==
  /\ todo = {}
  /\ Commit({Obj(Hole, 1)})
  /\ blob' = Obj(Hole, 1)
  /\ UNCHANGED <<node, unit, freeHead, mixed, todo>>

-----------------------------------------------------------------------------
RecordBlocks(x) == {x.rec.at, x.frag.at} \cup UNION {{p.rec.at, p.frag.at} : p \in x.parents}

\* Mutant of LiveBlocks: units without a path are not walked.
LiveByPath ==
  {node.at} \cup UNION {RecordBlocks(unit[u]) : u \in {v \in Units : unit[v].linked}}

\* defrag step 1: catalog nodes, and per id entry the record chain with the
\* fragments its records locate.
LiveBlocks == {node.at} \cup UNION {RecordBlocks(unit[u]) : u \in Created}

\* defrag step 2: every other block below the frontier, those on free_head too.
Gaps == (1 .. hwm - 1) \ LiveBlocks

\* The gaps go to free_live; step 3 then visits the units that have a path.
DefragScan ==
  /\ todo = {}
  /\ \E u \in Units : unit[u].linked
  /\ ops < MaxOps /\ ops' = ops + 1
  /\ free' = free \cup Gaps
  /\ mixed' = (mixed \/ freeHead # {})
  /\ todo' = {u \in Units : unit[u].linked}
  /\ UNCHANGED <<disk, node, unit, blob, hwm, freeHead, serial>>

Movable(u) == unit[u].parents = {} /\ free # {} /\ Min(free) < unit[u].frag.at

\* defrag step 3, one unit without history: its fragment is copied to the
\* lowest hole, the relocated record committed, then the old block freed.
DefragMove(u) ==
  LET x == unit[u]
      f == [at |-> Min(free), id |-> x.frag.id]
      r == Obj(Head(1, hwm), 1)
      n == Obj(Head(2, hwm), 2)
  IN /\ u \in todo /\ Movable(u)
     /\ disk' = [disk EXCEPT ![f.at] = disk[x.frag.at], ![r.at] = r.id, ![n.at] = n.id]
     /\ unit' = [unit EXCEPT ![u].rec = r, ![u].frag = f]
     /\ node' = n
     /\ hwm' = Max({hwm, r.at + 1, n.at + 1})
     /\ hwm' <= MaxAddr + 1
     /\ serial' = serial + 2
     /\ free' = (free \ {f.at}) \cup {x.frag.at}
     /\ TakeHead({r, n})
     /\ todo' = todo \ {u}
     /\ UNCHANGED <<blob, mixed, ops>>

\* The unit has history, or nothing lower is free.
DefragSkip(u) ==
  /\ u \in todo /\ ~Movable(u)
  /\ todo' = todo \ {u}
  /\ UNCHANGED <<disk, node, unit, blob, hwm, free, freeHead, mixed, serial, ops>>

\* rebuild_allocator: above the nodes, the blob and each head with its fragment.
Frontier ==
  Max({node.at, blob.at} \cup UNION {{unit[u].rec.at, unit[u].frag.at} : u \in Units}) + 1

\* The process ends, at any commit of a defrag too, and the container is opened.
Reopen ==
  /\ ops < MaxOps /\ ops' = ops + 1
  /\ hwm' = Frontier
  /\ free' = {} /\ freeHead' = {}
  /\ todo' = {}
  /\ UNCHANGED <<disk, node, unit, blob, mixed, serial>>

Next ==
  \/ \E u \in Units, inTransaction \in BOOLEAN : Create(u, inTransaction)
  \/ \E u \in Units : Remove(u) \/ ImportRecord(u) \/ ImportBlock(u)
  \/ \E u \in Units, inPlace \in BOOLEAN : Write(u, inPlace)
  \/ StoreWriterSet
  \/ DefragScan
  \/ \E u \in Units : DefragMove(u) \/ DefragSkip(u)
  \/ Reopen

Spec == Init /\ [][Next]_vars

-----------------------------------------------------------------------------
\* The shape of the state.
TypeOK ==
  /\ disk \in [Addr -> 0 .. serial]
  /\ hwm \in 1 .. MaxAddr + 1
  /\ free \subseteq 1 .. hwm - 1
  /\ todo \subseteq Created

Holds(r) == r = None \/ disk[r.at] = r.id

HeadHolds(u) == Holds(unit[u].rec) /\ Holds(unit[u].frag)

\* The catalogs, and the head record and fragment of every unit with or without
\* a path, are where the committed header says, and none of their blocks is
\* free, during and after any number of defrag passes, writes into the holes
\* they made, and reopenings.  Until a pass runs while free_head has blocks.
HeadsIntact ==
  ~mixed =>
    /\ Holds(node)
    /\ \A u \in Created : HeadHolds(u)
    /\ \A u \in Created : {unit[u].frag.at, unit[u].rec.at} \cap (free \cup freeHead) = {}

\* So are the records a head supersedes: history() and checkout() walk them.
HistoryIntact ==
  ~mixed => \A u \in Created : \A p \in unit[u].parents : Holds(p.rec)

-----------------------------------------------------------------------------
(* What the code does not guarantee (README, Divergences). *)

\* The same whatever free_head holds when a pass runs.
HeadsAlwaysIntact == Holds(node) /\ \A u \in Created : HeadHolds(u)

\* Records and fragments of concurrent strains stay where the head says:
\* read_strain() and resolve_conflict() read them.
StrainsIntact == \A u \in Created : \A s \in unit[u].strains : Holds(s.rec) /\ Holds(s.frag)

\* So does the writer-set blob: without it no record verifies on the next open.
WriterSetIntact == Holds(blob)
=============================================================================
