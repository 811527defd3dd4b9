---------------------------- MODULE ScanRecovery ----------------------------
(***************************************************************************)
(* Recovery by scanning raw blocks (recovery.rs) and the repair around it  *)
(* (fsck.rs): every block that reads as a unit record is collected, a head *)
(* is chosen per unit, both catalogs are built again past the end of the   *)
(* file and one header commit publishes them.                              *)
(*                                                                         *)
(* A block holds one unit record, one published pair of catalogs or        *)
(* nothing.  Fragments and evicted blocks are left out.                    *)
(* A record carries the order it was written in, which the code does not   *)
(* store.                                                                  *)
(***************************************************************************)
EXTENDS Integers, FiniteSets, FiniteSetsExt, Functions, TLC

CONSTANTS
  Uuids,      \* units
  Paths,      \* their paths
  MaxAddr,    \* blocks the container may grow to
  MaxWrites   \* records written in a behaviour

VARIABLES
  disk,     \* [1..MaxAddr -> block]
  len,      \* the length of the file, in blocks
  hwm,      \* Allocator.live_hwm
  free,     \* Allocator.free_head: catalog blocks a batch superseded
  floor,    \* Allocator.reclaim_floor, 0 outside a batch
  ids,      \* the in-memory IdCatalog: unit -> address of its head record
  keys,     \* the in-memory KeyCatalog: path -> unit
  node,     \* the block of the in-memory catalogs
  root,     \* the block of the catalogs the header names, 0 when it is lost
  cipher,   \* the header's metadata cipher
  idOk, keyOk,   \* whether the published IdCatalog and KeyCatalog can be read
  pub,      \* the catalogs published last
  survived, \* whether the last repair could read the old KeyCatalog
  mode,     \* "open", "down", or "repaired"
  stamp,    \* records written so far
  tainted   \* a head was rewritten below its old place, or never published

engine == <<disk, len, hwm, free, ids, keys, node, root, pub, stamp>>
vars == <<engine, floor, cipher, idOk, keyOk, survived, mode, tainted>>

Nothing == [kind |-> "none"]
Record(u, par, pin, n) == [kind |-> "record", uuid |-> u, parent |-> par, pins |-> pin, n |-> n, c |-> cipher]
Catalogs(i, k) == [kind |-> "catalogs", ids |-> i, keys |-> k]
NoUnit == <<>>      \* the empty catalog
LostFound(u) == [lost |-> u]
Published(i, k) == [ids |-> i, keys |-> k]

---------------------------------------------------------------------------
\* The running container

\* First fit in the freed blocks, else the frontier.
Place(f, h) == IF f # {} THEN Min(f) ELSE h + 1

\* One mutation: the record, if it has one, and then the new catalogs are written
\* where the allocator puts them.  A batch hands the catalogs it supersedes back;
\* outside a batch the header follows at once.
Mutation(recs, k) ==
  LET rec == CHOOSE r \in recs : TRUE
      a == Place(free, hwm)
      f == IF recs = {} THEN free ELSE free \ {a}
      h == IF recs = {} THEN hwm ELSE Max({hwm, a})
      c == Place(f, h)
  IN
  /\ mode = "open" /\ Max({h, c}) <= MaxAddr
  /\ ids' = (IF recs = {} THEN ids ELSE (rec.uuid :> a) @@ ids)
  /\ keys' = k
  /\ disk' = [b \in 1 .. MaxAddr |->
                IF b = c THEN Catalogs(ids', keys')
                ELSE IF b = a /\ recs # {} THEN rec ELSE disk[b]]
  /\ free' = (f \ {c}) \cup (IF floor # 0 /\ node >= floor THEN {node} ELSE {})
  /\ hwm' = Max({h, c}) /\ len' = Max({len, h, c})
  /\ node' = c
  /\ stamp' = stamp + Cardinality(recs)
  /\ IF floor = 0 THEN root' = c /\ pub' = Published(ids', keys')
     ELSE UNCHANGED <<root, pub>>
  /\ UNCHANGED <<floor, cipher, idOk, keyOk, survived, mode>>

PutRecord(u, par, pin, k) ==
  /\ stamp < MaxWrites
  /\ Mutation({Record(u, par, pin, stamp + 1)}, k)

\* The head is written again with the parent it had.
Rewrite(u, pin) ==
  /\ PutRecord(u, disk[ids[u]].parent, pin, keys)
  /\ tainted' = (tainted \/ Place(free, hwm) < ids[u])

create_unit(p, u) ==
  /\ p \notin DOMAIN keys /\ u \notin DOMAIN ids
  /\ \A a \in 1 .. MaxAddr : disk[a].kind = "record" => disk[a].uuid # u
  /\ PutRecord(u, 0, FALSE, (p :> u) @@ keys)
  /\ UNCHANGED tainted

\* The new record names the one it supersedes.
write(u) ==
  /\ u \in DOMAIN ids
  /\ PutRecord(u, ids[u], disk[ids[u]].pins, keys)
  /\ UNCHANGED tainted

\* A commit writes the head again with its pins.
commit(u) == u \in DOMAIN ids /\ Rewrite(u, TRUE)

\* A unit without history and without pins gets its fragments moved; its record is
\* written again and the old one stays where it was.
defrag(u) ==
  /\ u \in DOMAIN ids /\ floor = 0
  /\ disk[ids[u]].parent = 0 /\ ~disk[ids[u]].pins
  /\ Rewrite(u, FALSE)

\* The path goes; the unit keeps its place in the IdCatalog.
remove(p) ==
  /\ p \in DOMAIN keys
  /\ Mutation({}, Restrict(keys, DOMAIN keys \ {p}))
  /\ UNCHANGED tainted

begin_batch ==
  /\ mode = "open" /\ floor = 0
  /\ floor' = hwm + 1
  /\ UNCHANGED <<engine, cipher, idOk, keyOk, survived, mode, tainted>>

commit_batch ==
  /\ mode = "open" /\ floor # 0
  /\ floor' = 0 /\ root' = node /\ pub' = Published(ids, keys)
  /\ UNCHANGED <<disk, len, hwm, free, ids, keys, node, stamp, cipher, idOk, keyOk, survived,
                 mode, tainted>>

\* The process ends, with or without a crash; what it had not published is left on
\* disk.  The medium may then lose either catalog or both header slots.
Stop(i, k, h) ==
  /\ mode = "open"
  /\ mode' = "down" /\ floor' = 0
  /\ idOk' = (i /\ h) /\ keyOk' = (k /\ h)
  /\ root' = IF h THEN root ELSE 0
  /\ tainted' = (tainted \/ pub # Published(ids, keys))
  /\ UNCHANGED <<disk, len, hwm, free, ids, keys, node, pub, stamp, cipher, survived>>

\* The frontier of an open follows the catalogs and the head records.
Frontier(i, r) == Max({0, r} \cup Range(i))

\* Engine::open of a container whose catalogs can be read.
open ==
  /\ mode = "down" /\ root # 0 /\ idOk /\ keyOk
  /\ ids' = disk[root].ids /\ keys' = disk[root].keys /\ node' = root
  /\ hwm' = Frontier(disk[root].ids, root) /\ free' = {}
  /\ mode' = "open"
  /\ UNCHANGED <<disk, len, root, pub, stamp, floor, cipher, idOk, keyOk, survived, tainted>>

---------------------------------------------------------------------------
\* scan_recover

\* A block is tried with the header's cipher, and with either when no header can be
\* read.
try_read == {a \in 1 .. len : disk[a].kind = "record" /\ (root # 0 => disk[a].c = cipher)}

\* The records the scan of [2 blocks, file_len) collects, by unit.
all_records(u) == {a \in try_read : disk[a].uuid = u}
Scanned == {disk[a].uuid : a \in try_read}

\* The cipher of the header to publish: its own, the one the first record found was
\* read with when the header was lost, and that of default_header otherwise.
detected_cipher ==
  IF root # 0 THEN cipher
  ELSE IF try_read = {} THEN "gcm" ELSE disk[Min(try_read)].c

\* Mutant of head_of: of several candidates the lowest is taken.
head_lowest(u) ==
  LET R == all_records(u)
      best == R \ {disk[a].parent : a \in R}
  IN  IF best # {} THEN Min(best) ELSE Min(R)

\* The head: a record no record of the unit names as its parent, the highest of
\* several, and the highest of all when there is none.
head_of(u) ==
  LET R == all_records(u)
      best == R \ {disk[a].parent : a \in R}
  IN  IF best # {} THEN Max(best) ELSE Max(R)

heads == [u \in Scanned |-> head_of(u)]

\* The paths of the old KeyCatalog, when it can be read and the unit was found.
surviving ==
  IF root = 0 \/ ~keyOk THEN NoUnit
  ELSE Restrict(disk[root].keys, {p \in DOMAIN disk[root].keys : disk[root].keys[p] \in Scanned})

\* Every other unit found is linked under lost+found.
relinked == [q \in {LostFound(u) : u \in Scanned \ Range(surviving)} |-> q.lost]

\* The catalogs go past the end of the file, then the header names them.  With
\* nothing found and a header to keep, nothing is published.
rebuild_and_publish ==
  /\ len < MaxAddr
  /\ IF Scanned = {} /\ root # 0
     THEN UNCHANGED <<disk, len, hwm, ids, keys, node, root, cipher, idOk, keyOk>>
     ELSE /\ ids' = heads /\ keys' = relinked @@ surviving
          /\ disk' = [disk EXCEPT ![len + 1] = Catalogs(ids', keys')]
          /\ len' = len + 1 /\ hwm' = len + 1 /\ root' = len + 1 /\ node' = len + 1
          /\ idOk' = TRUE /\ keyOk' = TRUE
          /\ cipher' = detected_cipher

\* fsck::repair: nothing is touched unless the backup was written, then the scan
\* runs and the container is opened and checked again.
repair(backup) ==
  /\ mode = "down"
  /\ backup
  /\ rebuild_and_publish
  /\ survived' = (root # 0 /\ keyOk)
  /\ free' = {} /\ mode' = "repaired"
  /\ UNCHANGED <<pub, stamp, floor, tainted>>

\* Work goes on in the repaired container.
Resume ==
  /\ mode = "repaired" /\ root # 0 /\ idOk /\ keyOk
  /\ mode' = "open" /\ pub' = Published(ids, keys)
  /\ hwm' = Frontier(ids, root)
  /\ UNCHANGED <<disk, len, free, ids, keys, node, root, stamp, floor, cipher, idOk, keyOk, survived,
                 tainted>>

---------------------------------------------------------------------------
Init ==
  /\ disk = [a \in 1 .. MaxAddr |-> IF a = 1 THEN Catalogs(NoUnit, NoUnit) ELSE Nothing]
  /\ len = 1 /\ hwm = 1 /\ free = {} /\ floor = 0
  /\ ids = NoUnit /\ keys = NoUnit /\ pub = Published(NoUnit, NoUnit)
  /\ node = 1 /\ root = 1 /\ idOk = TRUE /\ keyOk = TRUE
  /\ cipher \in {"gcm", "none"}
  /\ survived = TRUE /\ mode = "open" /\ stamp = 0 /\ tainted = FALSE

Next ==
  \/ \E u \in Uuids : write(u) \/ commit(u) \/ defrag(u) \/ \E p \in Paths : create_unit(p, u)
  \/ \E p \in Paths : remove(p)
  \/ begin_batch \/ commit_batch
  \/ \E i, k, h \in BOOLEAN : Stop(i, k, h)
  \/ open \/ Resume
  \/ \E b \in BOOLEAN : repair(b)

Spec == Init /\ [][Next]_vars

---------------------------------------------------------------------------
\* Properties

\* fsck::check of a container: every path resolves to a readable head record.
check ==
  \A p \in DOMAIN keys : /\ keys[p] \in DOMAIN ids
                         /\ disk[ids[keys[p]]].kind = "record"
                         /\ disk[ids[keys[p]]].uuid = keys[p]
                         /\ disk[ids[keys[p]]].c = cipher

\* Whatever was lost, a repaired container passes the check, every unit that was
\* published can be reached by a path, by its own when the KeyCatalog survived, and
\* the record it is reached at is its own (rebuild_and_publish, fsck::repair).
AllUnitsBack ==
  mode = "repaired" =>
    /\ check
    /\ \A p \in DOMAIN pub.keys :
         LET u == pub.keys[p] IN
         /\ u \in DOMAIN ids
         /\ \E q \in DOMAIN keys : keys[q] = u /\ (survived => q = p)

\* Unless a commit or a defragmentation wrote a head again below its old place, or a
\* crash left an unpublished record behind, the head chosen
\* is not older than the one that was published (recovery.rs: the record no other
\* names as its parent, the higher of two, "written later -> newer").
HeadNotOlder ==
  mode = "repaired" /\ ~tainted =>
    \A u \in DOMAIN pub.ids : disk[ids[u]].n >= disk[pub.ids[u]].n
============================================================================
