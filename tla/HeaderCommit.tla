--------------------------- MODULE HeaderCommit ---------------------------
(***************************************************************************)
(* The double-buffered container header (container/header.rs) and the      *)
(* publish protocol that drives it (Engine::publish in version/store.rs).  *)
(*                                                                         *)
(* The container starts with two header slots.  publish() makes every      *)
(* staged block durable with one flush, writes the next header into the    *)
(* inactive slot and flushes again.  Between two flushes the operating     *)
(* system may write dirty pages back in any order, a page may be torn by   *)
(* a power failure, and each flush may return an error.                    *)
(*                                                                         *)
(* A header is abstracted to what selection looks at (commit_seq), the     *)
(* catalog roots it names, and the root key its MAC was made with.  Every  *)
(* staged change of the copy-on-write catalogs yields a fresh root, so a   *)
(* root is a number that only grows.                                       *)
(***************************************************************************)
EXTENDS Integers

CONSTANTS
  MaxRoot,    \* bound on the number of staged catalog roots
  MaxKey,     \* bound on the number of root-key rotations
  MaxCrash    \* bound on the number of power failures

ASSUME BoundsAssumption == MaxRoot \in Nat /\ MaxKey \in Nat /\ MaxCrash \in Nat

VARIABLES
  cache,      \* slots as read_at sees them (page cache)
  disk,       \* slots as they are on stable storage
  header,     \* Engine.header: from the last publish or open that returned Ok;
              \* kept while the container is closed to say what was promised
  roots,      \* in-memory catalog roots (key_catalog / id_catalog)
  key,        \* Engine.root_key
  synced,     \* newest root all of whose blocks are known to be durable
  pc,         \* where the engine is inside publish / commit
  crashes     \* number of power failures so far

vars == <<cache, disk, header, roots, key, synced, pc, crashes>>

Slots == {0, 1}

\* A slot whose CRC does not validate: never written, or torn.
Torn == [seq |-> -1, roots |-> 0, key |-> 0]

Header == [seq : Nat, roots : Nat, key : Nat]
Valid(h) == h.seq >= 0

\* ContainerHeader::load, CRC stage: the valid slot with the highest
\* commit_seq, slot 0 on a tie.
Winner(s) == IF Valid(s[1]) /\ (~Valid(s[0]) \/ s[1].seq > s[0].seq) THEN 1 ELSE 0
Loadable(s) == Valid(s[0]) \/ Valid(s[1])

\* ContainerHeader::commit: the slot that is not the active one.
Inactive(s) == 1 - Winner(s)

-----------------------------------------------------------------------------
\* bootstrap_new_container: slot 0 holds the boot header (seq 0), slot 1 the
\* first commit; create() has returned.
Init ==
  /\ disk = [i \in Slots |-> [seq |-> i, roots |-> i, key |-> 0]]
  /\ cache = disk
  /\ header = disk[1]
  /\ roots = 1
  /\ key = 0
  /\ synced = 1
  /\ pc = "idle"
  /\ crashes = 0

\* Any mutation: new blocks and copy-on-write catalog nodes are written, the
\* in-memory roots advance, the header does not.
Stage ==
  /\ pc = "idle"
  /\ roots < MaxRoot
  /\ roots' = roots + 1
  /\ UNCHANGED <<cache, disk, header, key, synced, pc, crashes>>

\* rekey_core: both catalogs are rebuilt under a new root key and swapped in
\* together with it.
StageRekey ==
  /\ pc = "idle"
  /\ roots < MaxRoot /\ key < MaxKey
  /\ roots' = roots + 1
  /\ key' = key + 1
  /\ UNCHANGED <<cache, disk, header, synced, pc, crashes>>

\* Mutant of PublishFlush: the barrier is forgotten.
PublishNoBarrier ==
  /\ pc = "idle"
  /\ pc' = "flushed"
  /\ UNCHANGED <<cache, disk, header, roots, key, synced, crashes>>

\* publish: the flush barrier before the header is touched.
PublishFlush ==
  /\ pc = "idle"
  /\ disk' = cache
  /\ synced' = roots
  /\ pc' = "flushed"
  /\ UNCHANGED <<cache, header, roots, key, crashes>>

NextHeader == [seq |-> header.seq + 1, roots |-> roots, key |-> key]

\* Mutant of CommitWrite: the strict commit_seq check is missing.
CommitUnchecked ==
  /\ pc = "flushed"
  /\ Loadable(cache)
  /\ cache' = [cache EXCEPT ![Inactive(cache)] = NextHeader]
  /\ pc' = "written"
  /\ UNCHANGED <<disk, header, roots, key, synced, crashes>>

\* ContainerHeader::commit: write the next header into the inactive slot.
CommitWrite ==
  /\ pc = "flushed"
  /\ Loadable(cache)
  /\ NextHeader.seq = cache[Winner(cache)].seq + 1
  /\ cache' = [cache EXCEPT ![Inactive(cache)] = NextHeader]
  /\ pc' = "written"
  /\ UNCHANGED <<disk, header, roots, key, synced, crashes>>

\* ContainerHeader::commit: the strict commit_seq check fails; publish returns
\* the error and the engine stays as it is.
CommitRefused ==
  /\ pc = "flushed"
  /\ ~ (Loadable(cache) /\ NextHeader.seq = cache[Winner(cache)].seq + 1)
  /\ pc' = "idle"
  /\ UNCHANGED <<cache, disk, header, roots, key, synced, crashes>>

\* ContainerHeader::commit: the second flush succeeds and publish installs
\* the header in memory.
CommitFlush ==
  /\ pc = "written"
  /\ disk' = cache
  /\ header' = NextHeader
  /\ pc' = "idle"
  /\ UNCHANGED <<cache, roots, key, synced, crashes>>

\* ContainerHeader::commit: the second flush returns an error.  publish gives
\* up, the header in memory is not advanced, the dirty page stays dirty.  (An
\* error of the first flush changes nothing.)
FlushFails ==
  /\ pc = "written"
  /\ pc' = "idle"
  /\ UNCHANGED <<cache, disk, header, roots, key, synced, crashes>>

\* The operating system writes a dirty header page back on its own.
WriteBack(i) ==
  /\ cache[i] # disk[i]
  /\ disk' = [disk EXCEPT ![i] = cache[i]]
  /\ UNCHANGED <<cache, header, roots, key, synced, pc, crashes>>

\* Power failure: every dirty slot keeps its old image, has its new one, or
\* is torn.
Crash ==
  /\ pc # "closed"
  /\ crashes < MaxCrash
  /\ \E d \in [Slots -> {"old", "new", "torn"}] :
       disk' = [i \in Slots |->
                  IF cache[i] = disk[i] \/ d[i] = "old" THEN disk[i]
                  ELSE IF d[i] = "new" THEN cache[i] ELSE Torn]
  /\ cache' = disk'
  /\ pc' = "closed"
  /\ crashes' = crashes + 1
  /\ UNCHANGED <<header, roots, key, synced>>

\* Mutant of Open: load falls back to any valid slot whose MAC matches k.
OpenFallback(k) ==
  /\ pc = "closed"
  /\ \E i \in Slots :
       /\ Valid(cache[i]) /\ cache[i].key = k
       /\ header' = cache[i]
  /\ roots' = header'.roots
  /\ key' = k
  /\ synced' = header'.roots
  /\ pc' = "idle"
  /\ UNCHANGED <<cache, disk, crashes>>

\* finish_open with root key k: load picks the slot by CRC and commit_seq and
\* then requires the winner's MAC under k; the catalogs start at its roots.
Open(k) ==
  /\ pc = "closed"
  /\ Loadable(cache)
  /\ cache[Winner(cache)].key = k
  /\ header' = cache[Winner(cache)]
  /\ roots' = header'.roots
  /\ key' = k
  /\ synced' = header'.roots
  /\ pc' = "idle"
  /\ UNCHANGED <<cache, disk, crashes>>

Next ==
  \/ Stage
  \/ StageRekey
  \/ PublishFlush
  \/ CommitWrite
  \/ CommitRefused
  \/ CommitFlush
  \/ FlushFails
  \/ \E i \in Slots : WriteBack(i)
  \/ Crash
  \/ \E k \in 0 .. MaxKey : Open(k)

Spec == Init /\ [][Next]_vars

-----------------------------------------------------------------------------
TypeOK ==
  /\ cache \in [Slots -> Header \cup {Torn}]
  /\ disk \in [Slots -> Header \cup {Torn}]
  /\ header \in Header
  /\ roots \in Nat /\ key \in Nat /\ synced \in Nat /\ crashes \in Nat
  /\ pc \in {"idle", "flushed", "written", "closed"}

\* The slot a reopen would pick.
Active(s) == s[Winner(s)]

\* The active slot is valid, never dirty, and the other one is behind it on
\* disk; only the other one can be dirty, with the successor of the active.
SlotOrder ==
  LET w == Winner(disk)
      o == 1 - w
  IN /\ Valid(disk[w])
     /\ cache[w] = disk[w]
     /\ Valid(disk[o]) => disk[o].seq < disk[w].seq /\ disk[o].roots <= disk[w].roots
     /\ cache[o] # disk[o] => /\ Valid(cache[o])
                             /\ cache[o].seq = disk[w].seq + 1
                             /\ disk[w] = header

\* Stable storage is at most one commit ahead of the header in memory, and
\* nothing in the slots is newer than what the engine has staged and flushed.
HeaderLag ==
  /\ Active(disk) = header \/ Active(disk).seq = header.seq + 1
  /\ \A i \in Slots : Valid(cache[i]) =>
       /\ cache[i].roots <= synced
       /\ cache[i].seq > header.seq => cache[i].key >= header.key
                                      /\ cache[i].roots >= header.roots
  /\ pc # "closed" => header.key <= key /\ header.roots <= roots /\ synced <= roots
  /\ pc \in {"flushed", "written"} => synced = roots
  /\ pc = "written" => Active(cache) = [seq |-> header.seq + 1, roots |-> roots, key |-> key]
  /\ pc = "closed" => cache = disk

\* The inductive invariant behind the properties below.
Inv == TypeOK /\ SlotOrder /\ HeaderLag

\* A power failure at any point of publish leaves a container that opens, and
\* opens on the header last promised to a caller or on the single one in
\* flight above it (header.rs load / commit).
CommittedSurvives ==
  LET w == cache[Winner(cache)] IN
  pc = "closed" =>
    /\ Loadable(cache)
    /\ w = header \/ w.seq = header.seq + 1

\* No header that could be on stable storage names catalog roots whose blocks
\* might not be there (the barrier in Engine::publish).
NamesDurableRoots ==
  \A i \in Slots : Valid(disk[i]) => disk[i].roots <= synced

\* Opening never travels back: the header in memory only moves to a higher
\* commit_seq and one commit_seq never stands for two headers, across errors,
\* power failures, reopens and root-key rotations.
NoRollback ==
  [][header' # header => header'.seq > header.seq /\ header'.key >= header.key]_vars

\* The current header is the one a reopen of stable storage would pick; the
\* proposal is the one the page cache holds above it.
Current == Active(disk)
Proposed == IF cache = disk THEN Torn ELSE Active(cache)

Atomic == INSTANCE AtomicHeader WITH
  None <- Torn, First <- [seq |-> 1, roots |-> 1, key |-> 0],
  current <- Current, proposed <- Proposed

\* The two slots, the barriers and load together behave as one header that is
\* replaced atomically by a successor proposed before.
RefinesAtomicHeader == Atomic!Spec

-----------------------------------------------------------------------------
(* What the code does not guarantee (README, Divergences). *)

\* What the crash-safety note of ContainerHeader::commit says: a failure
\* before the second flush always leaves the old active header the winner.
UnflushedCommitInvisible ==
  pc = "closed" => cache[Winner(cache)].seq <= header.seq
=============================================================================
