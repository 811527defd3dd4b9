----------------------------- MODULE MCStorage ------------------------------
(***************************************************************************)
(* Instances for model checking: the header commit, the other parts of the *)
(* storage engine, and the document layer above them.  A behaviour belongs *)
(* to one of them.                                                         *)
(***************************************************************************)
EXTENDS HeaderCommit, TLC

CONSTANTS
  Absent,     \* no entry in a catalog
  id1, id2, p \* units and a path of the recovery scan

\* commit_seq also advances by publishes that stage nothing; bound them.
SeqBound == header.seq <= MaxRoot + MaxCrash

\* Asynchronous writes that meet each other only by replacing one another.
AlignedAsync == {<<0, 1>>, <<1, 2>>}
DisjointSync == {<<3, 1>>}

\* Keys that are prefixes of each other, and keys that part below a shared one.
TrieKeys == {<<1>>, <<1, 1, 2>>, <<1, 2>>}

\* Records of one and of two properties, with a value no packed slot holds.
Inputs == {1 :> 0, (1 :> -1 @@ 2 :> 0), 2 :> -2}

VARIABLES
  part, log_region, log_platter, log_hdr, log_prop, log_head, log_wal,
  log_overlay, log_pending, log_batch, log_op, log_pc, log_writes,
  log_crashes, log_fault, log_log, tail_cache, tail_disk, tail_len,
  tail_hdr, tail_hwm, tail_low, tail_wal, tail_cursor, tail_grown, tail_pc,
  tail_writes, tail_crashes, tail_placed, tail_torn, tail_durable,
  tail_accepted, df_disk, df_node, df_unit, df_blob, df_hwm, df_free,
  df_freeHead, df_mixed, df_todo, df_serial, df_ops, trie_mem, trie_free,
  trie_hwm, trie_floor, trie_root, trie_pub, trie_want, trie_pubwant,
  trie_untidy, trie_events, scan_disk, scan_len, scan_hwm, scan_free,
  scan_floor, scan_ids, scan_keys, scan_node, scan_root, scan_cipher,
  scan_idOk, scan_keyOk, scan_pub, scan_survived, scan_mode, scan_stamp,
  scan_tainted, rd_key, rd_id, rd_frontier, rd_resolve, rd_cache, rd_batch,
  rd_pub, rd_file, rd_moves, db_unit, db_index, db_want, db_indexed

logVars == <<log_region, log_platter, log_hdr, log_prop, log_head, log_wal,
      log_overlay, log_pending, log_batch, log_op, log_pc, log_writes,
      log_crashes, log_fault, log_log>>
logOff ==
  /\ log_region = 0 /\ log_platter = 0 /\ log_hdr = 0 /\ log_prop = 0
  /\ log_head = 0 /\ log_wal = 0 /\ log_overlay = 0 /\ log_pending = 0
  /\ log_batch = 0 /\ log_op = 0 /\ log_pc = 0 /\ log_writes = 0
  /\ log_crashes = 0 /\ log_fault = 0 /\ log_log = 0

Log == INSTANCE AsyncLog WITH
  AsyncShapes <- AlignedAsync, SyncShapes <- DisjointSync, InitLen <- 3,
  RegionSize <- 3, BatchedLog <- FALSE,
  Faults <- {"publish", "append", "enable"}, MaxWrites <- 3, MaxCrash <- 2,
  region <- log_region, platter <- log_platter, hdr <- log_hdr,
  prop <- log_prop, head <- log_head, wal <- log_wal,
  overlay <- log_overlay, pending <- log_pending, batch <- log_batch,
  op <- log_op, pc <- log_pc, writes <- log_writes, crashes <- log_crashes,
  fault <- log_fault, log <- log_log

tailVars == <<tail_cache, tail_disk, tail_len, tail_hdr, tail_hwm, tail_low,
      tail_wal, tail_cursor, tail_grown, tail_pc, tail_writes, tail_crashes,
      tail_placed, tail_torn, tail_durable, tail_accepted>>
tailOff ==
  /\ tail_cache = 0 /\ tail_disk = 0 /\ tail_len = 0 /\ tail_hdr = 0
  /\ tail_hwm = 0 /\ tail_low = 0 /\ tail_wal = 0 /\ tail_cursor = 0
  /\ tail_grown = 0 /\ tail_pc = 0 /\ tail_writes = 0 /\ tail_crashes = 0
  /\ tail_placed = 0 /\ tail_torn = 0 /\ tail_durable = 0
  /\ tail_accepted = 0

Growth == INSTANCE TailGrowth WITH
  GrowChunk <- 2, WalSize <- 2, MaxLen <- 14, MaxWrites <- 5, MaxCrash <- 1,
  cache <- tail_cache, disk <- tail_disk, len <- tail_len, hdr <- tail_hdr,
  hwm <- tail_hwm, low <- tail_low, wal <- tail_wal, cursor <- tail_cursor,
  grown <- tail_grown, pc <- tail_pc, writes <- tail_writes,
  crashes <- tail_crashes, placed <- tail_placed, torn <- tail_torn,
  durable <- tail_durable, accepted <- tail_accepted

defragVars == <<df_disk, df_node, df_unit, df_blob, df_hwm, df_free, df_freeHead,
      df_mixed, df_todo, df_serial, df_ops>>
defragOff ==
  /\ df_disk = 0 /\ df_node = 0 /\ df_unit = 0 /\ df_blob = 0 /\ df_hwm = 0
  /\ df_free = 0 /\ df_freeHead = 0 /\ df_mixed = 0 /\ df_todo = 0
  /\ df_serial = 0 /\ df_ops = 0

Compaction == INSTANCE Defrag WITH
  Units <- {"u1", "u2"}, MaxAddr <- 20, MaxOps <- 6, disk <- df_disk,
  node <- df_node, unit <- df_unit, blob <- df_blob, hwm <- df_hwm,
  free <- df_free, freeHead <- df_freeHead, mixed <- df_mixed,
  todo <- df_todo, serial <- df_serial, ops <- df_ops

trieVars == <<trie_mem, trie_free, trie_hwm, trie_floor, trie_root, trie_pub,
      trie_want, trie_pubwant, trie_untidy, trie_events>>
trieOff ==
  /\ trie_mem = 0 /\ trie_free = 0 /\ trie_hwm = 0 /\ trie_floor = 0
  /\ trie_root = 0 /\ trie_pub = 0 /\ trie_want = 0 /\ trie_pubwant = 0
  /\ trie_untidy = 0 /\ trie_events = 0

Trie == INSTANCE CatalogTrie WITH
  Bytes <- {1, 2}, Keys <- TrieKeys, Uuids <- {"u"}, MaxNodes <- 8,
  MaxEvents <- 4, mem <- trie_mem, free <- trie_free, hwm <- trie_hwm,
  floor <- trie_floor, root <- trie_root, pub <- trie_pub,
  want <- trie_want, pubwant <- trie_pubwant, untidy <- trie_untidy,
  events <- trie_events

scanVars == <<scan_disk, scan_len, scan_hwm, scan_free, scan_floor, scan_ids,
      scan_keys, scan_node, scan_root, scan_cipher, scan_idOk, scan_keyOk,
      scan_pub, scan_survived, scan_mode, scan_stamp, scan_tainted>>
scanOff ==
  /\ scan_disk = 0 /\ scan_len = 0 /\ scan_hwm = 0 /\ scan_free = 0
  /\ scan_floor = 0 /\ scan_ids = 0 /\ scan_keys = 0 /\ scan_node = 0
  /\ scan_root = 0 /\ scan_cipher = 0 /\ scan_idOk = 0 /\ scan_keyOk = 0
  /\ scan_pub = 0 /\ scan_survived = 0 /\ scan_mode = 0 /\ scan_stamp = 0
  /\ scan_tainted = 0

Scan == INSTANCE ScanRecovery WITH
  Uuids <- {id1, id2}, Paths <- {p}, MaxAddr <- 7, MaxWrites <- 3,
  disk <- scan_disk, len <- scan_len, hwm <- scan_hwm, free <- scan_free,
  floor <- scan_floor, ids <- scan_ids, keys <- scan_keys,
  node <- scan_node, root <- scan_root, cipher <- scan_cipher,
  idOk <- scan_idOk, keyOk <- scan_keyOk, pub <- scan_pub,
  survived <- scan_survived, mode <- scan_mode, stamp <- scan_stamp,
  tainted <- scan_tainted

readVars == <<rd_key, rd_id, rd_frontier, rd_resolve, rd_cache, rd_batch, rd_pub,
      rd_file, rd_moves>>
readOff ==
  /\ rd_key = 0 /\ rd_id = 0 /\ rd_frontier = 0 /\ rd_resolve = 0
  /\ rd_cache = 0 /\ rd_batch = 0 /\ rd_pub = 0 /\ rd_file = 0
  /\ rd_moves = 0

Read == INSTANCE ReadPath WITH
  Paths <- {"p", "q"}, Uuids <- {"u", "v"}, NoUnit <- "none", FragSize <- 3,
  ParMin <- 2, ResolveCap <- 1, RecordCap <- 1, Offsets <- {0, 1},
  Lengths <- {1, 4}, Sizes <- {0, 1, 3}, MaxSize <- 4, MaxAddr <- 4,
  MaxMoves <- 1, key <- rd_key, id <- rd_id, frontier <- rd_frontier,
  resolve <- rd_resolve, cache <- rd_cache, batch <- rd_batch,
  pub <- rd_pub, file <- rd_file, moves <- rd_moves

nosqlVars == <<db_unit, db_index, db_want, db_indexed>>
nosqlOff ==
  /\ db_unit = 0 /\ db_index = 0 /\ db_want = 0 /\ db_indexed = 0

Db == INSTANCE NoSql WITH
  Pks <- {1, 2}, Props <- {1, 2}, W <- 2, Inputs <- Inputs, Wide <- {-2},
  RepeatPk <- FALSE, unit <- db_unit, index <- db_index, want <- db_want,
  indexed <- db_indexed

-----------------------------------------------------------------------------
(* One part moves; the variables of the others are switched off. *)

MCInit ==
  /\ part \in {"header", "log", "tail", "defrag", "trie", "scan", "read", "nosql"}
  /\ Init
  /\ IF part = "log" THEN Log!Init ELSE logOff
  /\ IF part = "tail" THEN Growth!Init ELSE tailOff
  /\ IF part = "defrag" THEN Compaction!Init ELSE defragOff
  /\ IF part = "trie" THEN Trie!Init ELSE trieOff
  /\ IF part = "scan" THEN Scan!Init ELSE scanOff
  /\ IF part = "read" THEN Read!Init ELSE readOff
  /\ IF part = "nosql" THEN Db!Init ELSE nosqlOff

MCNext ==
  \/ part = "header" /\ Next
     /\ UNCHANGED <<part, logVars, tailVars, defragVars, trieVars, scanVars,
                    readVars, nosqlVars>>
  \/ part = "log" /\ Log!Next
     /\ UNCHANGED <<part, vars, tailVars, defragVars, trieVars, scanVars,
                    readVars, nosqlVars>>
  \/ part = "tail" /\ Growth!Next
     /\ UNCHANGED <<part, vars, logVars, defragVars, trieVars, scanVars,
                    readVars, nosqlVars>>
  \/ part = "defrag" /\ Compaction!Next
     /\ UNCHANGED <<part, vars, logVars, tailVars, trieVars, scanVars,
                    readVars, nosqlVars>>
  \/ part = "trie" /\ Trie!Next
     /\ UNCHANGED <<part, vars, logVars, tailVars, defragVars, scanVars,
                    readVars, nosqlVars>>
  \/ part = "scan" /\ Scan!Next
     /\ UNCHANGED <<part, vars, logVars, tailVars, defragVars, trieVars,
                    readVars, nosqlVars>>
  \/ part = "read" /\ Read!Next
     /\ UNCHANGED <<part, vars, logVars, tailVars, defragVars, trieVars,
                    scanVars, nosqlVars>>
  \/ part = "nosql" /\ Db!Next
     /\ UNCHANGED <<part, vars, logVars, tailVars, defragVars, trieVars,
                    scanVars, readVars>>

MCVars == <<part, vars, logVars, tailVars, defragVars, trieVars, scanVars,
            readVars, nosqlVars>>

MCSpec == MCInit /\ [][MCNext]_MCVars

-----------------------------------------------------------------------------
\* Asynchronous writes: a read returns the newest accepted bytes, stable storage
\* holds them, and what is pending can be replayed (Engine::write_async,
\* checkpoint, the replay at open).
LogKeepsWrites ==
  part = "log" => Log!ReadsLatest /\ Log!StorageHoldsAccepted /\ Log!PendingIsReplayable

\* However often the file grew and the tail and the log moved with it, an open
\* finds every undo image and every log record it needs (Allocator::grow_for, the
\* probe of rebuild_allocator).
TailFound == part = "tail" => Growth!ImagesFound /\ Growth!RecordsFound

\* Online defragmentation moves nothing over the blocks of a live head and loses
\* no superseded record (Engine::defrag_inner).
DefragKeeps == part = "defrag" => Compaction!HeadsIntact /\ Compaction!HistoryIntact

\* A catalog answers as a map from keys to values would, in the committed tree
\* and in the working one, and a batch gives back the nodes it superseded
\* (Trie::put, remove, free_node_cow).
TrieExact == part = "trie" => Trie!CatalogExact /\ Trie!GrowthBounded

\* A scan of the raw blocks brings back every unit, none at an older head than
\* the committed one (recovery::scan_recover, rebuild_and_publish).
ScanBringsBack == part = "scan" => Scan!AllUnitsBack /\ Scan!HeadNotOlder

\* A read through both caches returns the current bytes of the unit the catalog
\* binds (Engine::read_at).
ReadsCurrent == part = "read" => Read!ReadsCurrent

\* A stored record decodes to what was put, and every index lists exactly the
\* records with that value (Db::put, put_many, patch, delete).
DocumentsExact == part = "nosql" => Db!RecordsExact /\ Db!IndexExact
=============================================================================
