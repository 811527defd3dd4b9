------------------------------ MODULE MCMount -------------------------------
(***************************************************************************)
(* Instances for model checking: one file of a mount, and its name tree.   *)
(* Threads and handles are interchangeable.                                *)
(***************************************************************************)
EXTENDS MountFile, TLC

Symmetry == Permutations(Threads) \cup Permutations(Handles)

VARIABLES
  part, tree_names, tree_forward, tree_paths, tree_held, tree_thread,
  tree_nextUuid, tree_nextIno, tree_requests, tree_moved

treeVars == <<tree_names, tree_forward, tree_paths, tree_held, tree_thread,
      tree_nextUuid, tree_nextIno, tree_requests, tree_moved>>
treeOff ==
  /\ tree_names = 0 /\ tree_forward = 0 /\ tree_paths = 0 /\ tree_held = 0
  /\ tree_thread = 0 /\ tree_nextUuid = 0 /\ tree_nextIno = 0
  /\ tree_requests = 0 /\ tree_moved = 0

Tree == INSTANCE MountTree WITH
  Threads <- Threads, Dirs <- {"a", "b"}, Leaves <- {"x", "y"},
  MaxUnits <- 4, MaxInos <- 5, MaxRequests <- 4, names <- tree_names,
  forward <- tree_forward, paths <- tree_paths, held <- tree_held,
  thread <- tree_thread, nextUuid <- tree_nextUuid, nextIno <- tree_nextIno,
  requests <- tree_requests, moved <- tree_moved

-----------------------------------------------------------------------------
(* One part moves; the variables of the others are switched off.  The file  *)
(* is full and every handle open on it, or empty with one handle open; the  *)
(* sizes between are reached by writes and size changes.                    *)

StartOpen == {h \in Handles : cache[h].state = "open"}

MCInit ==
  /\ part \in {"file", "tree"}
  /\ Init
  /\ part = "file" => \/ limit = NumCells /\ StartOpen = Handles
                      \/ limit = 0 /\ Cardinality(StartOpen) = 1
  /\ IF part = "tree" THEN Tree!Init ELSE treeOff
  /\ (part # "file" => limit = 0 /\ \A h \in Handles : cache[h] = Closed)

MCNext ==
  \/ part = "file" /\ Next
     /\ UNCHANGED <<part, treeVars>>
  \/ part = "tree" /\ Tree!Next
     /\ UNCHANGED <<part, vars>>

MCVars == <<part, vars, treeVars>>

MCSpec == MCInit /\ [][MCNext]_MCVars

-----------------------------------------------------------------------------
\* A request that names an inode acts on the unit the inode stands for, also
\* while directories above it are renamed, no unit has two inodes, and no entry is
\* left below a directory that is gone (InodeTable; FsAdapter::create_file, rmdir,
\* rename).
TreeSound ==
  part = "tree" => Tree!RightUnit /\ Tree!OneInode /\ Tree!NoOrphans
=============================================================================
