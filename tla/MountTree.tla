------------------------------ MODULE MountTree ------------------------------
(***************************************************************************)
(* The namespace of a mounted container: the engine's path keys, the       *)
(* ino <-> uuid table and the ino -> path map of                           *)
(* crates/sfs-mount/src/adapter.rs, under requests that FUSE runs on       *)
(* several threads.  A request is split where it releases a lock; the two  *)
(* places that hold one lock while taking another are split there too.     *)
(*                                                                         *)
(* The tree is the root, directories in it and files in those.  The kernel *)
(* holds the lock of a directory shared over lookup and readdir and        *)
(* exclusively over a change of its entries, and the lock of the unit that *)
(* link, unlink, rmdir and a move between directories are about; a rename  *)
(* inside one directory does not lock a directory that it moves.           *)
(***************************************************************************)
EXTENDS Naturals, FiniteSets, Sequences

CONSTANTS Threads,     \* FUSE worker threads
          Dirs,        \* names of directories in the root
          Leaves,      \* names of files in a directory
          MaxUnits,    \* bound: units ever created
          MaxInos,     \* bound: inode numbers ever assigned
          MaxRequests  \* bound: requests

VARIABLES
  names,     \* the engine's key catalog: path -> uuid, 0 when absent
  forward,   \* InodeTable: ino -> uuid, 0 when unassigned or forgotten
  paths,     \* ino -> path, NoPath when the ino has none
  held,      \* thread -> the adapter locks it keeps between two steps
  thread,    \* thread -> the request it serves and where it stands
  nextUuid, nextIno, requests,
  moved      \* history: a directory was renamed under a request inside it

vars == <<names, forward, paths, held, thread, nextUuid, nextIno, requests, moved>>
counters == <<nextUuid, nextIno, requests, moved>>

Root == <<>>
DirPaths == {<<d>> : d \in Dirs}
LeafPaths == {<<d, l>> : d \in Dirs, l \in Leaves}
Paths == DirPaths \cup LeafPaths
NoPath == <<"none">>
Inos == 2..MaxInos
ROOT_INO == 1
Uuids == 1..MaxUnits

Child(path, name) == Append(path, name)
Parent(path) == SubSeq(path, 1, Len(path) - 1)
Below(path) == {p \in Paths : Len(p) > Len(path) /\ SubSeq(p, 1, Len(path)) = path}
Within(path) == {path} \cup Below(path)
\* list_dir: the names right below a path.
list_dir(path) == {p \in Below(path) : Parent(p) = path /\ names[p] # 0}

path_of(ino) == IF ino = ROOT_INO THEN Root ELSE paths[ino]
UnitOf(ino) == IF ino = ROOT_INO THEN 0 ELSE forward[ino]
Directories == {ROOT_INO} \cup {i \in Inos : paths[i] \in DirPaths}
NamesIn(ino) == IF ino = ROOT_INO THEN Dirs ELSE Leaves
Absent(p) == p \notin Paths \/ names[p] = 0

Idle == [pc |-> "idle"]
At(t, pc) == thread[t].pc = pc
Goto(t, rec) == thread' = [thread EXCEPT ![t] = rec]
Free(lock) == \A t \in Threads : lock \notin held[t]

Init ==
  /\ \E d \in Dirs : \E l \in Leaves :
       names = [p \in Paths |-> IF p = <<d>> THEN 1 ELSE IF p = <<d, l>> THEN 2 ELSE 0]
  /\ forward = [i \in Inos |-> 0]
  /\ paths = [i \in Inos |-> NoPath]
  /\ held = [t \in Threads |-> {}]
  /\ thread = [t \in Threads |-> Idle]
  /\ nextUuid = 3 /\ nextIno = 2 /\ requests = 0 /\ moved = FALSE

-----------------------------------------------------------------------------
(* What the kernel grants: the units a request locks.                       *)

\* The directories a request works in, by unit (the root is 0).
WorksIn(r) == {r.dir, r.dir2}
Busy == {t \in Threads : ~At(t, "idle")}

Granted(r) ==
  \A t \in Busy :
    LET s == thread[t] IN
    /\ r.excl \cap (s.excl \cup s.shared) = {}
    /\ s.excl \cap (r.excl \cup r.shared) = {}

\* A directory of r's moves, or a directory moves under r.
Crossing(r) ==
  \E t \in Busy : \/ r.moves # 0 /\ r.moves \in WorksIn(thread[t])
                  \/ thread[t].moves # 0 /\ thread[t].moves \in WorksIn(r)

\* path_of is the first step of every request.
Begin(t, r) ==
  /\ At(t, "idle") /\ requests < MaxRequests /\ Free("paths")
  /\ Granted(r)
  /\ requests' = requests + 1
  /\ moved' = (moved \/ Crossing(r))
  /\ Goto(t, r)
  /\ UNCHANGED <<names, forward, paths, held, nextUuid, nextIno>>

\* A request in directory ino, for one name, that locks what is given.
Request(op, pc, ino, name, shared, excl) ==
  [op |-> op, pc |-> pc, path |-> Child(path_of(ino), name), path2 |-> NoPath,
   dir |-> UnitOf(ino), dir2 |-> UnitOf(ino), moves |-> 0, uuid |-> 0, ino |-> 0,
   todo |-> {}, sub |-> FALSE, shared |-> shared, excl |-> excl]

UnitAt(p) == IF Absent(p) THEN {} ELSE {names[p]}

Lookup(t, ino, name) ==
  Begin(t, Request("lookup", "resolve", ino, name, {UnitOf(ino)}, {}))

Create(t, ino, name) ==
  ino # ROOT_INO /\ Begin(t, Request("create", "create", ino, name, {}, {UnitOf(ino)}))

Mkdir(t, name) ==
  Begin(t, Request("create", "create", ROOT_INO, name, {}, {0}))

\* The target is data of the new unit.
Symlink(t, ino, name) ==
  ino # ROOT_INO /\ Begin(t, Request("create", "create", ino, name, {}, {UnitOf(ino)}))

Unlink(t, ino, name) ==
  /\ ino # ROOT_INO
  /\ LET p == Child(path_of(ino), name) IN
     Begin(t, Request("unlink", "find", ino, name, {}, {UnitOf(ino)} \cup UnitAt(p)))

Rmdir(t, name) ==
  Begin(t, Request("rmdir", "empty", ROOT_INO, name, {}, {0} \cup UnitAt(<<name>>)))

Readdir(t, ino) ==
  Begin(t, [Request("readdir", "list", ino, "", {UnitOf(ino)}, {})
            EXCEPT !.path = path_of(ino)])

Link(t, src, ino, name) ==
  /\ src \in Inos /\ paths[src] \in LeafPaths /\ ino # ROOT_INO
  /\ Begin(t, [Request("link", "link", ino, name, {}, {UnitOf(ino), UnitOf(src)})
               EXCEPT !.path2 = paths[src], !.dir2 = names[Parent(paths[src])]])

\* A rename locks both parents, and the moved unit when they differ; a file
\* is locked in any case.
Rename(t, ino, name, ino2, name2) ==
  LET old == Child(path_of(ino), name)
      new == Child(path_of(ino2), name2)
  IN /\ (ino = ROOT_INO) = (ino2 = ROOT_INO) /\ old # new /\ ~Absent(old)
     /\ Begin(t, [Request("rename", "children", ino, name, {},
                          {UnitOf(ino), UnitOf(ino2)}
                            \cup (IF ino = ROOT_INO THEN {} ELSE UnitAt(old)))
                  EXCEPT !.path2 = new, !.dir2 = UnitOf(ino2),
                         !.moves = IF ino = ROOT_INO THEN names[old] ELSE 0])

-----------------------------------------------------------------------------
(* lookup, create, link, readdir: the engine answers, then the inode is     *)
(* assigned with `inodes` and `paths` held together, taken in that order.   *)

Resolve(t) ==
  /\ At(t, "resolve")
  /\ Goto(t, IF Absent(thread[t].path) THEN Idle
             ELSE [thread[t] EXCEPT !.pc = "inodes", !.uuid = names[thread[t].path]])
  /\ UNCHANGED <<names, forward, paths, held, counters>>

CreateUnit(t) ==
  /\ At(t, "create") /\ nextUuid <= MaxUnits
  /\ LET p == thread[t].path IN
     \/ /\ ~Absent(p)
        /\ Goto(t, Idle)
        /\ UNCHANGED <<names, nextUuid>>
     \/ /\ Absent(p)
        /\ names' = [names EXCEPT ![p] = nextUuid]
        /\ nextUuid' = nextUuid + 1
        /\ Goto(t, [thread[t] EXCEPT !.pc = "inodes", !.uuid = nextUuid])
  /\ UNCHANGED <<forward, paths, held, nextIno, requests, moved>>

LinkUnit(t) ==
  /\ At(t, "link")
  /\ LET r == thread[t] IN
     \/ /\ Absent(r.path2) \/ ~Absent(r.path)
        /\ Goto(t, Idle)
        /\ UNCHANGED names
     \/ /\ ~Absent(r.path2) /\ Absent(r.path)
        /\ names' = [names EXCEPT ![r.path] = names[r.path2]]
        /\ Goto(t, [r EXCEPT !.pc = "inodes", !.uuid = names[r.path2]])
  /\ UNCHANGED <<forward, paths, held, counters>>

\* readdir lists once and assigns the children one by one.
List(t) ==
  /\ At(t, "list")
  /\ Goto(t, [thread[t] EXCEPT !.pc = "next",
                !.todo = {<<p, names[p]>> : p \in list_dir(thread[t].path)}])
  /\ UNCHANGED <<names, forward, paths, held, counters>>

NextEntry(t) ==
  /\ At(t, "next")
  /\ \/ /\ thread[t].todo = {}
        /\ Goto(t, Idle)
     \/ \E e \in thread[t].todo :
          Goto(t, [thread[t] EXCEPT !.pc = "inodes", !.path = e[1], !.uuid = e[2],
                                    !.todo = @ \ {e}])
  /\ UNCHANGED <<names, forward, paths, held, counters>>

LockInodes(t) ==
  /\ At(t, "inodes") /\ Free("inodes")
  /\ held' = [held EXCEPT ![t] = {"inodes"}]
  /\ Goto(t, [thread[t] EXCEPT !.pc = "assign"])
  /\ UNCHANGED <<names, forward, paths, counters>>

\* InodeTable::get_or_assign.
Known(uuid) == {i \in Inos : forward[i] = uuid}

assign_ino(t) ==
  /\ At(t, "assign") /\ Free("paths")
  /\ LET r == thread[t] IN
     /\ \/ /\ Known(r.uuid) # {}
           /\ \E i \in Known(r.uuid) : paths' = [paths EXCEPT ![i] = r.path]
           /\ UNCHANGED <<forward, nextIno>>
        \/ /\ Known(r.uuid) = {} /\ nextIno <= MaxInos
           /\ forward' = [forward EXCEPT ![nextIno] = r.uuid]
           /\ paths' = [paths EXCEPT ![nextIno] = r.path]
           /\ nextIno' = nextIno + 1
     /\ Goto(t, IF r.op = "readdir" THEN [r EXCEPT !.pc = "next"] ELSE Idle)
  /\ held' = [held EXCEPT ![t] = {}]
  /\ UNCHANGED <<names, nextUuid, requests, moved>>

-----------------------------------------------------------------------------
(* unlink and rmdir: the inode is found by its path, the key is removed,    *)
(* then the mapping is dropped with `paths` held while `inodes` is taken.   *)

\* Mutant of CheckEmpty: rmdir does not look for entries.
CheckNothing(t) ==
  /\ At(t, "empty")
  /\ Goto(t, [thread[t] EXCEPT !.pc = "find"])
  /\ UNCHANGED <<names, forward, paths, held, counters>>

CheckEmpty(t) ==
  /\ At(t, "empty")
  /\ Goto(t, IF list_dir(thread[t].path) # {} THEN Idle
             ELSE [thread[t] EXCEPT !.pc = "find"])
  /\ UNCHANGED <<names, forward, paths, held, counters>>

Find(t) ==
  /\ At(t, "find") /\ Free("paths")
  /\ LET inos == {i \in Inos : paths[i] = thread[t].path} IN
     \/ /\ inos = {}
        /\ Goto(t, [thread[t] EXCEPT !.pc = "remove"])
     \/ \E i \in inos : Goto(t, [thread[t] EXCEPT !.pc = "remove", !.ino = i])
  /\ UNCHANGED <<names, forward, paths, held, counters>>

Remove(t) ==
  /\ At(t, "remove")
  /\ LET r == thread[t] IN
     \/ /\ Absent(r.path)
        /\ Goto(t, Idle)
        /\ UNCHANGED names
     \/ /\ ~Absent(r.path)
        /\ names' = [names EXCEPT ![r.path] = 0]
        /\ Goto(t, IF r.ino = 0 THEN Idle ELSE [r EXCEPT !.pc = "drop"])
  /\ UNCHANGED <<forward, paths, held, counters>>

DropPath(t) ==
  /\ At(t, "drop") /\ Free("paths")
  /\ held' = [held EXCEPT ![t] = {"paths"}]
  /\ paths' = [paths EXCEPT ![thread[t].ino] = NoPath]
  /\ Goto(t, [thread[t] EXCEPT !.pc = "forget"])
  /\ UNCHANGED <<names, forward, counters>>

Forget(t) ==
  /\ At(t, "forget") /\ Free("inodes")
  /\ held' = [held EXCEPT ![t] = {}]
  /\ forward' = [forward EXCEPT ![thread[t].ino] = 0]
  /\ Goto(t, Idle)
  /\ UNCHANGED <<names, paths, counters>>

-----------------------------------------------------------------------------
(* rename: has_children decides between Engine::rename and rename_prefix,   *)
(* then the cached paths follow.                                            *)

Children(t) ==
  /\ At(t, "children")
  /\ Goto(t, [thread[t] EXCEPT !.pc = "move", !.sub = list_dir(thread[t].path) # {}])
  /\ UNCHANGED <<names, forward, paths, held, counters>>

\* The path p becomes when old is renamed to new.
Renamed(p, old, new) == new \o SubSeq(p, Len(old) + 1, Len(p))

\* The keys that move: the one, or with rename_prefix the subtree too.
Moving(r) == {p \in (IF r.sub THEN Within(r.path) ELSE {r.path}) : ~Absent(p)}

Refused(r) ==
  \/ Moving(r) = {}
  \/ ~Absent(r.path2)
  \/ r.sub /\ \E p \in Below(r.path2) : ~Absent(p)

Move(t) ==
  /\ At(t, "move")
  /\ LET r == thread[t]
         targets == {Renamed(p, r.path, r.path2) : p \in Moving(r)}
     IN \/ /\ Refused(r)
           /\ Goto(t, Idle)
           /\ UNCHANGED names
        \/ /\ ~Refused(r)
           /\ names' = [p \in Paths |->
                IF p \in targets THEN names[Renamed(p, r.path2, r.path)]
                ELSE IF p \in Moving(r) THEN 0 ELSE names[p]]
           /\ Goto(t, [r EXCEPT !.pc = "repath"])
  /\ UNCHANGED <<forward, paths, held, counters>>

Repath(t) ==
  /\ At(t, "repath") /\ Free("paths")
  /\ LET r == thread[t]
         follows == (IF r.sub THEN Within(r.path) ELSE {r.path})
     IN paths' = [i \in Inos |-> IF paths[i] \in follows
                                 THEN Renamed(paths[i], r.path, r.path2) ELSE paths[i]]
  /\ Goto(t, Idle)
  /\ UNCHANGED <<names, forward, held, counters>>

-----------------------------------------------------------------------------
ArriveRead(t) ==
  \E i \in Directories : Readdir(t, i) \/ \E n \in NamesIn(i) : Lookup(t, i, n)

ArriveNew(t) ==
  \/ \E n \in Dirs : Mkdir(t, n)
  \/ \E i \in Directories : \E n \in NamesIn(i) : Create(t, i, n) \/ Symlink(t, i, n)
  \/ \E s \in Inos, i \in Directories : \E n \in NamesIn(i) : Link(t, s, i, n)

ArriveChange(t) ==
  \/ \E i \in Directories : \E n \in NamesIn(i) : Unlink(t, i, n)
  \/ \E n \in Dirs : Rmdir(t, n)
  \/ \E i, j \in Directories : \E n \in NamesIn(i), m \in NamesIn(j) : Rename(t, i, n, j, m)

Step(t) ==
  \/ Resolve(t) \/ CreateUnit(t) \/ LinkUnit(t) \/ List(t) \/ NextEntry(t)
  \/ LockInodes(t) \/ assign_ino(t)
  \/ CheckEmpty(t) \/ Find(t) \/ Remove(t) \/ DropPath(t) \/ Forget(t)
  \/ Children(t) \/ Move(t) \/ Repath(t)

Next == \E t \in Threads : ArriveRead(t) \/ ArriveNew(t) \/ ArriveChange(t) \/ Step(t)

Spec == Init /\ [][Next]_vars

-----------------------------------------------------------------------------
\* The inodes a request in flight is about to move, drop or assign.
Settling(i) == \E t \in Busy :
  LET r == thread[t] IN
  \/ r.pc = "repath" /\ paths[i] \in {r.path} \cup Below(r.path)
  \/ r.pc = "drop" /\ r.ino = i

(* A request that names an inode reaches the unit the inode was assigned    *)
(* for: the cached path of an inode, when no rename or unlink of it is in   *)
(* flight, names that very unit (assign_ino, unlink, rename; the kernel     *)
(* keeps using the number).  Left out: a directory renamed while a request  *)
(* works inside it.                                                         *)
RightUnit ==
  ~moved => \A i \in Inos : paths[i] # NoPath /\ forward[i] # 0 /\ ~Settling(i)
              => names[paths[i]] = forward[i]

(* No file is stranded below a directory that is gone (the ENOTEMPTY guard  *)
(* of rmdir, the subtree move of rename).  Left out as above.               *)
NoOrphans == ~moved => \A p \in LeafPaths : names[p] # 0 => names[Parent(p)] # 0

(* One unit never has two inode numbers, so hard links share theirs and a   *)
(* rename keeps it (InodeTable, link's debug_assert).                       *)
OneInode == \A i, j \in Inos : forward[i] # 0 /\ forward[i] = forward[j] => i = j

(* What the code does not guarantee (README, Divergences).                  *)

(* No two requests wait for each other's lock: "Deadlock is impossible as   *)
(* long as this order is respected" (the locking order of FsAdapter).       *)
NoLockCycle ==
  ~\E t, u \in Threads : At(t, "assign") /\ At(u, "forget")
=============================================================================
