---------------------------- MODULE CatalogTrie ----------------------------
(***************************************************************************)
(* The byte-radix trie both catalogs are stored in (catalog/trie.rs): put  *)
(* and remove copy the spine they change, a node is stored twice, a batch  *)
(* hands the nodes it supersedes back to the allocator, and the header     *)
(* names the root the last publish left.  Checked against a plain map.     *)
(*                                                                         *)
(* A node block is a record, its CRC or tag a set of rotten copies.  The   *)
(* depth and visit limits of the traversals only concern malformed         *)
(* containers and are left out.                                            *)
(***************************************************************************)
EXTENDS Integers, Sequences, FiniteSets, SequencesExt, FiniteSetsExt, Functions

CONSTANTS
  Bytes,       \* the byte alphabet, a set of positive numbers
  Keys,        \* paths: sequences of bytes, some a prefix of others
  Uuids,       \* what a path maps to
  Absent,      \* no value
  MaxNodes,    \* node pairs the container has room for
  MaxEvents    \* bound on puts, removals and copies that rot

VARIABLES
  mem,      \* [1..MaxNodes -> node pair], the data region
  free,     \* node pairs below the frontier that the allocator lends
  hwm,      \* Allocator.live_hwm: pairs handed out so far
  floor,    \* Allocator.reclaim_floor, 0 when None
  root,     \* Trie.root, in memory
  pub,      \* the root the header names
  want,     \* the map the in-memory catalog stands for
  pubwant,  \* the map the published catalog stands for
  untidy,   \* whether the open batch removed a key or failed a put
  events    \* puts, removals and rotten copies so far

vars == <<mem, free, hwm, floor, root, pub, want, pubwant, untidy, events>>


Copies == {"primary", "backup"}

---------------------------------------------------------------------------
\* Node blocks

encode_leaf(k, v) == [kind |-> "leaf", key |-> k, val |-> v]
Internal(t, s) == [kind |-> "internal", term |-> t, slots |-> s]
empty == Internal(Absent, [b \in Bytes |-> 0])
NoNode == [node |-> empty, rotten |-> Copies]

Children(n) == IF n.kind = "leaf" THEN {} ELSE Range(n.slots) \ {0}
is_empty(n) == n.term = Absent /\ Children(n) = {}
lone_child(n) == IF n.term = Absent /\ Cardinality({b \in Bytes : n.slots[b] # 0}) = 1
                 THEN CHOOSE b \in Bytes : n.slots[b] # 0 ELSE 0

\* A read checks the primary copy and falls back to the backup; with both gone
\* the read is an integrity error, and the node reads as empty here.
read_node_with_backup(m, a) == IF m[a].rotten # Copies THEN m[a].node ELSE empty

\* Every node reachable from a root (visit_nodes).
RECURSIVE visit_nodes(_, _)
visit_nodes(m, a) ==
  {a} \cup UNION {visit_nodes(m, c) : c \in Children(read_node_with_backup(m, a))}

\* Both copies of a node are written, backup first.
write_node_pair(m, a, node) == [m EXCEPT ![a] = [node |-> node, rotten |-> {}]]

\* A node pair is allocated and written; a failure returns address 0 and keeps what
\* was done before it.
alloc_node_cow(st, node) ==
  LET a == IF st.free # {} THEN Min(st.free)
           ELSE IF st.hwm < MaxNodes THEN st.hwm + 1 ELSE 0
  IN  IF a = 0 THEN [st EXCEPT !.addr = 0]
      ELSE [mem |-> write_node_pair(st.mem, a, node),
            free |-> st.free \ {a}, hwm |-> IF a > st.hwm THEN a ELSE st.hwm,
            addr |-> a]

\* Mutant of free_node_cow: every superseded node is lent again, not only the
\* ones the batch allocated.
free_any_node(st, a) == [st EXCEPT !.free = IF floor # 0 THEN @ \cup {a} ELSE @]

free_node_cow(st, a) ==
  [st EXCEPT !.free = IF floor # 0 /\ a >= floor THEN @ \cup {a} ELSE @]

---------------------------------------------------------------------------
\* get, put, remove, scan

RECURSIVE get_at(_, _, _, _)
get_at(m, a, key, d) ==
  LET n == read_node_with_backup(m, a) IN
  IF n.kind = "leaf" THEN IF n.key = key THEN n.val ELSE Absent
  ELSE IF d = Len(key) THEN n.term
  ELSE IF n.slots[key[d + 1]] = 0 THEN Absent
  ELSE get_at(m, n.slots[key[d + 1]], key, d + 1)

get_path(m, r, key) == get_at(m, r, key, 0)

\* The node is wrapped in plain nodes for the bytes key[lo + 1 .. hi].
RECURSIVE Wrap(_, _, _, _)
Wrap(st, key, lo, hi) ==
  IF st.addr = 0 \/ hi = lo THEN st
  ELSE Wrap(alloc_node_cow(st, Internal(Absent,
              [b \in Bytes |-> IF b = key[hi] THEN st.addr ELSE 0])), key, lo, hi - 1)

\* The first place at or after d where two keys differ, or the shorter length.
Diverge(k, l, d) ==
  LET n == Min({Len(k), Len(l)})
  IN  Min({n} \cup {i \in d .. n - 1 : k[i + 1] # l[i + 1]})

\* Case A of branch_leaf: the shorter key is a prefix of the longer.
BranchPrefix(st, sk, sv, lk, lv, d) ==
  LET s1 == alloc_node_cow(st, encode_leaf(lk, lv))
      s2 == alloc_node_cow(s1, Internal(sv,
              [b \in Bytes |-> IF b = lk[Len(sk) + 1] THEN s1.addr ELSE 0]))
  IN  IF s1.addr = 0 THEN s1 ELSE Wrap(s2, sk, d, Len(sk))

\* Case B: the keys differ at byte e.
BranchApart(st, ok, ov, nk, nv, d, e) ==
  LET s1 == alloc_node_cow(st, encode_leaf(ok, ov))
      s2 == alloc_node_cow(s1, encode_leaf(nk, nv))
      s3 == alloc_node_cow(s2, Internal(Absent,
              [b \in Bytes |-> IF b = ok[e + 1] THEN s1.addr
                               ELSE IF b = nk[e + 1] THEN s2.addr ELSE 0]))
  IN  IF s1.addr = 0 THEN s1 ELSE IF s2.addr = 0 THEN s2 ELSE Wrap(s3, ok, d, e)

branch_leaf(st, ok, ov, nk, nv, d) ==
  LET e == Diverge(ok, nk, d) IN
  IF e < Min({Len(ok), Len(nk)}) THEN BranchApart(st, ok, ov, nk, nv, d, e)
  ELSE IF Len(ok) < Len(nk) THEN BranchPrefix(st, ok, ov, nk, nv, d)
  ELSE BranchPrefix(st, nk, nv, ok, ov, d)

\* The recursive insert: the result's addr is the fresh node that supersedes the
\* one at a, which is handed back once that node is written.
RECURSIVE put_at(_, _, _, _, _)
put_at(st, a, key, val, d) ==
  LET n == read_node_with_backup(st.mem, a)
      child == n.slots[key[d + 1]]
      below == IF child = 0 THEN alloc_node_cow(st, encode_leaf(key, val))
               ELSE put_at(st, child, key, val, d + 1)
      new == IF n.kind = "leaf"
             THEN IF n.key = key THEN alloc_node_cow(st, encode_leaf(key, val))
                  ELSE branch_leaf(st, n.key, n.val, key, val, d)
             ELSE IF d = Len(key) THEN alloc_node_cow(st, [n EXCEPT !.term = val])
             ELSE IF below.addr = 0 THEN below
             ELSE alloc_node_cow(below, [n EXCEPT !.slots[key[d + 1]] = below.addr])
  IN  IF new.addr = 0 THEN new ELSE free_node_cow(new, a)

Heap == [mem |-> mem, free |-> free, hwm |-> hwm, addr |-> root]

put(key, val) == put_at(Heap, root, key, val, 0)

Outcome(st, res) == [st |-> st, res |-> res]

\* A node that lost its value or a child: pruned when nothing is left, replaced by
\* its only child's copy when that is a leaf, else written again.
rebuild_after_remove(st, n) ==
  LET b == lone_child(n)
      child == read_node_with_backup(st.mem, n.slots[b])
      new == alloc_node_cow(st, IF b # 0 /\ child.kind = "leaf" THEN child ELSE n)
  IN  IF is_empty(n) THEN Outcome(st, "pruned")
      ELSE Outcome(new, IF new.addr = 0 THEN "failed" ELSE "replaced")

Superseding(out, a) ==
  IF out.res = "failed" THEN out ELSE [out EXCEPT !.st = free_node_cow(@, a)]

RECURSIVE remove_at(_, _, _, _)
remove_at(st, a, key, d) ==
  LET n == read_node_with_backup(st.mem, a)
      child == n.slots[key[d + 1]]
      below == remove_at(st, child, key, d + 1)
      spine == alloc_node_cow(below.st, [n EXCEPT !.slots[key[d + 1]] = below.st.addr])
  IN  IF n.kind = "leaf"
      THEN IF n.key = key THEN Superseding(Outcome(st, "pruned"), a)
           ELSE Outcome(st, "absent")
      ELSE IF d = Len(key)
      THEN IF n.term = Absent THEN Outcome(st, "absent")
           ELSE Superseding(rebuild_after_remove(st, [n EXCEPT !.term = Absent]), a)
      ELSE IF child = 0 THEN Outcome(st, "absent")
      ELSE CASE below.res \in {"absent", "failed"} -> below
             [] below.res = "replaced" ->
                  Superseding(Outcome(spine, IF spine.addr = 0 THEN "failed"
                                             ELSE "replaced"), a)
             [] below.res = "pruned" ->
                  Superseding(rebuild_after_remove(below.st,
                                [n EXCEPT !.slots[key[d + 1]] = 0]), a)

\* A root that became empty is replaced by a fresh empty root.
remove(key) ==
  LET out == remove_at(Heap, root, key, 0)
      fresh == alloc_node_cow(out.st, empty)
  IN  IF out.res # "pruned" THEN out
      ELSE Outcome(fresh, IF fresh.addr = 0 THEN "failed" ELSE "replaced")

\* The entries under a prefix, in the order the traversal emits them: the prefix
\* is walked byte by byte, then a node's value comes before its children's.
RECURSIVE scan_at(_, _, _, _)
scan_at(m, a, prefix, path) ==
  LET n == read_node_with_backup(m, a)
      d == Len(path)
      Ways == IF d < Len(prefix) THEN {prefix[d + 1]} ELSE Bytes
      kids == SetToSortSeq({b \in Ways : n.slots[b] # 0}, <)
      own == IF d >= Len(prefix) /\ n.term # Absent THEN << <<path, n.term>> >> ELSE <<>>
  IN  IF n.kind = "leaf"
      THEN IF IsPrefix(prefix, n.key) THEN << <<n.key, n.val>> >> ELSE <<>>
      ELSE own \o FlattenSeq([i \in DOMAIN kids |->
                    scan_at(m, n.slots[kids[i]], prefix, Append(path, kids[i]))])

scan_paths(m, r, prefix) == scan_at(m, r, prefix, <<>>)

---------------------------------------------------------------------------
\* The catalog, its batches and its container

Init ==
  /\ mem = [a \in 1 .. MaxNodes |-> IF a = 1 THEN [node |-> empty, rotten |-> {}]
                                    ELSE NoNode]
  /\ free = {} /\ hwm = 1 /\ floor = 0
  /\ root = 1 /\ pub = 1
  /\ want = [k \in Keys |-> Absent] /\ pubwant = want
  /\ untidy = FALSE /\ events = 0

Apply(st) == mem' = st.mem /\ free' = st.free /\ hwm' = st.hwm

\* The in-memory root advances; outside a batch the header follows at once.
Advance(r, w) ==
  /\ root' = r /\ want' = w
  /\ IF floor = 0 THEN pub' = r /\ pubwant' = w ELSE UNCHANGED <<pub, pubwant>>

\* A put that runs out of space leaves the root alone; what it wrote and handed
\* back before that stays.
put_path(k, u) ==
  LET st == put(k, u) IN
  /\ events < MaxEvents
  /\ Apply(st)
  /\ IF st.addr # 0 THEN Advance(st.addr, [want EXCEPT ![k] = u])
     ELSE UNCHANGED <<root, want, pub, pubwant>>
  /\ events' = events + 1
  /\ untidy' = (untidy \/ (floor # 0 /\ st.addr = 0))
  /\ UNCHANGED floor

\* Removing an absent path leaves the root alone.
remove_path(k) ==
  LET out == remove(k) IN
  /\ events < MaxEvents
  /\ Apply(out.st)
  /\ IF out.res = "replaced" THEN Advance(out.st.addr, [want EXCEPT ![k] = Absent])
     ELSE UNCHANGED <<root, want, pub, pubwant>>
  /\ untidy' = (untidy \/ floor # 0)
  /\ events' = events + 1
  /\ UNCHANGED floor

begin_batch ==
  /\ floor = 0
  /\ floor' = hwm + 1
  /\ UNCHANGED <<mem, free, hwm, root, pub, want, pubwant, untidy, events>>

commit_batch ==
  /\ floor # 0
  /\ floor' = 0 /\ untidy' = FALSE
  /\ pub' = root /\ pubwant' = want
  /\ UNCHANGED <<mem, free, hwm, root, want, events>>

\* A transaction whose closure fails ends its scope and publishes nothing; the
\* in-memory roots stay where the closure left them.
TransactionFails ==
  /\ floor # 0
  /\ floor' = 0 /\ untidy' = FALSE
  /\ UNCHANGED <<mem, free, hwm, root, pub, want, pubwant, events>>

\* A crash, or a close without a commit, then an open: the frontier is put behind
\* the last node the published root reaches, and no gap below it is lent.
Reopen ==
  LET live == visit_nodes(mem, pub) IN
  /\ mem' = [a \in 1 .. MaxNodes |-> IF a \in live THEN mem[a] ELSE NoNode]
  /\ hwm' = Max(live) /\ free' = {}
  /\ floor' = 0 /\ untidy' = FALSE
  /\ root' = pub /\ want' = pubwant
  /\ UNCHANGED <<pub, pubwant, events>>

\* One copy of a node decays while the other is sound.
Rot(a, c) ==
  /\ events < MaxEvents
  /\ a \in visit_nodes(mem, root) \cup visit_nodes(mem, pub)
  /\ mem[a].rotten = {}
  /\ mem' = [mem EXCEPT ![a].rotten = {c}]
  /\ events' = events + 1
  /\ UNCHANGED <<free, hwm, floor, root, pub, want, pubwant, untidy>>

Next ==
  \/ \E k \in Keys : remove_path(k) \/ \E u \in Uuids : put_path(k, u)
  \/ begin_batch \/ commit_batch \/ TransactionFails \/ Reopen
  \/ \E a \in 1 .. MaxNodes, c \in Copies : Rot(a, c)

Spec == Init /\ [][Next]_vars

---------------------------------------------------------------------------
\* Properties

LexLess(k, l) ==
  \/ IsStrictPrefix(k, l)
  \/ \E i \in 1 .. Min({Len(k), Len(l)}) :
       k[i] < l[i] /\ SubSeq(k, 1, i - 1) = SubSeq(l, 1, i - 1)

\* The entries of a map under a prefix, sorted by key.
Listing(w, prefix) ==
  LET ks == SetToSortSeq({k \in Keys : IsPrefix(prefix, k) /\ w[k] # Absent}, LexLess)
  IN  [i \in DOMAIN ks |-> <<ks[i], w[ks[i]]>>]

Stands(r, w) ==
  /\ \A k \in Keys : get_path(mem, r, k) = w[k]
  /\ \A p \in Keys \cup {<<>>} : scan_paths(mem, r, p) = Listing(w, p)

\* Both roots answer every lookup and every listing, in key order, as the map they
\* stand for does: the in-memory root the last put or removal left, and the root
\* the header names, whatever a batch wrote, handed back and reused since, and with
\* one copy of a node rotten (put_at, remove_at, free_node_cow, scan_at).
CatalogExact == Stands(root, want) /\ Stands(pub, pubwant)

\* A batch that only puts keeps no node it superseded: what it took from the
\* frontier is free again or part of the tree it is building (free_node_cow,
\* "bounding bulk-load container growth to the final live-trie size").
GrowthBounded ==
  floor # 0 /\ ~untidy => (floor .. hwm) \ free \subseteq visit_nodes(mem, root)
============================================================================
