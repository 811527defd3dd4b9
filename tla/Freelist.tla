----------------------------- MODULE Freelist -----------------------------
(***************************************************************************)
(* The freelist of one allocator region (container/alloc.rs, Freelist): a  *)
(* sorted map from start address to length, here a set of [at, len] with   *)
(* one element per address.  Addresses and lengths are counted in blocks.  *)
(***************************************************************************)
EXTENDS Integers, FiniteSets, FiniteSetsExt

Run(at, n) == at .. at + n - 1
End(e) == e.at + e.len
BlocksOf(e) == Run(e.at, e.len)
Blocks(S) == UNION {BlocksOf(e) : e \in S}

-----------------------------------------------------------------------------
\* Mutant of Predecessor: an extent that only touches the new one stays apart.
PredecessorOverlapping(list, addr) ==
  LET below == {e \in list : e.at <= addr}
  IN {e \in below : (\A f \in below : f.at <= e.at) /\ End(e) > addr}

\* insert: the entry at or below the address, if it reaches the address.
Predecessor(list, addr) ==
  LET below == {e \in list : e.at <= addr}
  IN {e \in below : (\A f \in below : f.at <= e.at) /\ End(e) >= addr}

\* insert: the new extent swallows its predecessor and every entry that starts
\* inside it or at its end.
Inserted(list, addr, len) ==
  LET pred == Predecessor(list, addr)
      start == Min({addr} \cup {e.at : e \in pred})
      end == Max({addr + len} \cup {End(e) : e \in pred})
      succs == {e \in list \ pred : start <= e.at /\ e.at <= end}
      last == Max({end} \cup {End(e) : e \in succs})
  IN (list \ (pred \cup succs)) \cup {[at |-> start, len |-> last - start]}

\* insert, for each extent of S.
Some(S) == CHOOSE e \in S : TRUE
InsertedAll(list, S) ==
  LET into[T \in SUBSET S] ==
        IF T = {} THEN list
        ELSE Inserted(into[T \ {Some(T)}], Some(T).at, Some(T).len)
  IN into[S]

\* first_fit: the lowest extent that fits, or none.
FirstFit(list, n) ==
  {e \in list : e.len >= n /\ \A f \in list : f.len >= n => e.at <= f.at}

\* remove_range, as alloc_aligned uses it: the head of the extent is taken, a
\* remainder stays.
Removed(list, e, n) ==
  (list \ {e}) \cup IF e.len > n THEN {[at |-> e.at + n, len |-> e.len - n]} ELSE {}

-----------------------------------------------------------------------------
\* What the list promises: no entry overlaps or touches another, so a run of
\* free blocks is one entry and first fit over entries misses no run.
IsCoalesced(list) ==
  \A e, f \in list : e # f => End(e) < f.at \/ End(f) < e.at

FindsLowestRun(list, n) ==
  {e.at : e \in FirstFit(list, n)}
    = LET runs == {b \in Blocks(list) : Run(b, n) \subseteq Blocks(list)}
      IN {b \in runs : \A c \in runs : b <= c}
=============================================================================
